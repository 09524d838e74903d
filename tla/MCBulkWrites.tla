---------------------------- MODULE MCBulkWrites ----------------------------
(***************************************************************************)
(* BulkWrites for TLC: bulks on one and two entities, the kinds of update  *)
(* that are not carried out between two that are, bulks that end early.    *)
(***************************************************************************)
EXTENDS BulkWrites, TLC

CONSTANTS e1, e2, b1, k1, d1, unknown, on, off

Upd(id, value) == [id |-> id, value |-> value]

NotCarriedOut ==
    <<Upd(k1, on), Upd(k1, off), Upd(e1, Unusable), Upd(e2, Missing), Upd(d1, on),
      Upd(unknown, on)>>

SmallBulks ==
    {<<Upd(e1, on), Upd(e1, off)>>, <<Upd(e1, off), Upd(e1, on)>>,
     <<Upd(b1, Unusable), Upd(e1, on)>>,
     <<Upd(e1, on)>> \o NotCarriedOut \o <<Upd(e2, on)>>,
     <<Upd(e1, on), Upd(e2, Breaking)>>, <<Upd(e1, on), Upd(NoId, on)>>}

Interchangeable == Permutations(Requests)
=============================================================================
