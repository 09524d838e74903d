--------------------------- MODULE InfoRateLimiter ---------------------------
(***************************************************************************)
(* The token buckets of GET /info: InfoRateLimiter of server/http_util.py. *)
(* An address that has no bucket starts with a full one.  The map of       *)
(* buckets is an OrderedDict, used as a list from the least to the most    *)
(* recently used address; here a bucket knows its rank in it instead, from *)
(* 1, the most recently used, and rank 0 stands for no bucket.             *)
(* Tokens are counted in fractions, Unit of them to a token.               *)
(***************************************************************************)
EXTENDS Integers

CONSTANTS
    Addresses,    \* addresses that are not local
    Unit,
    Rate,         \* INFO_RATE_PER_MINUTE, in fractions per tick
    Burst,        \* INFO_RATE_BURST, in fractions
    MaxIps        \* INFO_RATE_MAX_IPS

ASSUME RateAssumption ==
    /\ Unit \in Nat \ {0} /\ Rate \in Nat /\ Burst \in Nat /\ MaxIps \in Nat \ {0}

NoBuckets == [a \in Addresses |-> [rank |-> 0, tokens |-> 0, last |-> 0]]

\* What address a may use up at time now.
Level(buckets, a, now) ==
    LET b      == buckets[a]
        filled == b.tokens + (now - b.last) * Rate
    IN  IF b.rank = 0 \/ filled > Burst THEN Burst ELSE filled

\* Faulty variants (here and below, named after the fault) show that the
\* properties can fail; nothing else uses them.
AdmitsForAPart(buckets, a, now) == Level(buckets, a, now) > 0

Admits(buckets, a, now) == Level(buckets, a, now) >= Unit

RankAfterUntrimmed(buckets, a, x) ==
    LET r == buckets[x].rank
    IN  CASE x = a -> 1
          [] x # a /\ r # 0 /\ (buckets[a].rank = 0 \/ r < buckets[a].rank) -> r + 1
          [] OTHER -> r

\* The rank of x once a has been used; past the limit it is trimmed.
RankAfter(buckets, a, x) ==
    LET r == buckets[x].rank
    IN  CASE x = a -> 1
          [] x # a /\ r # 0 /\ (buckets[a].rank = 0 \/ r < buckets[a].rank) ->
                IF r = MaxIps THEN 0 ELSE r + 1
          [] OTHER -> r

\* check: the bucket is brought up to date, pays for the request if it can, and
\* becomes the most recently used one.
Checked(buckets, a, now) ==
    [x \in Addresses |->
        [rank   |-> RankAfter(buckets, a, x),
         tokens |-> IF x # a THEN buckets[x].tokens
                    ELSE Level(buckets, a, now) - (IF Admits(buckets, a, now) THEN Unit ELSE 0),
         last   |-> IF x = a THEN now ELSE buckets[x].last]]
=============================================================================
