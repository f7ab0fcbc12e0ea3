------------------------------ MODULE SidConflict ------------------------------
(***************************************************************************)
(* The resolution of SID conflicts (conflct_res.c): which of the           *)
(* advertised prefix SIDs stay active.  Mappings are compared two by two,  *)
(* in the order of a list, and a loser is out at once.                     *)
(*                                                                         *)
(* A mapping is a prefix, an index and the router that advertises it.  A   *)
(* prefix is the set of the routers it is attached to, so a loopback       *)
(* address has a longer mask than the subnet of a link.  The preference is *)
(* that of a router which is no mapping server (no router ever is,         *)
(* instance.c:141); range, algorithm and topology have one value each.     *)
(***************************************************************************)
EXTENDS Naturals, Sequences, FiniteSets, FiniteSetsExt, SequencesExt

CONSTANT Address   \* the prefixes with the order of their addresses

ASSUME AddressConstants ==
  /\ Address \in [DOMAIN Address -> Nat]
  /\ \A p, q \in DOMAIN Address : IsFiniteSet(p) /\ (Address[p] = Address[q] => p = q)

\* construct_prefix_mapping_entry
Mapping(host, sid) == [host |-> host, pfx |-> sid.pfx, idx |-> sid.idx]

\* One prefix with two indices.
PrefixesConflict(m1, m2) == m1.pfx = m2.pfx /\ m1.idx # m2.idx

\* Two prefixes with one index.
SidsConflict(m1, m2) == m1.idx = m2.idx /\ m1.pfx # m2.pfx

\* resolve_prefix_conflict: the higher index loses.
PrefixLost(m1, m2) == m1.idx > m2.idx

ShorterMask(p, q) == Cardinality(p) > Cardinality(q)

\* Mutant of SidLost: the later mapping of the list loses.
SidLostLater(m1, m2) == FALSE

\* resolve_prefix_sid_conflict: the shorter mask loses, then the greater address.
SidLost(m1, m2) ==
  \/ ShorterMask(m1.pfx, m2.pfx)
  \/ ~ShorterMask(m2.pfx, m1.pfx) /\ Address[m1.pfx] > Address[m2.pfx]

Conflict(pass, m1, m2) == IF pass = "prefix" THEN PrefixesConflict(m1, m2) ELSE SidsConflict(m1, m2)
Lost(pass, m1, m2) == IF pass = "prefix" THEN PrefixLost(m1, m2) ELSE SidLost(m1, m2)

\* Mappings i and j of the list, if both are active, meet; the loser is out.
Meet(list, pass, active, i, j) ==
  IF i < j /\ {i, j} \subseteq active /\ Conflict(pass, list[i], list[j])
  THEN active \ {IF Lost(pass, list[i], list[j]) THEN i ELSE j}
  ELSE active

\* Mapping i meets the ones behind it.
MeetAll(list, pass, active, i) ==
  LET met[j \in 0..Len(list)] ==
        IF j = 0 THEN active ELSE Meet(list, pass, met[j - 1], i, j)
  IN met[Len(list)]

\* The mappings that are active after the loops of a pass.
Active(list, pass) ==
  LET left[i \in 0..Len(list)] ==
        IF i = 0 THEN DOMAIN list ELSE MeetAll(list, pass, left[i - 1], i)
  IN left[Len(list)]

\* Those that are out are removed from the list.
Winners(list, pass) ==
  LET active == Active(list, pass)
      kept[k \in 0..Len(list)] ==
        IF k = 0 THEN <<>>
        ELSE IF k \in active THEN Append(kept[k - 1], list[k]) ELSE kept[k - 1]
  IN kept[Len(list)]

\* prefix_conflict_resolution, then prefix_sid_conflict_resolution on what it returns
Resolved(list) == Winners(Winners(list, "prefix"), "sid")

-----------------------------------------------------------------------------
(* What the two passes are for, without a list.                            *)

Lowest(S, p) == Min({m.idx : m \in {x \in S : x.pfx = p}})

Preferred(p, q) ==
  \/ ShorterMask(q, p)
  \/ ~ShorterMask(p, q) /\ Address[p] < Address[q]

Survivors(S) ==
  {m \in S : /\ m.idx = Lowest(S, m.pfx)
             /\ \A x \in S : x.pfx # m.pfx /\ Lowest(S, x.pfx) = m.idx => Preferred(m.pfx, x.pfx)}
=============================================================================
