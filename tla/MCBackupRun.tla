---------------------------- MODULE MCBackupRun ----------------------------
(***************************************************************************)
(* Small networks for BackupRun.  Link i is the pair of directed edges     *)
(* 2i-1 (from the first router to the second) and 2i; an LSP is one edge.  *)
(***************************************************************************)
EXTENDS BackupRun

CONSTANTS ra, rb, rc, rd, re

EdgesOf(links) == 1..(2 * Len(links))
LinkOf(e) == (e + 1) \div 2
SrcOf(links) == [e \in EdgesOf(links) |-> links[LinkOf(e)][IF e % 2 = 1 THEN 1 ELSE 2]]
DstOf(links) == [e \in EdgesOf(links) |-> links[LinkOf(e)][IF e % 2 = 1 THEN 2 ELSE 1]]
TwinOf(links) == [e \in EdgesOf(links) |-> IF e % 2 = 1 THEN e + 1 ELSE e - 1]

\* Link i has metric m[i] from its first router and back[i] from the second; the
\* edges P are protected with the flags f, and every router has the options o.
Network(m, back, P, f, o, n) ==
  [metric |-> [x \in Edge |-> IF x % 2 = 1 THEN m[LinkOf(x)] ELSE back[LinkOf(x)]],
   status |-> [x \in Edge |-> TRUE], overload |-> {},
   protect |-> [x \in Edge |-> IF x \in P THEN f ELSE {}],
   options |-> [x \in Node |-> o], cmds |-> n]

\* A ring of five routers with a chord.
Ring == <<<<ra, rb>>, <<rb, rc>>, <<rc, rd>>, <<rd, re>>, <<re, ra>>, <<rb, re>>>>
RingNodes == {ra, rb, rc, rd, re}
RingEdges == EdgesOf(Ring)
RingSrc == SrcOf(Ring)
RingDst == DstOf(Ring)
RingTwin == TwinOf(Ring)
\* One run on all networks with metrics 1 and 3, the same in both directions or
\* the other one on the way back of all links but the chord, and sequences of
\* commands, some of them on the chord, on two networks.
Remote == {"enabled", "remote"}
Both == {"link", "node"}
Metrics == [1..6 -> {1, 3}]
Turned(m) == [i \in 1..6 |-> IF i = 6 THEN m[i] ELSE 4 - m[i]]
Detour == <<4, 3, 9, 3, 1, 1>>
RingAll ==
  {Network(m, m, {1, 3}, Both, Remote, 1) : m \in Metrics} \cup
  {Network(m, m, {1, 3}, f, {"enabled"}, 1) : m \in Metrics, f \in {{"link"}, {"node"}}} \cup
  {Network(m, Turned(m), {1}, Both, Remote, 1) : m \in Metrics} \cup
  {Network(Detour, Detour, {1, 10}, Both, o, 3) : o \in {{"enabled"}, Remote}}
RingConf == {12}
NoLsp == {}
NoPhys == <<>>
=============================================================================
