------------------------------- MODULE MCGate -------------------------------
(* Gate with two addresses, neither of which begins as the other.  An ID, an  *)
(* address and a connection are each like any other.  An upgrade or a message *)
(* has one flaw at most, and so has a request without a body.                 *)
EXTENDS Gate, TLC

Same == {<<ip, ip>> : ip \in IPs}
Symmetry == Permutations(Conns) \cup Permutations(ClientIDs) \cup Permutations(IPs)

AtMostOne(flaws) == {{}} \cup {{f} : f \in flaws}
HeadFlaws == LineFlaws \cup HeaderFlaws \cup ContentFlaws
AnyUpgrade == AtMostOne(HeadFlaws \cup UpgradeFlaws)
AnyMessage == AtMostOne({"size", "kind", "not JSON", "fields", "type", "payload"})

\* Every text that nests, every sequence of three bytes or fewer, and bodies at
\* and beyond each limit.
Bodies ==
  UNION {[1..n -> Bytes] : n \in 0..3} \cup UNION {Texts[n] : n \in 4..5}
    \cup {[i \in 1..n |-> "other"] : n \in 4..8}
AnyRequest ==
  [flaws : AtMostOne(HeadFlaws), json : {FALSE}, body : {<<>>}]
    \cup [flaws : {{}, {"no length"}}, json : {TRUE}, body : Bodies]
    \cup [flaws : {{}, {"no length"}}, json : {FALSE}, body : {[i \in 1..n |-> "other"] : n \in 4..8}]
=============================================================================
