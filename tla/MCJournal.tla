----------------------------- MODULE MCJournal -----------------------------
(* A child and two guardians; two scopes of the child's grades that share a   *)
(* key, two concurrent transactions, two scanner versions of which one     *)
(* passes every text but the bad one and the other none but the plain one. *)
EXTENDS Journal, TLC

CONSTANTS p1, p2

MCLockOrder == [s \in Members \cup {Household} |->
                  CASE s = Household -> 1 [] s = "dad" -> 2 [] s = "kid" -> 3 [] OTHER -> 4]
MCGuardianOf == [m \in Members |-> IF m # "kid" THEN {"kid"} ELSE {}]
MCSubjectOf == [s \in Scopes |-> "kid"]
MCPasses == [v \in Versions |-> IF v = "v1" THEN {"plain"} ELSE {"plain", "odd"}]
Snap(sc, t, c, r) == [scope |-> sc, obs |-> t, complete |-> c, recs |-> r]
Two(a, b) == [k \in {"k1", "k2"} |-> IF k = "k1" THEN a ELSE b]
One(a) == [k \in {"k1"} |-> a]
MCMenu == {Snap("A", 1, TRUE, Two("plain", "odd")),
           Snap("A", 2, TRUE, One("odd")),
           Snap("B", 2, FALSE, One("bad")),
           Snap("A", 3, FALSE, One("plain"))}
MCNoteMenu == {[author |-> "mom", subj |-> "kid", val |-> "odd", obs |-> 1],
               [author |-> "mom", subj |-> Household, val |-> "plain", obs |-> 2]}
MCVersionOf == [p \in Procs |-> IF p = p1 THEN "v1" ELSE "v2"]
Sym == Permutations(SnapIds) \cup Permutations(Pseudonyms)
=============================================================================
