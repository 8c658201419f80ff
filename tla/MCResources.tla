----------------------------- MODULE MCResources -----------------------------
(* A small organization, explored along three stories.                      *)
EXTENDS Resources, TLC

Symmetry == Permutations(Client) \union Permutations(Policy) \union Permutations(Key)
              \union Permutations(Config) \union Permutations(Name)

(* Bounds: answers to commands that create, and revisions of all policies. *)
MaxAnswers == 3
MaxRevisions == 4

None(S) == \A r \in S : ~Exists(r)

Tree == None(Policy)

Edits ==
    /\ None(Project)
    /\ \A p \in Policy : Exists(p) => row[p].kind = "test"
    /\ Cardinality({pv \in Policy \X (1..MaxVersion) : pv[2] <= Len(revisions[pv[1]])})
         <= MaxRevisions

Targets ==
    /\ None(Permission \union Credential)
    /\ \A c \in Client : seen[c] = Idle
    /\ \A p \in Project : Exists(p) => row[p].name = row[p].slug

Constraint ==
    /\ Cardinality(answers) <= MaxAnswers
    /\ Tree \/ Edits \/ Targets
=============================================================================
