----------------------------- MODULE PolicyDiff -----------------------------
(***************************************************************************)
(* The Policy Version Diff (policy_versions/diff.py): candidate Rules of a *)
(* re-ingested document against the extracted, cited Rules of the same     *)
(* document in the current Policy Version.  Two greedy passes over the     *)
(* candidates, in order: the first consumes current Rules with the same    *)
(* semantic signature, the second consumes what is left by the relaxed one.*)
(*                                                                         *)
(* What the text, class, scope, condition, applicability and exceptions of *)
(* a rule are is visible to the passes only through its two signatures,    *)
(* so a rule is a record that carries them: signature.exact and .relaxed.  *)
(***************************************************************************)
EXTENDS Naturals, Sequences, FiniteSets

Null == "null"

(* The dimensions of Scope (rules/models.py). *)
ScopeDims == {"country", "expense_category", "travel_type", "employee_group",
              "department", "role", "seniority", "state", "city", "region",
              "effective_start_date", "effective_end_date"}

(* _scope_signature: the dimensions of a Scope the diff compares. *)
ComparedScopeDims == {"country", "expense_category", "travel_type",
                      "employee_group", "effective_start_date",
                      "effective_end_date"}

ScopeSignature(rule) == [d \in ComparedScopeDims |-> rule.scope[d]]

(* _semantic_signature.  rule.statement is the case-folded statement, whose *)
(* numbers are part of it; rule.shape is the same text with every number    *)
(* replaced, so equal statements have equal shapes.                         *)
SemanticSignature(rule) ==
  <<rule.statement, rule.class, ScopeSignature(rule), rule.condition,
    rule.applicability, rule.exceptions>>

(* _relaxed_signature: the number-normalised shape; of the condition only  *)
(* the field; the exceptions not at all.                                   *)
RelaxedSignature(rule) ==
  <<rule.shape, rule.class, ScopeSignature(rule), rule.condition.field,
    rule.applicability>>

(* deque.popleft: the earliest hit, which leaves the pool. *)
LastHit(hits) == CHOOSE i \in hits : \A j \in hits : j <= i     \* mutant of FirstHit
FirstHit(hits) == CHOOSE i \in hits : \A j \in hits : i <= j
Pop(pool, i) == pool \ {i}

(* What is left of the current Rules with the signature of a candidate.    *)
Hits(current, pool, rule, kind) ==
  {i \in pool : current[i].signature[kind] = rule.signature[kind]}

(* One turn of a pass: candidate n takes the first current rule of the     *)
(* pool with its signature, or stays unmatched.                            *)
Turn(acc, candidates, current, kind, n) ==
  LET hits == Hits(current, acc.pool, candidates[n], kind)
  IN  IF hits = {}
      THEN [acc EXCEPT !.unmatched = @ \cup {n}]
      ELSE [acc EXCEPT !.pool = Pop(@, FirstHit(hits)),
                       !.pairs = @ \cup {[candidate |-> n,
                                         current |-> FirstHit(hits)]}]

(* A pass over the candidates whose positions are in turns, in order: what *)
(* it has found after the first n candidates of the list, and in the end.  *)
Passed(candidates, turns, current, pool, kind) ==
  LET after[n \in 0..Len(candidates)] ==
        IF n = 0 THEN [pool |-> pool, unmatched |-> {}, pairs |-> {}]
        ELSE IF n \in turns
        THEN Turn(after[n - 1], candidates, current, kind, n)
        ELSE after[n - 1]
  IN  after

MatchPass(candidates, turns, current, pool, kind) ==
  Passed(candidates, turns, current, pool, kind)[Len(candidates)]

(* diff_candidate_rules_against_current_policy_version, as positions in    *)
(* the two lists (a rule id is in a list once).  No current Policy Version,*)
(* or one without rules of the document, is the empty baseline: every      *)
(* candidate is added.                                                     *)
Diff(candidates, current) ==
  LET first  == MatchPass(candidates, DOMAIN candidates,
                          current, DOMAIN current, "exact")
      second == MatchPass(candidates, first.unmatched,
                          current, first.pool, "relaxed")
  IN  [unchanged |-> first.pairs,
       changed   |-> second.pairs,
       added     |-> second.unmatched,
       removed   |-> second.pool]

DiffCategories == {"added", "changed", "removed", "unchanged"}
=============================================================================
