---------------------------- MODULE ContextPack ----------------------------
(***************************************************************************)
(* buildContextPack of context-pack/build-context-pack.ts: the rows of a   *)
(* search, best first, dealt out to five sections of bounded length.       *)
(***************************************************************************)
EXTENDS Ranking

SectionNames == {"project_summary", "recent_decisions", "constraints",
                 "open_questions", "relevant_notes"}

SectionLimit(section) == IF section = "project_summary" THEN 2 ELSE 5

IsDecision(row) == row.memoryType = "decision" \/ row.sourceType = "decision"

(* The order of the tests is the loop's: a decision whose content begins with
   "Open question:" is an open question. *)
SectionOf(row) ==
    CASE row.text.prefix = "question"   -> "open_questions"
      [] row.text.prefix = "constraint" -> "constraints"
      [] row.text.prefix = "none" /\ IsDecision(row) -> "recent_decisions"
      [] OTHER -> IF row.scopeType = "project" /\ row.memoryType = "summary"
                  THEN "project_summary" ELSE "relevant_notes"

EmptyPack == [sections |-> [s \in SectionNames |-> <<>>], selected |-> <<>>]

(* Mutant: a row goes to the front of the selection. *)
PushInFront(pack, row) ==
    [sections |-> [pack.sections EXCEPT ![SectionOf(row)] = Append(@, row)],
     selected |-> <<row.id>> \o pack.selected]

(* pushSelection: a full section takes no more, and its overflow goes nowhere. *)
PushSelection(pack, row) ==
    LET section == SectionOf(row)
    IN  IF Len(pack.sections[section]) >= SectionLimit(section)
        THEN pack
        ELSE [sections |-> [pack.sections EXCEPT ![section] = Append(@, row)],
              selected |-> Append(pack.selected, row.id)]

BuildContextPack(rows) ==
    LET pack[n \in 0 .. Len(rows)] ==
            IF n = 0 THEN EmptyPack ELSE PushSelection(pack[n - 1], rows[n])
    IN  pack[Len(rows)]

(* renderSection: project rows before user rows, otherwise in rank order. *)
RenderSection(rows) ==
    LET project(r) == r.scopeType = "project"
    IN  Selected(rows, project) \o Selected(rows, LAMBDA r : ~ project(r))
=============================================================================
