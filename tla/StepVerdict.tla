---------------------------- MODULE StepVerdict ------------------------------
(***************************************************************************)
(* parse_goal_step and step_directive of agent-core/src/goal.rs: how the   *)
(* text of a model's reply becomes a verdict, and how a verdict's steer    *)
(* gets into the prompt of the next step.                                  *)
(*                                                                         *)
(* A reply grows by deltas, which may cut a line anywhere.  Its characters *)
(* are grouped into tokens: a line break, a blank, the marker GOAL_STEP:,  *)
(* the three status words, and x for all other text.  Tokens that touch    *)
(* are one word, as in the text.                                           *)
(***************************************************************************)
EXTENDS Naturals, Sequences, SequencesExt

CONSTANTS
    NoText,         \* Option::None
    MaxTokens       \* bound: length of a reply

ASSUME VerdictAssumption == MaxTokens \in Nat

VARIABLES
    reply,      \* MeshInference.reply
    scan,       \* the reference: a forward scan of the reply, token by token
    steer,      \* pending_steer of the driver
    concluded   \* the goal left Acting

replyVars == <<reply, scan, steer, concluded>>

Tokens == {"nl", "blank", "GOAL_STEP:", "done", "blocked", "continue", "x"}

-----------------------------------------------------------------------------
(* parse_goal_step.                                                        *)

\* str::lines: where a line begins, behind a break or at 0, and that line.
Breaks(text) == {0} \union {i \in 1..Len(text) : text[i] = "nl"}

Line(text, b) ==
    SubSeq(text, b + 1, Min({i \in Breaks(text) : i > b} \union {Len(text) + 1}) - 1)

\* str::trim
Trim(s) ==
    LET ink == {i \in 1..Len(s) : s[i] # "blank"}
    IN  IF ink = {} THEN << >> ELSE SubSeq(s, Min(ink), Max(ink))

\* Mutant of IsVerdictLine: the line is not trimmed.
IsVerdictLineUntrimmed(line) == line # << >> /\ Head(line) = "GOAL_STEP:"

\* line.trim().strip_prefix("GOAL_STEP:")
IsVerdictLine(line) == Trim(line) # << >> /\ Head(Trim(line)) = "GOAL_STEP:"

\* rest.split_once(char::is_whitespace)
Word(rest) == SelectInSeq(rest, LAMBDA c : c = "blank")

Status(rest) == IF Word(rest) = 0 THEN rest ELSE SubSeq(rest, 1, Word(rest) - 1)

\* Mutant of Remainder: the tail is not trimmed.
RemainderUntrimmed(rest) ==
    IF Word(rest) = 0 THEN << >> ELSE SubSeq(rest, Word(rest) + 1, Len(rest))

Remainder(rest) ==
    IF Word(rest) = 0 THEN << >> ELSE Trim(SubSeq(rest, Word(rest) + 1, Len(rest)))

Verdict(kind, text) == [kind |-> kind, text |-> text]

\* Mutant of Judge: any mention of a status word counts.
JudgeMention(status, text) ==
    CASE \E i \in 1..Len(status \o text) : (status \o text)[i] = "done" -> Verdict("done", NoText)
      [] status = << "blocked" >> -> Verdict("blocked", text)
      [] OTHER -> Verdict("continue", IF text = << >> THEN NoText ELSE text)

\* The verdict of a status word and its text; an unknown word is no verdict,
\* which the caller takes for Continue(None), and an empty reason is "blocked".
Judge(status, text) ==
    CASE status = << "done" >> -> Verdict("done", NoText)
      [] status = << "blocked" >> -> Verdict("blocked", IF text = << >> THEN << "blocked" >> ELSE text)
      [] status = << "continue" >> -> Verdict("continue", IF text = << >> THEN NoText ELSE text)
      [] OTHER -> Verdict("continue", NoText)

\* What a verdict line says.
VerdictOf(line) ==
    LET rest == Trim(Tail(Trim(line)))
    IN  Judge(Status(rest), Remainder(rest))

\* The last verdict line of the reply decides.
ParseGoalStep(text) ==
    LET marked == {b \in Breaks(text) : IsVerdictLine(Line(text, b))}
    IN  IF marked = {} THEN Verdict("continue", NoText)
        ELSE VerdictOf(Line(text, Max(marked)))

-----------------------------------------------------------------------------
(* step_directive: the prompt of the next step.                            *)

\* GOAL_STEP: continue <optional steer ...> | done | blocked <reason>
Convention == << "GOAL_STEP:", "blank", "continue", "blank", "x", "blank", "done",
                 "blank", "x", "blank", "blocked", "blank", "x" >>

Directive(s) ==
    << "x", "nl", "x" >>
    \o (IF s = NoText THEN << >> ELSE << "nl", "x", "blank" >> \o s)
    \o << "nl", "x", "nl" >>
    \o Convention

-----------------------------------------------------------------------------
(* The reference: one pass, forward, in which every verdict line overrides *)
(* what came before.                                                       *)

Fresh == [mode |-> "start", status |-> << >>, text |-> << >>, gap |-> << >>]

Scan(r, c) ==
    CASE c = "nl" -> [r EXCEPT !.mode = "start", !.gap = << >>]
      [] c # "nl" /\ r.mode = "start" /\ c = "GOAL_STEP:" -> [Fresh EXCEPT !.mode = "rest"]
      [] c = "blank" /\ r.mode \in {"start", "rest", "ignore"} -> r
      [] c = "blank" /\ r.mode = "status" -> [r EXCEPT !.mode = "text"]
      [] c = "blank" /\ r.mode = "text" ->
            IF r.text = << >> THEN r ELSE [r EXCEPT !.gap = Append(@, c)]
      [] c \notin {"nl", "blank", "GOAL_STEP:"} /\ r.mode = "start" -> [r EXCEPT !.mode = "ignore"]
      [] c \notin {"nl", "blank"} /\ r.mode = "ignore" -> r
      [] c \notin {"nl", "blank"} /\ r.mode \in {"rest", "status"} ->
            [r EXCEPT !.mode = "status", !.status = Append(@, c)]
      [] c \notin {"nl", "blank"} /\ r.mode = "text" ->
            [r EXCEPT !.text = Append(@ \o r.gap, c), !.gap = << >>]

-----------------------------------------------------------------------------

VerdictInit ==
    /\ reply = << >>
    /\ scan = Fresh
    /\ steer = NoText
    /\ concluded = FALSE

\* self.reply.push_str(&delta).  (Bound: one turn is streamed, up to the prompt
\* its steer gets into; parse_goal_step keeps nothing between turns.)
Delta(c) ==
    /\ ~concluded /\ steer = NoText
    /\ Len(reply) < MaxTokens
    /\ reply' = Append(reply, c)
    /\ scan' = Scan(scan, c)
    /\ UNCHANGED <<steer, concluded>>

\* The turn is complete: the verdict goes to the driver, the next prompt is
\* sent and the reply cleared.
Complete ==
    LET verdict == ParseGoalStep(reply)
    IN  /\ ~concluded
        /\ concluded' = (verdict.kind # "continue")
        /\ steer' = IF verdict.kind = "continue" THEN verdict.text ELSE NoText
        /\ reply' = << >>
        /\ scan' = Fresh

VerdictNext == Complete \/ \E c \in Tokens : Delta(c)

VerdictSpec == VerdictInit /\ [][VerdictNext]_replyVars

-----------------------------------------------------------------------------
(* Properties.                                                             *)

\* At every point of a reply the backward search of parse_goal_step finds the
\* verdict of a forward reading in which each verdict line overrides the one
\* before it, in status, steer and reason (goal.rs:291-317).
LastLineDecides == ParseGoalStep(reply) = Judge(scan.status, scan.text)

\* A steer is put into one line of the next prompt (goal.rs:277-280): it is not
\* empty, has no line break and no blanks around it, whatever was streamed.
SteerIsOneLine ==
    steer # NoText =>
        /\ steer # << >>
        /\ Head(steer) # "blank" /\ Last(steer) # "blank"
        /\ \A i \in 1..Len(steer) : steer[i] # "nl"

\* A model that answers by repeating its prompt does not conclude the goal:
\* the convention line lists all three words, and reads as a Continue,
\* whatever steer the prompt carried (goal.rs:281-284, 292-314).
EchoNeverConcludes == ParseGoalStep(Directive(steer)).kind = "continue"

=============================================================================
