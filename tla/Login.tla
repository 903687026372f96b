------------------------------- MODULE Login -------------------------------
(***************************************************************************)
(* The Login widget of the greeter (greeter/Login.c): two prompts, the     *)
(* text typed at each, and the operations the greeter and the user's keys  *)
(* perform on them.  A widget is a record; every operator maps a widget to *)
(* the widget after the call, drawing included as far as it changes state. *)
(*                                                                         *)
(* Of a text only its length counts, and whether it was typed at a prompt  *)
(* without echo.  All characters are one wide, Field of them fit.          *)
(***************************************************************************)
EXTENDS Naturals

CONSTANTS
  TextMax,    \* VALUE_TEXT_MAX, the size of a prompt's buffer
  Field,      \* MAX_VALUE_W, in characters
  Echo,       \* the resource echoPasswd
  KeyLengths  \* how many bytes one key press may produce

ASSUME LoginAssumption ==
  /\ TextMax \in Nat /\ TextMax >= 2
  /\ Field \in Nat \ {0}
  /\ Echo \in BOOLEAN
  /\ KeyLengths \subseteq Nat \ {0}

PromptId == {0, 1}   \* LOGIN_PROMPT_USERNAME, LOGIN_PROMPT_PASSWORD

Styles == {"hidden", "on", "off", "info"}  \* loginPromptState

Prompts == [style  : Styles,
            len    : 0 .. TextMax,     \* strlen(valueText)
            secret : BOOLEAN,          \* typed while the style was "off"
            cursor : Nat,
            start  : Nat, end : Nat]   \* valueShownStart, valueShownEnd

Widgets == [state  : {"prompting", "message", "done"},
            active : PromptId,
            prompt : [PromptId -> Prompts],
            failUp : BOOLEAN,
            timer  : BOOLEAN,          \* interval_id # 0
            allow  : BOOLEAN,          \* allow_access
            leaked : BOOLEAN]          \* history: a secret text was drawn

TakesText(p) == p.style \in {"on", "off"}

Larger(a, b)  == IF a > b THEN a ELSE b
Smaller(a, b) == IF a < b THEN a ELSE b

-----------------------------------------------------------------------------
(* Drawing.                                                                *)

\* what of a value realizeValue draws at all
Painted(p) == p.style # "hidden" /\ (p.style = "off" => Echo)

\* realizeValue in the text colour: when what follows position from does not fit,
\* scroll until the cursor or the end of the text is reached
Drawn(p, from) ==
  LET shown  == Larger(from, p.start)
      curoff == IF from > p.start THEN from ELSE 0
      excess == p.len - Smaller(p.len, p.start + Field)
      start  == IF p.start < p.cursor THEN Smaller(p.cursor, p.start + excess) ELSE p.start
  IN  IF ~Painted(p) \/ p.len + curoff <= shown + Field
      THEN p
      ELSE [p EXCEPT !.start = start, !.end = start + (p.len - p.start) - excess]

\* draw_it shows every prompt, each value as its style asks for
DrawIt(w) ==
  [w EXCEPT !.prompt = [i \in PromptId |-> Drawn(w.prompt[i], 0)],
            !.leaked = @ \/ \E i \in PromptId : /\ w.prompt[i].style \in {"on", "info"}
                                                /\ w.prompt[i].secret
                                                /\ w.prompt[i].len > 0]

\* ErrorMessage: shown until the timer drops it
ErrorMessage(w, timeout) == [w EXCEPT !.failUp = TRUE, !.timer = timeout]

FailTimeout(w) == [w EXCEPT !.failUp = FALSE, !.timer = FALSE]

-----------------------------------------------------------------------------
(* Operations of the greeter.                                              *)

NewPrompt(style) ==
  [style |-> style, len |-> 0, secret |-> FALSE, cursor |-> 0, start |-> 0, end |-> 0]

Initialize ==
  [state |-> "prompting", active |-> 0,
   prompt |-> [i \in PromptId |-> NewPrompt(IF i = 0 THEN "on" ELSE "off")],
   failUp |-> FALSE, timer |-> FALSE, allow |-> FALSE, leaked |-> FALSE]

\* SetPrompt(w, i, message, style): a hidden prompt is neither made active nor drawn
SetPrompt(w, i, style) ==
  LET styled == [w EXCEPT !.prompt[i].style = style]
      active == IF style = "info" THEN [styled EXCEPT !.state = "message"]
                ELSE [styled EXCEPT !.state = "prompting", !.active = i]
  IN  IF style = "hidden" THEN styled
      ELSE DrawIt([active EXCEPT !.prompt[i].cursor = 0])

\* SetValue(w, i, value), value of n characters; NULL erases
SetValue(w, i, n) ==
  [w EXCEPT !.prompt[i] = [@ EXCEPT !.len = Smaller(n, TextMax), !.secret = FALSE,
                                    !.cursor = 0, !.start = 0, !.end = 0]]

\* ResetLogin leaves styles and valueShownEnd alone
ResetLogin(w) ==
  [w EXCEPT !.state = "prompting", !.active = 0,
            !.prompt = [i \in PromptId |->
              [w.prompt[i] EXCEPT !.len = 0, !.secret = FALSE, !.cursor = 0, !.start = 0]]]

DrawFail(w) == ErrorMessage(ResetLogin(w), TRUE)

-----------------------------------------------------------------------------
(* Editing: what each action does to the active prompt.                    *)

\* mutant: the characters are not cut to what the buffer holds
Inserted_uncut(p, n) ==
  [Drawn([p EXCEPT !.len = @ + n, !.secret = @ \/ p.style = "off"], p.cursor) EXCEPT !.cursor = @ + n]

\* memmove what follows the cursor and put n bytes there, n cut to what the
\* buffer holds
Inserted(p, n) ==
  LET k == IF n + p.len >= TextMax - 1 THEN (TextMax - 2) - p.len ELSE n
      longer == [p EXCEPT !.len = @ + k, !.secret = @ \/ p.style = "off"]
  IN  IF k = 0 THEN p ELSE [Drawn(longer, p.cursor) EXCEPT !.cursor = @ + k]

\* mutant: the shown part does not follow a cursor that left it
CharDeleted_unscrolled(p) ==
  IF p.cursor >= p.len THEN p ELSE Drawn([p EXCEPT !.len = @ - 1], p.cursor)

\* realizeDeleteChar: the character at the cursor, if there is one
CharDeleted(p) ==
  LET shorter == [p EXCEPT !.len = @ - 1]
  IN  IF p.cursor >= p.len THEN p
      ELSE IF p.cursor < p.start THEN Drawn([shorter EXCEPT !.start = p.cursor], 0)
      ELSE Drawn(shorter, p.cursor)

BackwardCharDeleted(p) ==
  IF p.cursor > 0 THEN CharDeleted([p EXCEPT !.cursor = @ - 1]) ELSE p

MovedBackward(p) ==
  LET q == [p EXCEPT !.cursor = IF @ > 0 THEN @ - 1 ELSE @]
  IN  IF q.cursor < q.start THEN Drawn([q EXCEPT !.start = q.cursor], 0) ELSE q

\* the value is drawn again when the cursor leaves the part last drawn in full
Redrawn(p) == IF p.end < p.cursor THEN Drawn(p, 0) ELSE p

MovedForward(p) ==
  IF p.cursor < p.len THEN Redrawn([p EXCEPT !.cursor = @ + 1]) ELSE p

MovedToBegining(p) ==
  IF p.start > 0 THEN Drawn([p EXCEPT !.cursor = 0, !.start = 0], 0)
  ELSE [p EXCEPT !.cursor = 0]

MovedToEnd(p) == Redrawn([p EXCEPT !.cursor = p.len])

ErasedToEnd(p) == [p EXCEPT !.len = p.cursor]

LineErased(p) == ErasedToEnd(MovedToBegining(p))

Edited(p) ==
  {CharDeleted(p), BackwardCharDeleted(p), MovedBackward(p), MovedForward(p),
   MovedToBegining(p), MovedToEnd(p), ErasedToEnd(p), LineErased(p)}
  \cup {Inserted(p, n) : n \in KeyLengths}

\* the widgets one editing key can lead to; outside PROMPTING it only removes
\* the failure message
Typed(w) ==
  {[w EXCEPT !.failUp = FALSE, !.prompt[w.active] = p] :
     p \in IF w.state = "prompting" THEN Edited(w.prompt[w.active]) ELSE {w.prompt[w.active]}}

-----------------------------------------------------------------------------
(* The other keys.                                                         *)

\* TabField goes round the prompts until it finds one that takes text
TabField(w) ==
  LET other == 1 - w.active
  IN  [w EXCEPT !.failUp = FALSE,
                !.active = IF w.state = "prompting" /\ TakesText(w.prompt[other])
                           THEN other ELSE @]

\* ... and for ever if none does: its loop ends at the active prompt, which the
\* first prompt's search steps over
TabFieldSpins(w) ==
  /\ w.state = "prompting" /\ w.active = 0
  /\ \A i \in PromptId : ~TakesText(w.prompt[i])

\* FinishField goes on to the next prompt that takes text; without one it is done
FinishField(w) ==
  IF w.active = 0 /\ TakesText(w.prompt[1])
  THEN [w EXCEPT !.failUp = FALSE, !.active = 1]
  ELSE [w EXCEPT !.failUp = FALSE, !.state = "done"]

\* RestartSession, AbortSession, AbortDisplay, whatever the widget's state
Aborted(w) == [w EXCEPT !.failUp = FALSE, !.state = "done"]

AllowAccess(w) == [w EXCEPT !.failUp = FALSE, !.allow = ~@]

-----------------------------------------------------------------------------
\* the cursor is inside the text, not before the part of it that is drawn, nor, as far
\* as any is drawn, behind it
CursorShown(p) ==
  /\ p.start <= p.cursor /\ p.cursor <= p.len
  /\ Painted(p) => p.cursor <= p.start + Field
=============================================================================
