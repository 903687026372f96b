---------------------------- MODULE LoginProofs ----------------------------
(***************************************************************************)
(* What the operations of the Login widget keep, for every buffer size and *)
(* field width: a prompt's cursor and shown part stay inside its text, and *)
(* the cursor inside the part that is drawn.                               *)
(***************************************************************************)
EXTENDS Login, TLAPS

\* A prompt whose text fits the buffer, its cursor inside the text, and the shown part
\* beginning no later than the cursor.
Sound(p) ==
  /\ p \in Prompts
  /\ p.len <= TextMax - 2
  /\ p.start <= p.cursor /\ p.cursor <= p.len

\* The cursor is in the part that is drawn; and what was last drawn in full fits the
\* field, or the whole rest of the text does.
Shown(p) ==
  Painted(p) => /\ p.cursor <= p.start + Field
                /\ p.end <= p.start + Field \/ p.len <= p.start + Field

\* Between SetPrompt and SetValue the shown part may begin behind the cursor.
Loose(p) ==
  /\ p \in Prompts
  /\ p.len <= TextMax - 2 /\ p.start <= p.len /\ p.cursor <= p.len

SoundWidget(w) == w \in Widgets /\ \A i \in PromptId : Sound(w.prompt[i])
ShownWidget(w) == \A i \in PromptId : Shown(w.prompt[i])

\* No text is secret; or only at a prompt without echo.
NoSecret(w)   == \A i \in PromptId : ~w.prompt[i].secret
SecretsOff(w) == \A i \in PromptId : w.prompt[i].secret => w.prompt[i].style = "off"

-----------------------------------------------------------------------------
(* Drawing.                                                                *)

\* realizeValue changes nothing but the shown part, which it never moves behind the cursor.
LEMMA DrawnKeeps ==
  ASSUME NEW p, Loose(p), NEW from \in Nat, NEW q, q = Drawn(p, from)
  PROVE  /\ q \in Prompts
         /\ q.style = p.style /\ q.len = p.len /\ q.secret = p.secret /\ q.cursor = p.cursor
         /\ q.start <= q.len
         /\ p.start <= p.cursor => q.start <= q.cursor
<1> DEFINE excess == p.len - Smaller(p.len, p.start + Field)
           start  == IF p.start < p.cursor THEN Smaller(p.cursor, p.start + excess) ELSE p.start
           end    == start + (p.len - p.start) - excess
<1>1. /\ p \in Prompts /\ p.len \in Nat /\ p.cursor \in Nat /\ p.start \in Nat
      /\ p.start <= p.len /\ p.cursor <= p.len
  BY LoginAssumption DEF Loose, Prompts
<1>2. excess \in 0 .. (p.len - p.start)
  BY <1>1, LoginAssumption DEF Smaller
<1>3. start \in Nat /\ start <= p.len /\ (p.start <= p.cursor => start <= p.cursor)
  BY <1>1, <1>2 DEF Smaller
<1>4. end \in Nat
  BY <1>1, <1>2, <1>3
<1> HIDE DEF excess, start, end
<1>5. q = p \/ q = [p EXCEPT !.start = start, !.end = end]
  BY DEF Drawn, start, end, excess
<1>6. CASE q = p
  BY <1>1, <1>6
<1>7. CASE q = [p EXCEPT !.start = start, !.end = end]
  BY <1>1, <1>3, <1>4, <1>7 DEF Prompts
<1> QED BY <1>5, <1>6, <1>7

\* When it is drawn from its beginning or from the cursor, a value either fits, or is
\* scrolled to the cursor or to its end.
LEMMA DrawnScrolls ==
  ASSUME NEW p, Sound(p), NEW from \in {0, p.cursor}, NEW q, q = Drawn(p, from)
  PROVE  \/ q = p /\ (~Painted(p) \/ p.len <= p.start + Field)
         \/ /\ q.end <= q.start + Field
            /\ q.start = p.cursor \/ p.len <= q.start + Field
BY LoginAssumption, SMT DEF Sound, Drawn, Prompts, Larger, Smaller

\* Drawing a sound prompt again keeps it sound and shows its cursor.
LEMMA DrawnSound ==
  ASSUME NEW p, Sound(p), NEW from \in {0, p.cursor}
  PROVE  Sound(Drawn(p, from)) /\ Shown(Drawn(p, from))
<1> DEFINE q == Drawn(p, from)
<1>1. Loose(p) /\ from \in Nat
  BY LoginAssumption, SMT DEF Sound, Loose, Prompts
<1>2. /\ q \in Prompts
      /\ q.style = p.style /\ q.len = p.len /\ q.cursor = p.cursor
      /\ q.start <= q.cursor
  BY <1>1, DrawnKeeps, SMT DEF Sound
<1>3. Sound(q)
  BY <1>2, SMT DEF Sound
<1>4. \/ q = p /\ (~Painted(p) \/ p.len <= p.start + Field)
      \/ /\ q.end <= q.start + Field
         /\ q.start = p.cursor \/ p.len <= q.start + Field
  BY DrawnScrolls
<1>5. Shown(q)
  BY <1>2, <1>3, <1>4, LoginAssumption, SMT DEF Sound, Shown, Painted, Prompts
<1> QED BY <1>3, <1>5

-----------------------------------------------------------------------------
(* Editing.                                                                *)

\* Deleting before the end of the text, also where the cursor has just left the shown part.
LEMMA DeletedSound ==
  ASSUME NEW p, Loose(p), p.cursor < p.len
  PROVE  Sound(CharDeleted(p)) /\ Shown(CharDeleted(p))
<1> DEFINE shorter == [p EXCEPT !.len = @ - 1]
           scrolled == [shorter EXCEPT !.start = p.cursor]
<1>1. /\ p \in Prompts /\ p.len \in 0 .. (TextMax - 2) /\ p.cursor \in Nat /\ p.start \in Nat
      /\ p.start <= p.len /\ p.cursor < p.len
  BY LoginAssumption DEF Loose, Prompts
<1>2. CASE p.cursor < p.start
  <2>1. /\ shorter \in Prompts /\ shorter.len = p.len - 1
        /\ shorter.cursor = p.cursor
    BY <1>1, LoginAssumption DEF Prompts
  <2> HIDE DEF shorter
  <2>3. Sound(scrolled)
    BY <1>1, <2>1, LoginAssumption DEF Sound, Prompts
  <2> USE DEF shorter
  <2>2. CharDeleted(p) = Drawn(scrolled, 0)
    BY <1>1, <1>2 DEF CharDeleted
  <2> QED BY <2>2, <2>3, DrawnSound
<1>3. CASE ~(p.cursor < p.start)
  <2>1. Sound(shorter) /\ shorter.cursor = p.cursor
    BY <1>1, <1>3, LoginAssumption DEF Sound, Prompts
  <2>2. CharDeleted(p) = Drawn(shorter, p.cursor)
    BY <1>1, <1>3 DEF CharDeleted
  <2> QED BY <2>1, <2>2, DrawnSound
<1> QED BY <1>2, <1>3

\* Deleting the character at the cursor, for every sound prompt.
LEMMA CharDeletedSound ==
  ASSUME NEW p, Sound(p)
  PROVE  Sound(CharDeleted(p)) /\ (Shown(p) => Shown(CharDeleted(p)))
<1>1. Loose(p) /\ p.cursor \in Nat /\ p.len \in Nat
  BY LoginAssumption DEF Sound, Loose, Prompts
<1>2. CASE p.cursor < p.len
  BY <1>1, <1>2, DeletedSound
<1>3. CASE p.cursor >= p.len
  BY <1>3 DEF CharDeleted
<1> QED BY <1>1, <1>2, <1>3

\* Deleting the character before the cursor: the cursor moves first.
LEMMA BackwardCharDeletedSound ==
  ASSUME NEW p, Sound(p)
  PROVE  Sound(BackwardCharDeleted(p)) /\ (Shown(p) => Shown(BackwardCharDeleted(p)))
<1> DEFINE back == [p EXCEPT !.cursor = @ - 1]
<1>1. CASE p.cursor > 0
  <2>1. Loose(back) /\ back.cursor < back.len
    BY <1>1, LoginAssumption DEF Sound, Loose, Prompts
  <2> QED BY <1>1, <2>1, DeletedSound DEF BackwardCharDeleted
<1>2. CASE ~(p.cursor > 0)
  BY <1>2 DEF BackwardCharDeleted
<1> QED BY <1>1, <1>2

\* Moving the cursor back, also out of the shown part, which then scrolls.
LEMMA MovedBackwardSound ==
  ASSUME NEW p, Sound(p)
  PROVE  Sound(MovedBackward(p)) /\ (Shown(p) => Shown(MovedBackward(p)))
<1> DEFINE q == [p EXCEPT !.cursor = IF @ > 0 THEN @ - 1 ELSE @]
           scrolled == [q EXCEPT !.start = q.cursor]
<1>1. /\ p \in Prompts /\ p.len \in 0 .. (TextMax - 2) /\ p.cursor \in Nat /\ p.start \in Nat
      /\ p.start <= p.cursor /\ p.cursor <= p.len
  BY LoginAssumption DEF Sound, Prompts
<1>2. CASE q.cursor < q.start
  <2>1. q \in Prompts /\ q.len = p.len /\ q.cursor <= p.cursor
    BY <1>1 DEF Prompts
  <2>2. MovedBackward(p) = Drawn(scrolled, 0)
    BY <1>2 DEF MovedBackward
  <2> HIDE DEF q
  <2>3. Sound(scrolled)
    BY <1>1, <2>1, LoginAssumption DEF Sound, Prompts
  <2> QED BY <2>2, <2>3, DrawnSound
<1>3. CASE ~(q.cursor < q.start)
  <2>1. MovedBackward(p) = q
    BY <1>3 DEF MovedBackward
  <2>2. Sound(q)
    BY <1>1, <1>3, LoginAssumption DEF Sound, Prompts
  <2>3. Shown(p) => Shown(q)
    BY <1>1, <1>3, LoginAssumption DEF Shown, Painted, Prompts
  <2> QED BY <2>1, <2>2, <2>3
<1> QED BY <1>2, <1>3

\* A cursor that went forward is brought into view by drawing, if it has left it.
LEMMA RedrawnSound ==
  ASSUME NEW p, Sound(p)
  PROVE  /\ Sound(Redrawn(p))
         /\ (Painted(p) => p.end <= p.start + Field \/ p.len <= p.start + Field)
              => Shown(Redrawn(p))
<1>1. CASE p.end < p.cursor
  BY <1>1, DrawnSound DEF Redrawn
<1>2. CASE ~(p.end < p.cursor)
  <2>1. Redrawn(p) = p
    BY <1>2 DEF Redrawn
  <2> QED BY <1>2, <2>1, LoginAssumption DEF Sound, Shown, Prompts
<1> QED BY <1>1, <1>2

\* Moving the cursor forward, also out of the shown part.
LEMMA MovedForwardSound ==
  ASSUME NEW p, Sound(p)
  PROVE  Sound(MovedForward(p)) /\ (Shown(p) => Shown(MovedForward(p)))
<1> DEFINE q == [p EXCEPT !.cursor = @ + 1]
<1>1. CASE p.cursor < p.len
  <2>1. /\ Sound(q) /\ q.style = p.style
        /\ q.end = p.end /\ q.start = p.start /\ q.len = p.len
    BY <1>1, LoginAssumption DEF Sound, Prompts
  <2> QED BY <1>1, <2>1, RedrawnSound DEF MovedForward, Shown, Painted
<1>2. CASE ~(p.cursor < p.len)
  BY <1>2 DEF MovedForward
<1> QED BY <1>1, <1>2

\* Moving the cursor to the end of the text.
LEMMA MovedToEndSound ==
  ASSUME NEW p, Sound(p)
  PROVE  Sound(MovedToEnd(p)) /\ (Shown(p) => Shown(MovedToEnd(p)))
<1> DEFINE q == [p EXCEPT !.cursor = p.len]
<1>0. p \in Prompts /\ p.len \in 0 .. (TextMax - 2) /\ p.start \in Nat /\ p.start <= p.len
  BY LoginAssumption DEF Sound, Prompts
<1>1. /\ Sound(q) /\ q.style = p.style
      /\ q.end = p.end /\ q.start = p.start /\ q.len = p.len
  BY <1>0, LoginAssumption DEF Sound, Prompts
<1> QED BY <1>1, RedrawnSound DEF MovedToEnd, Shown, Painted

\* Moving the cursor to the beginning of the text.
LEMMA MovedToBeginingSound ==
  ASSUME NEW p, Sound(p)
  PROVE  Sound(MovedToBegining(p)) /\ (Shown(p) => Shown(MovedToBegining(p)))
<1> DEFINE q == [p EXCEPT !.cursor = 0, !.start = 0]
           r == [p EXCEPT !.cursor = 0]
<1>1. CASE p.start > 0
  <2>0. p \in Prompts /\ p.len \in 0 .. (TextMax - 2)
    BY LoginAssumption DEF Sound, Prompts
  <2>2. q \in Prompts /\ q.len = p.len /\ q.cursor = 0 /\ q.start = 0
    BY <2>0 DEF Prompts
  <2>1. Sound(q)
    BY <2>0, <2>2 DEF Sound
  <2> QED BY <1>1, <2>1, DrawnSound DEF MovedToBegining
<1>2. CASE ~(p.start > 0)
  <2>1. Sound(r)
    BY <1>2, LoginAssumption DEF Sound, Prompts
  <2>2. Shown(p) => Shown(r)
    BY <1>2, LoginAssumption DEF Sound, Shown, Painted, Prompts
  <2> QED BY <1>2, <2>1, <2>2 DEF MovedToBegining
<1> QED BY <1>1, <1>2

\* Erasing what follows the cursor.
LEMMA ErasedToEndSound ==
  ASSUME NEW p, Sound(p)
  PROVE  Sound(ErasedToEnd(p)) /\ (Shown(p) => Shown(ErasedToEnd(p)))
BY LoginAssumption DEF Sound, Shown, Painted, Prompts, ErasedToEnd

\* Erasing the whole text.
LEMMA LineErasedSound ==
  ASSUME NEW p, Sound(p)
  PROVE  Sound(LineErased(p)) /\ (Shown(p) => Shown(LineErased(p)))
BY MovedToBeginingSound, ErasedToEndSound DEF LineErased

\* Typed characters fit the buffer; and the field, when no key makes more than it holds.
LEMMA InsertedSound ==
  ASSUME NEW p, Sound(p), NEW n \in KeyLengths
  PROVE  Sound(Inserted(p, n)) /\ (Shown(p) /\ n <= Field => Shown(Inserted(p, n)))
<1> DEFINE k == IF n + p.len >= TextMax - 1 THEN (TextMax - 2) - p.len ELSE n
           longer == [p EXCEPT !.len = @ + k, !.secret = @ \/ p.style = "off"]
           q == Drawn(longer, p.cursor)
           r == [q EXCEPT !.cursor = @ + k]
<1>1. /\ p \in Prompts /\ p.len \in 0 .. (TextMax - 2) /\ p.cursor \in Nat /\ p.start \in Nat
      /\ p.start <= p.cursor /\ p.cursor <= p.len /\ n \in Nat \ {0}
      /\ p.style \in Styles /\ p.secret \in BOOLEAN
  BY LoginAssumption DEF Sound, Prompts
<1>2. k \in Nat /\ p.len + k <= TextMax - 2 /\ k <= n
  BY <1>1, LoginAssumption
<1>3. /\ longer \in Prompts /\ longer.len = p.len + k /\ longer.style = p.style
      /\ longer.cursor = p.cursor /\ longer.start = p.start /\ longer.end = p.end
  <2> DEFINE secret == p.secret \/ p.style = "off"
  <2>1. secret \in BOOLEAN /\ p.len + k \in 0 .. TextMax
    BY <1>1, <1>2, LoginAssumption
  <2>2. longer = [p EXCEPT !.len = p.len + k, !.secret = secret]
    BY <1>1 DEF Prompts
  <2> HIDE DEF k, secret, longer
  <2> QED BY <1>1, <2>1, <2>2 DEF Prompts
<1>4. Sound(longer)
  BY <1>1, <1>2, <1>3 DEF Sound
<1> HIDE DEF k, longer
<1>5. /\ q \in Prompts
      /\ q.style = longer.style /\ q.len = longer.len /\ q.cursor = longer.cursor
      /\ q.start <= q.cursor
  <2>1. Loose(longer) /\ p.cursor \in Nat
    BY <1>1, <1>2, <1>3 DEF Loose
  <2> QED BY <1>1, <1>3, <2>1, DrawnKeeps
<1>6. \/ q = longer /\ (~Painted(longer) \/ longer.len <= longer.start + Field)
      \/ /\ q.end <= q.start + Field
         /\ q.start = longer.cursor \/ longer.len <= q.start + Field
  BY <1>3, <1>4, DrawnScrolls
<1> HIDE DEF q
<1>7. /\ r \in Prompts /\ r.style = p.style /\ r.len = p.len + k /\ r.cursor = p.cursor + k
      /\ r.start = q.start /\ r.end = q.end
  BY <1>1, <1>2, <1>3, <1>5 DEF Prompts
<1>8. Sound(r)
  BY <1>1, <1>2, <1>3, <1>5, <1>7 DEF Sound, Prompts
<1>9. n <= Field => Shown(r)
  BY <1>1, <1>2, <1>3, <1>5, <1>6, <1>7, LoginAssumption DEF Shown, Painted, Prompts
<1>10. Inserted(p, n) = IF k = 0 THEN p ELSE r
  BY DEF Inserted, k, longer, q
<1> QED BY <1>8, <1>9, <1>10

\* Every editing key keeps the active prompt sound and, unless a key makes more than the
\* field holds, its cursor shown.
LEMMA EditedSound ==
  ASSUME NEW p, Sound(p), NEW q \in Edited(p)
  PROVE  /\ Sound(q)
         /\ Shown(p) /\ (\A n \in KeyLengths : n <= Field) => Shown(q)
BY CharDeletedSound, BackwardCharDeletedSound, MovedBackwardSound, MovedForwardSound,
   MovedToBeginingSound, MovedToEndSound, ErasedToEndSound, LineErasedSound, InsertedSound
   DEF Edited

PromptFields == {"style", "len", "secret", "cursor", "start", "end"}

\* realizeValue touches no other field of a prompt than start and end.
LEMMA DrawnFields ==
  ASSUME NEW p, DOMAIN p = PromptFields, NEW from, NEW q, q = Drawn(p, from)
  PROVE  DOMAIN q = PromptFields /\ q.style = p.style /\ q.secret = p.secret
BY DEF Drawn, PromptFields

\* Editing leaves the style alone, and makes a text secret only at a prompt without echo.
LEMMA EditedKeeps ==
  ASSUME NEW p, Sound(p), NEW q \in Edited(p)
  PROVE  q.style = p.style /\ (q.secret => p.secret \/ p.style = "off")
<1> DEFINE Kept(r) == /\ DOMAIN r = PromptFields
                      /\ r.style = p.style /\ (r.secret => p.secret \/ p.style = "off")
<1>1. Kept(p)
  BY DEF Sound, Prompts, PromptFields
<1>2. ASSUME NEW r, Kept(r), NEW from, NEW x
      PROVE  /\ Kept(Drawn(r, from)) /\ Kept([r EXCEPT !.cursor = x])
             /\ Kept([r EXCEPT !.len = x]) /\ Kept([r EXCEPT !.start = x])
             /\ Kept([r EXCEPT !.cursor = x, !.start = x])
  BY <1>2, DrawnFields DEF PromptFields
<1>3. ASSUME NEW k
      PROVE  Kept([p EXCEPT !.len = @ + k, !.secret = @ \/ p.style = "off"])
  BY <1>1 DEF PromptFields
<1> HIDE DEF Kept
<1>4. ASSUME NEW r, Kept(r) PROVE Kept(CharDeleted(r))
  BY <1>2, <1>4 DEF CharDeleted
<1>5. Kept(BackwardCharDeleted(p))
  BY <1>1, <1>2, <1>4 DEF BackwardCharDeleted
<1>6. Kept(MovedBackward(p)) /\ Kept(MovedToBegining(p))
  BY <1>1, <1>2 DEF MovedBackward, MovedToBegining
<1>7. ASSUME NEW r, Kept(r) PROVE Kept(Redrawn(r))
  BY <1>2, <1>7 DEF Redrawn
<1>8. Kept(MovedForward(p)) /\ Kept(MovedToEnd(p))
  BY <1>1, <1>2, <1>7 DEF MovedForward, MovedToEnd
<1>9. ASSUME NEW r, Kept(r) PROVE Kept(ErasedToEnd(r))
  BY <1>2, <1>9 DEF ErasedToEnd
<1>10. Kept(LineErased(p))
  BY <1>6, <1>9 DEF LineErased
<1>11. ASSUME NEW n PROVE Kept(Inserted(p, n))
  BY <1>1, <1>2, <1>3 DEF Inserted
<1>12. Kept(q)
  BY <1>1, <1>4, <1>5, <1>6, <1>8, <1>9, <1>10, <1>11 DEF Edited
<1> QED BY <1>12 DEF Kept

-----------------------------------------------------------------------------
(* The widget.                                                             *)

\* A key changes the active prompt only.
LEMMA TypedSound ==
  ASSUME NEW w, SoundWidget(w), NEW v \in Typed(w)
  PROVE  /\ SoundWidget(v)
         /\ ShownWidget(w) /\ (\A n \in KeyLengths : n <= Field) => ShownWidget(v)
         /\ v.active = w.active /\ v.leaked = w.leaked
         /\ \A i \in PromptId :
              /\ v.prompt[i].style = w.prompt[i].style
              /\ v.prompt[i].secret =>
                   \/ w.prompt[i].secret
                   \/ i = w.active /\ w.prompt[i].style = "off"
<1>1. /\ w \in Widgets /\ w.active \in PromptId
      /\ \A i \in PromptId : Sound(w.prompt[i]) /\ w.prompt[i] \in Prompts
  BY DEF SoundWidget, Widgets
<1>2. PICK p \in (IF w.state = "prompting" THEN Edited(w.prompt[w.active])
                                        ELSE {w.prompt[w.active]}) :
        v = [w EXCEPT !.failUp = FALSE, !.prompt[w.active] = p]
  BY DEF Typed
<1>3. /\ Sound(p)
      /\ Shown(w.prompt[w.active]) /\ (\A n \in KeyLengths : n <= Field) => Shown(p)
  BY <1>1, <1>2, EditedSound
<1>4. /\ p.style = w.prompt[w.active].style
      /\ p.secret => w.prompt[w.active].secret \/ w.prompt[w.active].style = "off"
  BY <1>1, <1>2, EditedKeeps
<1>5. /\ v.prompt = [w.prompt EXCEPT ![w.active] = p]
      /\ v.state = w.state /\ v.active = w.active /\ v.failUp = FALSE /\ v.timer = w.timer
      /\ v.allow = w.allow /\ v.leaked = w.leaked
  BY <1>1, <1>2 DEF Widgets
<1>6. v.prompt[w.active] = p /\ \A i \in PromptId \ {w.active} : v.prompt[i] = w.prompt[i]
  BY <1>1, <1>5 DEF Widgets
<1>7. v \in Widgets
  <2>1. p \in Prompts
    BY <1>3 DEF Sound
  <2>2. v.prompt \in [PromptId -> Prompts]
    BY <1>1, <1>5, <2>1 DEF Widgets
  <2>3. v = [w EXCEPT !.failUp = FALSE, !.prompt = v.prompt]
    BY <1>1, <1>2, <1>5 DEF Widgets
  <2> QED BY <1>1, <2>2, <2>3 DEF Widgets
<1> QED
  BY <1>1, <1>3, <1>4, <1>5, <1>6, <1>7 DEF SoundWidget, ShownWidget

\* Drawing everything shows every cursor, and a secret only where its prompt has echo.
LEMMA DrawItSound ==
  ASSUME NEW w, w \in Widgets, \A i \in PromptId : Loose(w.prompt[i]), NEW v, v = DrawIt(w)
  PROVE  /\ v \in Widgets
         /\ v.state = w.state /\ v.active = w.active
         /\ SecretsOff(w) => v.leaked = w.leaked
         /\ \A i \in PromptId :
              /\ v.prompt[i].style = w.prompt[i].style /\ v.prompt[i].secret = w.prompt[i].secret
              /\ v.prompt[i].len = w.prompt[i].len
              /\ Sound(w.prompt[i]) => Sound(v.prompt[i]) /\ Shown(v.prompt[i])
<1>1. \A i \in PromptId : Drawn(w.prompt[i], 0) \in Prompts
  BY DrawnKeeps
<1>2. /\ v.prompt = [i \in PromptId |-> Drawn(w.prompt[i], 0)]
      /\ v.state = w.state /\ v.active = w.active
  BY DEF DrawIt, Widgets
<1>3. v \in Widgets
  <2> DEFINE drawn == [i \in PromptId |-> Drawn(w.prompt[i], 0)]
             leaks == \E i \in PromptId : /\ w.prompt[i].style \in {"on", "info"}
                                          /\ w.prompt[i].secret
                                          /\ w.prompt[i].len > 0
  <2>1. drawn \in [PromptId -> Prompts]
    BY <1>1
  <2> DEFINE leaked == w.leaked \/ leaks
  <2>2. leaked \in BOOLEAN
    BY DEF Widgets
  <2>3. v = [w EXCEPT !.prompt = drawn, !.leaked = leaked]
    BY DEF DrawIt, Widgets
  <2> HIDE DEF drawn, leaked, leaks
  <2> QED BY <2>1, <2>2, <2>3 DEF Widgets
<1>4. SecretsOff(w) => v.leaked = w.leaked
  BY DEF DrawIt, Widgets, SecretsOff
<1>5. \A i \in PromptId :
        /\ v.prompt[i].style = w.prompt[i].style /\ v.prompt[i].secret = w.prompt[i].secret
        /\ v.prompt[i].len = w.prompt[i].len
  BY <1>2, DrawnKeeps
<1>6. \A i \in PromptId : Sound(w.prompt[i]) => Sound(v.prompt[i]) /\ Shown(v.prompt[i])
  BY <1>2, DrawnSound
<1> QED BY <1>2, <1>3, <1>4, <1>5, <1>6

\* SetValue makes the prompt it is called for sound and leaves the others alone.
LEMMA SetValueSound ==
  ASSUME NEW w, w \in Widgets, NEW i \in PromptId, NEW n \in 0 .. (TextMax - 2),
         NEW v, v = SetValue(w, i, n)
  PROVE  /\ v \in Widgets
         /\ v.state = w.state /\ v.active = w.active /\ v.leaked = w.leaked
         /\ Sound(v.prompt[i]) /\ Shown(v.prompt[i])
         /\ v.prompt[i].style = w.prompt[i].style /\ ~v.prompt[i].secret
         /\ \A j \in PromptId \ {i} : v.prompt[j] = w.prompt[j]
<1> DEFINE p == [w.prompt[i] EXCEPT !.len = n, !.secret = FALSE, !.cursor = 0, !.start = 0,
                                    !.end = 0]
<1>1. n \in 0 .. TextMax /\ Smaller(n, TextMax) = n
  BY LoginAssumption DEF Smaller
<1>2. w.prompt \in [PromptId -> Prompts] /\ w.prompt[i] \in Prompts
  BY DEF Widgets
<1>3. /\ p \in Prompts /\ p.len = n /\ p.cursor = 0 /\ p.start = 0 /\ p.end = 0
      /\ p.style = w.prompt[i].style /\ ~p.secret
  BY <1>1, <1>2 DEF Prompts
<1>4. v = [w EXCEPT !.prompt = [w.prompt EXCEPT ![i] = p]]
  BY <1>1, <1>2 DEF SetValue, Widgets, Prompts
<1> HIDE DEF p
<1>5. [w.prompt EXCEPT ![i] = p] \in [PromptId -> Prompts]
  BY <1>2, <1>3
<1>6. v \in Widgets /\ v.prompt = [w.prompt EXCEPT ![i] = p]
  BY <1>4, <1>5 DEF Widgets
<1>7. v.prompt[i] = p /\ \A j \in PromptId \ {i} : v.prompt[j] = w.prompt[j]
  BY <1>2, <1>6
<1>8. v.state = w.state /\ v.active = w.active /\ v.leaked = w.leaked
  BY <1>4 DEF Widgets
<1>9. Sound(p) /\ Shown(p)
  BY <1>1, <1>3, LoginAssumption DEF Sound, Shown
<1> QED BY <1>3, <1>6, <1>7, <1>8, <1>9

\* pamconv's two calls for a prompt that is shown.
LEMMA AskedSound ==
  ASSUME NEW w, SoundWidget(w), NEW i \in PromptId, NEW style \in {"on", "off", "info"},
         NEW n \in 0 .. (TextMax - 2), NEW v, v = SetValue(SetPrompt(w, i, style), i, n)
  PROVE  /\ SoundWidget(v) /\ ShownWidget(v)
         /\ v.active = IF style = "info" THEN w.active ELSE i
         /\ NoSecret(w) => NoSecret(v) /\ v.leaked = w.leaked
         /\ v.prompt[i].style = style
         /\ i = 0 => v.prompt[1].style = w.prompt[1].style
         /\ i = 1 => v.prompt[0].style = w.prompt[0].style
<1> DEFINE p == [w.prompt[i] EXCEPT !.style = style, !.cursor = 0]
           active == IF style = "info" THEN w.active ELSE i
           state == IF style = "info" THEN "message" ELSE "prompting"
           u == [w EXCEPT !.state = state, !.active = active,
                          !.prompt = [w.prompt EXCEPT ![i] = p]]
<1>1. /\ w \in Widgets /\ w.prompt \in [PromptId -> Prompts] /\ w.active \in PromptId
      /\ \A j \in PromptId : Sound(w.prompt[j]) /\ w.prompt[j] \in Prompts
  BY DEF SoundWidget, Widgets
<1>2. /\ p \in Prompts /\ p.style = style /\ p.secret = w.prompt[i].secret
      /\ p.len = w.prompt[i].len /\ p.cursor = 0 /\ p.start = w.prompt[i].start
  BY <1>1 DEF Prompts, Styles
<1>3. Loose(p) /\ \A j \in PromptId : Loose(w.prompt[j])
  BY <1>1, <1>2, LoginAssumption DEF Sound, Loose, Prompts
<1>4. SetPrompt(w, i, style) = DrawIt(u)
  <2> DEFINE styled == [w EXCEPT !.prompt = [w.prompt EXCEPT ![i] =
                                               [w.prompt[i] EXCEPT !.style = style]]]
             asked == [styled EXCEPT !.state = state, !.active = active]
  <2>1. styled = [w EXCEPT !.prompt[i].style = style]
    BY <1>1 DEF Widgets
  <2>2. asked = IF style = "info" THEN [styled EXCEPT !.state = "message"]
                ELSE [styled EXCEPT !.state = "prompting", !.active = i]
    BY <1>1 DEF Widgets
  <2>3. [asked EXCEPT !.prompt[i].cursor = 0] = u
    BY <1>1 DEF Widgets, Prompts
  <2> HIDE DEF styled, asked, u
  <2> QED BY <2>1, <2>2, <2>3 DEF SetPrompt
<1> HIDE DEF p
<1>5. /\ u.prompt \in [PromptId -> Prompts] /\ u.leaked = w.leaked /\ u.active = active
      /\ u.prompt[i] = p /\ \A j \in PromptId \ {i} : u.prompt[j] = w.prompt[j]
      /\ u \in Widgets
  <2>1. [w.prompt EXCEPT ![i] = p] \in [PromptId -> Prompts]
    BY <1>1, <1>2
  <2> QED BY <1>1, <1>2, <2>1 DEF Widgets
<1> DEFINE d == DrawIt(u)
<1> HIDE DEF u
<1>6. \A j \in PromptId : Loose(u.prompt[j])
  BY <1>3, <1>5
<1>7. /\ d \in Widgets /\ d.active = u.active
      /\ SecretsOff(u) => d.leaked = u.leaked
      /\ \A j \in PromptId :
           /\ d.prompt[j].style = u.prompt[j].style /\ d.prompt[j].secret = u.prompt[j].secret
           /\ Sound(u.prompt[j]) => Sound(d.prompt[j]) /\ Shown(d.prompt[j])
  BY <1>5, <1>6, DrawItSound
<1>8. NoSecret(w) => SecretsOff(u)
  BY <1>2, <1>5 DEF SecretsOff, NoSecret
<1> HIDE DEF d
<1>9. v = SetValue(d, i, n)
  BY <1>4 DEF d
<1>10. /\ v \in Widgets /\ v.active = d.active /\ v.leaked = d.leaked
       /\ Sound(v.prompt[i]) /\ Shown(v.prompt[i])
       /\ v.prompt[i].style = d.prompt[i].style /\ ~v.prompt[i].secret
       /\ \A j \in PromptId \ {i} : v.prompt[j] = d.prompt[j]
  BY <1>7, <1>9, SetValueSound
<1>11. SoundWidget(v) /\ ShownWidget(v)
  BY <1>1, <1>5, <1>7, <1>10 DEF SoundWidget, ShownWidget
<1>12. NoSecret(w) => NoSecret(v)
  BY <1>5, <1>7, <1>10 DEF NoSecret
<1>13. \A j \in PromptId \ {i} : v.prompt[j].style = w.prompt[j].style
  BY <1>5, <1>7, <1>10
<1> QED BY <1>2, <1>5, <1>7, <1>8, <1>10, <1>11, <1>12, <1>13 DEF PromptId

\* A prompt that is hidden is not drawn.
LEMMA HiddenSound ==
  ASSUME NEW w, SoundWidget(w), NEW i \in PromptId, NEW v, v = SetPrompt(w, i, "hidden")
  PROVE  /\ SoundWidget(v) /\ (ShownWidget(w) => ShownWidget(v))
         /\ v.leaked = w.leaked /\ v.prompt[i].style = "hidden"
         /\ NoSecret(w) => NoSecret(v)
         /\ \A j \in PromptId \ {i} : v.prompt[j] = w.prompt[j]
<1> DEFINE p == [w.prompt[i] EXCEPT !.style = "hidden"]
<1>1. /\ w \in Widgets /\ w.prompt \in [PromptId -> Prompts]
      /\ \A j \in PromptId : Sound(w.prompt[j]) /\ w.prompt[j] \in Prompts
  BY DEF SoundWidget, Widgets
<1>2. /\ Sound(p) /\ p \in Prompts /\ p.style = "hidden" /\ p.secret = w.prompt[i].secret
      /\ Shown(p)
  BY <1>1 DEF Sound, Shown, Painted, Prompts, Styles
<1>3. v = [w EXCEPT !.prompt = [w.prompt EXCEPT ![i] = p]]
  BY <1>1 DEF SetPrompt, Widgets
<1> HIDE DEF p
<1>4. [w.prompt EXCEPT ![i] = p] \in [PromptId -> Prompts]
  BY <1>1, <1>2
<1>5. v \in Widgets /\ v.prompt = [w.prompt EXCEPT ![i] = p] /\ v.leaked = w.leaked
  BY <1>1, <1>3, <1>4 DEF Widgets
<1> QED BY <1>1, <1>2, <1>5 DEF SoundWidget, ShownWidget, NoSecret

\* FailedLogin erases both prompts.
LEMMA DrawFailSound ==
  ASSUME NEW w, SoundWidget(w), NEW v, v = DrawFail(w)
  PROVE  /\ SoundWidget(v) /\ (ShownWidget(w) => ShownWidget(v))
         /\ v.leaked = w.leaked /\ NoSecret(v)
<1> DEFINE Erased(i) == [w.prompt[i] EXCEPT !.len = 0, !.secret = FALSE, !.cursor = 0, !.start = 0]
           erased == [i \in PromptId |-> Erased(i)]
<1>1. w \in Widgets /\ \A i \in PromptId : w.prompt[i] \in Prompts
  BY DEF SoundWidget, Widgets
<1>2. \A i \in PromptId :
        /\ Erased(i) \in Prompts /\ Sound(Erased(i)) /\ ~Erased(i).secret
        /\ Shown(w.prompt[i]) => Shown(Erased(i))
  <2> SUFFICES ASSUME NEW i \in PromptId
               PROVE  /\ Erased(i) \in Prompts /\ Sound(Erased(i)) /\ ~Erased(i).secret
                      /\ Shown(w.prompt[i]) => Shown(Erased(i))
    OBVIOUS
  <2> DEFINE p == w.prompt[i]
  <2>0. p \in Prompts /\ 0 \in 0 .. TextMax
    BY <1>1, LoginAssumption
  <2>2. Erased(i) = [p EXCEPT !.len = 0, !.secret = FALSE, !.cursor = 0, !.start = 0]
    OBVIOUS
  <2> HIDE DEF Erased, p
  <2>3. /\ Erased(i).style = p.style /\ ~Erased(i).secret
        /\ Erased(i).len = 0 /\ Erased(i).cursor = 0 /\ Erased(i).start = 0
    BY <2>0, <2>2 DEF Prompts
  <2>4. Erased(i) \in Prompts
    <3>1. Erased(i) = [style |-> p.style, len |-> 0, secret |-> FALSE, cursor |-> 0,
                       start |-> 0, end |-> p.end]
      BY <2>0, <2>2 DEF Prompts
    <3>2. p.style \in Styles /\ p.end \in Nat
      BY <2>0 DEF Prompts
    <3> QED BY <3>1, <3>2, LoginAssumption DEF Prompts
  <2>1. /\ Erased(i) \in Prompts /\ Erased(i).style = w.prompt[i].style /\ ~Erased(i).secret
        /\ Erased(i).len = 0 /\ Erased(i).cursor = 0 /\ Erased(i).start = 0
    BY <2>3, <2>4 DEF p
  <2> HIDE DEF Erased
  <2> QED BY <2>1, LoginAssumption DEF Sound, Shown
<1> HIDE DEF Erased
<1>3. erased \in [PromptId -> Prompts]
  BY <1>2
<1>4. v = [w EXCEPT !.state = "prompting", !.active = 0, !.prompt = erased, !.failUp = TRUE,
                    !.timer = TRUE]
  BY <1>1 DEF DrawFail, ErrorMessage, ResetLogin, Widgets, Erased
<1>5. v \in Widgets /\ v.prompt = erased /\ v.leaked = w.leaked
  BY <1>1, <1>3, <1>4 DEF Widgets, PromptId
<1> QED BY <1>2, <1>5 DEF SoundWidget, ShownWidget, NoSecret

\* The other operations leave the prompts alone, and go to the other one only if that
\* takes text.
LEMMA SamePrompts ==
  ASSUME NEW w, w \in Widgets,
         NEW v, v \in {ErrorMessage(w, TRUE), ErrorMessage(w, FALSE), FailTimeout(w), TabField(w),
                       FinishField(w), Aborted(w), AllowAccess(w), [w EXCEPT !.allow = FALSE]}
  PROVE  /\ v \in Widgets /\ v.prompt = w.prompt /\ v.leaked = w.leaked
         /\ v.active # w.active => TakesText(w.prompt[1 - w.active])
<1>1. /\ w.active \in PromptId /\ w.state \in {"prompting", "message", "done"}
      /\ w.allow \in BOOLEAN /\ 1 - w.active \in PromptId
  BY DEF Widgets, PromptId
<1>2. CASE v \in {ErrorMessage(w, TRUE), ErrorMessage(w, FALSE), FailTimeout(w), Aborted(w),
                 [w EXCEPT !.allow = FALSE]}
  BY <1>1, <1>2 DEF ErrorMessage, FailTimeout, Aborted, Widgets
<1>3. CASE v = AllowAccess(w)
  <2>1. (~w.allow) \in BOOLEAN
    BY <1>1
  <2> QED BY <1>3, <2>1 DEF AllowAccess, Widgets
<1>4. CASE v = TabField(w)
  BY <1>1, <1>4 DEF TabField, Widgets
<1>5. CASE v = FinishField(w)
  <2>1. CASE w.active = 0 /\ TakesText(w.prompt[1])
    <3>1. 1 - w.active = 1 /\ v = [w EXCEPT !.failUp = FALSE, !.active = 1]
      BY <1>5, <2>1 DEF FinishField
    <3> QED BY <1>1, <2>1, <3>1 DEF Widgets, PromptId
  <2>2. CASE ~(w.active = 0 /\ TakesText(w.prompt[1]))
    BY <1>1, <1>5, <2>2 DEF FinishField, Widgets, PromptId
  <2> QED BY <2>1, <2>2
<1> QED BY <1>2, <1>3, <1>4, <1>5

\* The widget as it is made.
LEMMA InitializeSound ==
  ASSUME NEW state \in {"prompting", "done"}, NEW w, w = [Initialize EXCEPT !.state = state]
  PROVE  SoundWidget(w) /\ ShownWidget(w) /\ ~w.leaked /\ NoSecret(w)
<1>1. \A i \in PromptId : /\ w.prompt[i] \in Prompts /\ Sound(w.prompt[i])
                          /\ Shown(w.prompt[i]) /\ ~w.prompt[i].secret
  <2> SUFFICES ASSUME NEW style \in Styles, NEW p, p = NewPrompt(style)
               PROVE  p \in Prompts /\ Sound(p) /\ Shown(p) /\ ~p.secret
    BY DEF Initialize, Styles
  <2> QED BY LoginAssumption DEF NewPrompt, Prompts, Sound, Shown
<1>2. w \in Widgets /\ ~w.leaked
  BY <1>1 DEF Initialize, Widgets, PromptId
<1> QED BY <1>1, <1>2 DEF SoundWidget, ShownWidget, NoSecret
=============================================================================
