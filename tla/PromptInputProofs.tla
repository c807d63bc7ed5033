--------------------------- MODULE PromptInputProofs ---------------------------
(***************************************************************************)
(* Proofs about PromptInput, for any number of prompts, keys and pieces of   *)
(* output: a prompt is not disturbed, and, from users who type one line at a  *)
(* prompt, the package manager gets none of them.                            *)
(***************************************************************************)
EXTENDS PromptInput, SequenceTheorems, TLAPS

-----------------------------------------------------------------------------
(* The invariant                                                            *)

\* From the first hook until the output is resumed it is held back; SetRawFails leaves
\* it so.
HeldBack == asker # "idle" => buffering /\ asked \in 1..MaxPrompts

PromptInv == InputTypeOK /\ HeldBack

\* Nothing is closed before the package manager has ended.
ClosedLast ==
  /\ main # "wait" => child = "ended"
  /\ closed \/ pipeClosed => main # "wait"

\* A line typed at a prompt is under way only while that prompt is open, and is the only
\* one, in the terminal or in the hands of the input loop.
Line(c) == c.at # 0
Foreign == Line(chunk) \/ \E i \in 1..Len(tty) : Line(tty[i])
OneLine ==
  /\ asker # "stdin"
  /\ Foreign => asker = "asking" /\ typed[asked] # 0
  /\ \A i, j \in 1..Len(tty) : Line(tty[i]) /\ Line(tty[j]) => i = j /\ ~Line(chunk)

\* In raw mode no key ends a line.
AllTyped == (chunk.line => Line(chunk)) /\ \A i \in 1..Len(tty) : tty[i].line => Line(tty[i])

\* The keyboard is with the prompt while the prompt is open, and while there is a package
\* manager what is typed elsewhere is its own.
LineInv ==
  /\ ClosedLast /\ AllTyped
  /\ asker = "asking" => dest = "prompt"
  /\ child = "running" => OneLine
  /\ ChildGetsOnlyItsInput

-----------------------------------------------------------------------------
(* The steps                                                                *)

LEMMA TakeFirst ==
  ASSUME NEW S, NEW s \in Seq(S), s # << >>
  PROVE  /\ Head(s) \in S /\ Head(s) = s[1] /\ 1 \in 1..Len(s)
         /\ Tail(s) \in Seq(S)
         /\ \A i \in 1..Len(Tail(s)) : i + 1 \in 1..Len(s) /\ Tail(s)[i] = s[i + 1]
<1>1. Len(s) \in Nat \ {0} /\ Len(Tail(s)) = Len(s) - 1 /\ Head(s) = s[1] /\ Tail(s) \in Seq(S)
  OBVIOUS
<1>2. \A i \in 1..Len(Tail(s)) : Tail(s)[i] = s[i + 1]
  OBVIOUS
<1>3. s[1] \in S
  BY <1>1
<1> QED
  BY <1>1, <1>2, <1>3

LEMMA AddLast ==
  ASSUME NEW S, NEW s \in Seq(S), NEW x \in S
  PROVE  /\ Append(s, x) \in Seq(S)
         /\ Len(Append(s, x)) = Len(s) + 1 /\ Len(s) \in Nat
         /\ Append(s, x)[Len(s) + 1] = x
         /\ \A i \in 1..Len(s) : Append(s, x)[i] = s[i]
OBVIOUS

\* All actions of Next, for the proofs that take them one by one.
LEMMA NextIs ==
  ASSUME Next
  PROVE  \/ TypeKey \/ TypeLine \/ Emit \/ ChildEnds \/ CopyOutput
         \/ CheckContext \/ PollTimeout \/ ReadInput \/ RouteToChild \/ RouteToPipe
         \/ Take \/ SetCooked \/ SetCookedFails \/ Ask \/ ReadPrompt \/ ReadClosed \/ ReadStdin
         \/ Unroute \/ SetRaw \/ SetRawFails \/ Resume
         \/ WaitChild \/ WaitOutput \/ CancelInput \/ JoinLoop \/ ClosePipe \/ CloseSession
         \/ Exit
BY DEF Next, User, LoopStep, AskerStep, MainStep

-----------------------------------------------------------------------------
(* Types, and the output held back                                          *)

LEMMA TypeLineTypes ==
  ASSUME InputAssumption, PromptInv, TypeLine
  PROVE  PromptInv'
<1>1. tty' \in Seq(Chunks)
  <2>1. [at |-> asked, line |-> TRUE] \in Chunks
    BY DEF PromptInv, InputTypeOK, Chunks
  <2> QED
    BY <2>1, AddLast DEF PromptInv, InputTypeOK, TypeLine
<1>2. typed' \in [1..MaxPrompts -> 0..LinesPerPrompt]
  <2>1. /\ asked \in 1..MaxPrompts /\ typed[asked] \in 0..LinesPerPrompt
        /\ typed[asked] < LinesPerPrompt
    BY DEF PromptInv, InputTypeOK, HeldBack, TypeLine
  <2>2. typed[asked] + 1 \in 0..LinesPerPrompt
    BY <2>1, InputAssumption DEF InputAssumption
  <2> QED
    BY <2>1, <2>2 DEF TypeLine, PromptInv, InputTypeOK
<1> QED
  BY <1>1, <1>2 DEF PromptInv, InputTypeOK, HeldBack, TypeLine, inputVars, outputVars,
     mainVars, userVars

LEMMA ReadInputTypes ==
  ASSUME InputAssumption, PromptInv, ReadInput
  PROVE  PromptInv'
<1>1. tty' \in Seq(Chunks) /\ chunk' \in Chunks
  BY TakeFirst DEF ReadInput, PromptInv, InputTypeOK
<1> QED
  BY <1>1 DEF PromptInv, InputTypeOK, HeldBack, ReadInput, Loop, outputVars, mainVars, userVars

LEMMA RouteToChildTypes ==
  ASSUME InputAssumption, PromptInv, RouteToChild
  PROVE  PromptInv'
<1>1. delivered' \subseteq 0..MaxPrompts /\ chunk' \in Chunks
  <2>1. chunk \in Chunks /\ chunk.at \in 0..MaxPrompts
    BY DEF PromptInv, InputTypeOK, Chunks
  <2>2. Nothing \in Chunks
    BY InputAssumption DEF Nothing, Chunks, InputAssumption
  <2> QED
    BY <2>1, <2>2 DEF RouteToChild, PromptInv, InputTypeOK
<1> QED
  BY <1>1 DEF PromptInv, InputTypeOK, HeldBack, RouteToChild, Loop, outputVars, mainVars,
     userVars

LEMMA ResumeTypes ==
  ASSUME InputAssumption, PromptInv, Resume
  PROVE  PromptInv'
<1>1. screen' \in Nat /\ buffer' \in Nat
  BY DEF Resume, PromptInv, InputTypeOK
<1> QED
  BY <1>1 DEF PromptInv, InputTypeOK, HeldBack, Resume, Asker, inputVars, mainVars, userVars

LEMMA InitTypes == ASSUME InputAssumption, Init PROVE PromptInv
<1>1. << >> \in Seq(Chunks) /\ Nothing \in Chunks
  BY InputAssumption DEF InputAssumption, Chunks, Nothing
<1>2. [p \in 1..MaxPrompts |-> 0] \in [1..MaxPrompts -> 0..LinesPerPrompt]
  BY InputAssumption DEF InputAssumption
<1>3. 0 \in 0..MaxPrompts /\ 0 \in 0..MaxKeys
  BY InputAssumption DEF InputAssumption
<1> QED
  BY <1>1, <1>2, <1>3 DEF Init, PromptInv, InputTypeOK, HeldBack

LEMMA StepTypes ==
  ASSUME InputAssumption, PromptInv, [Next]_vars
  PROVE  PromptInv'
<1> USE InputAssumption DEF PromptInv, InputTypeOK, HeldBack
<1>1. CASE TypeKey
  BY <1>1 DEF TypeKey, inputVars, outputVars, mainVars, userVars, InputAssumption, Chunks,
     Nothing
<1>2. CASE Emit
  BY <1>2 DEF Emit, inputVars, outputVars, mainVars, userVars
<1>3. CASE ChildEnds
  BY <1>3 DEF ChildEnds, inputVars, outputVars, mainVars, userVars
<1>4. CASE CopyOutput
  <2>1. pending' \in Nat /\ buffer' \in Nat /\ screen' \in Nat
    BY <1>4 DEF CopyOutput
  <2> QED
    BY <1>4, <2>1 DEF CopyOutput, inputVars, mainVars, userVars
<1>5. CASE CheckContext
  BY <1>5 DEF CheckContext, Loop, inputVars, outputVars, mainVars, userVars
<1>6. CASE PollTimeout
  BY <1>6 DEF PollTimeout, Loop, inputVars, outputVars, mainVars, userVars
<1>7. CASE RouteToPipe
  BY <1>7 DEF RouteToPipe, Loop, inputVars, outputVars, mainVars, userVars
<1>8. CASE Take
  BY <1>8 DEF Take, Asker, inputVars, outputVars, mainVars, userVars, InputAssumption
<1>9. CASE SetCooked
  BY <1>9 DEF SetCooked, Asker, inputVars, outputVars, mainVars, userVars
<1>10. CASE SetCookedFails
  BY <1>10 DEF SetCookedFails, Asker, inputVars, outputVars, mainVars, userVars
<1>11. CASE Ask
  BY <1>11 DEF Ask, Asker, inputVars, outputVars, mainVars, userVars
<1>12. CASE ReadPrompt
  BY <1>12 DEF ReadPrompt, inputVars, outputVars, mainVars, userVars, InputAssumption, Chunks,
     Nothing
<1>13. CASE ReadClosed
  BY <1>13 DEF ReadClosed, Asker, inputVars, outputVars, mainVars, userVars
<1>14. CASE ReadStdin
  BY <1>14 DEF ReadStdin, inputVars, outputVars, mainVars, userVars
<1>15. CASE Unroute
  BY <1>15 DEF Unroute, Asker, inputVars, outputVars, mainVars, userVars
<1>16. CASE SetRaw
  BY <1>16 DEF SetRaw, Asker, inputVars, outputVars, mainVars, userVars
<1>17. CASE SetRawFails
  BY <1>17 DEF SetRawFails, Asker, inputVars, outputVars, mainVars, userVars
<1>18. CASE WaitChild
  BY <1>18 DEF WaitChild, Main, inputVars, outputVars, mainVars, userVars
<1>19. CASE WaitOutput
  BY <1>19 DEF WaitOutput, Main, inputVars, outputVars, mainVars, userVars
<1>20. CASE CancelInput
  BY <1>20 DEF CancelInput, Main, inputVars, outputVars, mainVars, userVars
<1>21. CASE JoinLoop
  BY <1>21 DEF JoinLoop, Main, inputVars, outputVars, mainVars, userVars
<1>22. CASE ClosePipe
  BY <1>22 DEF ClosePipe, Main, inputVars, outputVars, mainVars, userVars
<1>23. CASE CloseSession
  BY <1>23 DEF CloseSession, Main, inputVars, outputVars, mainVars, userVars
<1>24. CASE Exit
  BY <1>24 DEF Exit, Main, inputVars, outputVars, mainVars, userVars
<1>25. CASE UNCHANGED vars
  BY <1>25 DEF vars, inputVars, outputVars, mainVars, userVars
<1> QED
  BY ONLY InputAssumption, PromptInv, [Next]_vars, NextIs, <1>1, TypeLineTypes, <1>2, <1>3,
     <1>4, <1>5, <1>6, ReadInputTypes, RouteToChildTypes, <1>7, <1>8, <1>9, <1>10, <1>11, <1>12,
     <1>13, <1>14, <1>15, <1>16, <1>17, ResumeTypes, <1>18, <1>19, <1>20, <1>21, <1>22, <1>23,
     <1>24, <1>25

-----------------------------------------------------------------------------
(* The lines                                                                *)

LEMMA TypeKeyHolds ==
  ASSUME InputAssumption, PromptInv, LineInv, TypeKey
  PROVE  LineInv'
<1>1. /\ Len(tty') = Len(tty) + 1 /\ Len(tty) \in Nat
      /\ ~Line(tty'[Len(tty')]) /\ ~tty'[Len(tty')].line
      /\ \A i \in 1..Len(tty) : tty'[i] = tty[i]
  <2>1. Nothing \in Chunks /\ Nothing.at = 0 /\ ~Nothing.line
    BY InputAssumption DEF Nothing, Chunks, InputAssumption
  <2> QED
    BY <2>1, AddLast DEF TypeKey, PromptInv, InputTypeOK, Line
<1>2. UNCHANGED <<chunk, dest, delivered, asker, asked, typed, child, main, closed, pipeClosed>>
  BY DEF TypeKey, mainVars
<1>3. \A i \in 1..Len(tty') : Line(tty'[i]) => i \in 1..Len(tty) /\ tty'[i] = tty[i]
  BY <1>1
<1>4. AllTyped'
  BY <1>1, <1>2 DEF LineInv, AllTyped, Line
<1>5. OneLine => OneLine'
  BY <1>2, <1>3 DEF OneLine, Foreign, Line
<1> QED
  BY <1>2, <1>4, <1>5 DEF LineInv, ClosedLast, ChildGetsOnlyItsInput

\* The line is the first at this prompt, so no other is under way.
LEMMA TypeLineHolds ==
  ASSUME InputAssumption, PromptInv, LineInv, LinesPerPrompt <= 1, TypeLine
  PROVE  LineInv'
<1>1. /\ Len(tty') = Len(tty) + 1 /\ Len(tty) \in Nat
      /\ Line(tty'[Len(tty')])
      /\ \A i \in 1..Len(tty) : tty'[i] = tty[i]
  <2>1. [at |-> asked, line |-> TRUE] \in Chunks
    BY DEF PromptInv, InputTypeOK, Chunks
  <2> QED
    BY <2>1, AddLast DEF TypeLine, PromptInv, InputTypeOK, HeldBack, Line
<1>2. UNCHANGED <<chunk, dest, delivered, asker, asked, child, main, closed, pipeClosed>>
  BY DEF TypeLine, mainVars
<1>3. asked \in 1..MaxPrompts /\ typed[asked] = 0 /\ typed'[asked] = 1
  <2>1. asked \in 1..MaxPrompts /\ typed[asked] \in Nat /\ typed[asked] < LinesPerPrompt
    BY DEF PromptInv, InputTypeOK, HeldBack, TypeLine
  <2>2. typed[asked] = 0
    BY <2>1, InputAssumption DEF InputAssumption
  <2> QED
    BY <2>1, <2>2 DEF TypeLine, PromptInv, InputTypeOK
<1>4. AllTyped'
  BY <1>1, <1>2 DEF LineInv, AllTyped, Line
<1>5. ASSUME child = "running" PROVE OneLine'
  <2>1. ~Line(chunk) /\ \A i \in 1..Len(tty) : ~Line(tty[i])
    BY <1>3, <1>5 DEF LineInv, OneLine, Foreign
  <2>2. asker = "asking"
    BY <1>5 DEF LineInv, OneLine, TypeLine
  <2>3. \A i \in 1..Len(tty') : Line(tty'[i]) => i = Len(tty')
    BY <1>1, <2>1
  <2> QED
    BY <1>2, <1>3, <2>1, <2>2, <2>3 DEF OneLine
<1> QED
  BY <1>2, <1>4, <1>5 DEF LineInv, ClosedLast, ChildGetsOnlyItsInput

\* The line goes over from the terminal to the loop.
LEMMA ReadInputHolds ==
  ASSUME InputAssumption, PromptInv, LineInv, ReadInput
  PROVE  LineInv'
<1>1. /\ 1 \in 1..Len(tty) /\ chunk' = tty[1]
      /\ \A i \in 1..Len(tty') : i + 1 \in 1..Len(tty) /\ tty'[i] = tty[i + 1]
  BY TakeFirst DEF ReadInput, PromptInv, InputTypeOK
<1>2. UNCHANGED <<dest, delivered, asker, asked, typed, child, main, closed, pipeClosed>>
  BY DEF ReadInput, mainVars, userVars
<1>3. AllTyped'
  BY <1>1, <1>2 DEF LineInv, AllTyped, Line
<1>5. ASSUME child = "running" PROVE OneLine'
  <2>1. OneLine
    BY <1>5 DEF LineInv
  <2>2. Foreign' => Foreign
    BY <1>1 DEF Foreign
  <2>3. \A i, j \in 1..Len(tty') : Line(tty'[i]) /\ Line(tty'[j]) => i = j /\ ~Line(chunk')
    <3> TAKE i, j \in 1..Len(tty')
    <3>1. /\ i + 1 \in 1..Len(tty) /\ tty'[i] = tty[i + 1]
          /\ j + 1 \in 1..Len(tty) /\ tty'[j] = tty[j + 1]
      BY <1>1
    <3>2. i + 1 # 1 /\ i \in Int /\ j \in Int
      OBVIOUS
    <3>3. Line(tty[i + 1]) /\ Line(tty[j + 1]) => i + 1 = j + 1
      BY <3>1, <2>1 DEF OneLine
    <3>4. Line(tty[i + 1]) => ~Line(tty[1])
      BY <3>1, <3>2, <2>1, <1>1 DEF OneLine
    <3> QED
      BY <1>1, <3>1, <3>2, <3>3, <3>4
  <2> QED
    BY <1>2, <2>1, <2>2, <2>3 DEF OneLine
<1> QED
  BY <1>2, <1>3, <1>5 DEF LineInv, ClosedLast, ChildGetsOnlyItsInput

\* The prompt ends with the line, which was the only one.
LEMMA ReadPromptHolds ==
  ASSUME InputAssumption, PromptInv, LineInv, ReadPrompt
  PROVE  LineInv'
<1>1. UNCHANGED <<tty, dest, delivered, asked, typed, child, main, closed, pipeClosed>>
  BY DEF ReadPrompt, mainVars, userVars
<1>2. chunk' = Nothing /\ ~Line(Nothing) /\ ~Nothing.line
  BY DEF ReadPrompt, Line, Nothing
<1>3. asker = "asking" /\ asker' = (IF chunk.line THEN "answered" ELSE "asking")
  BY DEF ReadPrompt
<1>4. AllTyped'
  BY <1>1, <1>2 DEF LineInv, AllTyped
<1>5. ASSUME child = "running" PROVE OneLine'
  BY <1>1, <1>2, <1>3, <1>5 DEF LineInv, AllTyped, OneLine, Foreign
<1> QED
  BY <1>1, <1>3, <1>4, <1>5 DEF LineInv, ClosedLast, ChildGetsOnlyItsInput

LEMMA InitLines == ASSUME InputAssumption, Init PROVE LineInv
BY DEF Init, LineInv, ClosedLast, AllTyped, OneLine, Foreign, Line, Nothing,
   ChildGetsOnlyItsInput

LEMMA StepLines ==
  ASSUME InputAssumption, PromptInv, LineInv, LinesPerPrompt <= 1, [Next]_vars
  PROVE  LineInv'
<1> USE DEF LineInv, ClosedLast, AllTyped, OneLine, Foreign, Line, ChildGetsOnlyItsInput
<1>1. CASE Emit
  BY <1>1 DEF Emit, inputVars, outputVars, mainVars, userVars
<1>2. CASE ChildEnds
  BY <1>2 DEF ChildEnds, inputVars, outputVars, mainVars, userVars
<1>3. CASE CopyOutput
  BY <1>3 DEF CopyOutput, inputVars, outputVars, mainVars, userVars
<1>4. CASE CheckContext
  BY <1>4 DEF CheckContext, Loop, inputVars, outputVars, mainVars, userVars
<1>5. CASE PollTimeout
  BY <1>5 DEF PollTimeout, Loop, inputVars, outputVars, mainVars, userVars
<1>6. CASE RouteToChild
  BY <1>6 DEF RouteToChild, Loop, inputVars, outputVars, mainVars, userVars, Nothing
<1>7. CASE RouteToPipe
  BY <1>7 DEF RouteToPipe, Loop, inputVars, outputVars, mainVars, userVars
<1>8. CASE Take
  BY <1>8 DEF Take, Asker, inputVars, outputVars, mainVars, userVars
<1>9. CASE SetCooked
  BY <1>9 DEF SetCooked, Asker, inputVars, outputVars, mainVars, userVars
<1>10. CASE SetCookedFails
  BY <1>10 DEF SetCookedFails, Asker, inputVars, outputVars, mainVars, userVars
<1>11. CASE Ask
  BY <1>11 DEF Ask, Asker, inputVars, outputVars, mainVars, userVars
<1>12. CASE ReadClosed
  BY <1>12 DEF ReadClosed, Asker, inputVars, outputVars, mainVars, userVars
<1>13. CASE ReadStdin
  BY <1>13 DEF ReadStdin, inputVars, outputVars, mainVars, userVars
<1>14. CASE Unroute
  BY <1>14 DEF Unroute, Asker, inputVars, outputVars, mainVars, userVars
<1>15. CASE SetRaw
  BY <1>15 DEF SetRaw, Asker, inputVars, outputVars, mainVars, userVars
<1>16. CASE SetRawFails
  BY <1>16 DEF SetRawFails, Asker, inputVars, outputVars, mainVars, userVars
<1>17. CASE Resume
  BY <1>17 DEF Resume, Asker, inputVars, outputVars, mainVars, userVars
<1>18. CASE WaitChild
  BY <1>18 DEF WaitChild, Main, inputVars, outputVars, mainVars, userVars
<1>19. CASE WaitOutput
  BY <1>19 DEF WaitOutput, Main, inputVars, outputVars, mainVars, userVars
<1>20. CASE CancelInput
  BY <1>20 DEF CancelInput, Main, inputVars, outputVars, mainVars, userVars
<1>21. CASE JoinLoop
  BY <1>21 DEF JoinLoop, Main, inputVars, outputVars, mainVars, userVars
<1>22. CASE ClosePipe
  BY <1>22 DEF ClosePipe, Main, inputVars, outputVars, mainVars, userVars
<1>23. CASE CloseSession
  BY <1>23 DEF CloseSession, Main, inputVars, outputVars, mainVars, userVars
<1>24. CASE Exit
  BY <1>24 DEF Exit, Main, inputVars, outputVars, mainVars, userVars
<1>25. CASE UNCHANGED vars
  BY <1>25 DEF vars, inputVars, outputVars, mainVars, userVars
<1> QED
  BY ONLY InputAssumption, PromptInv, LineInv, LinesPerPrompt <= 1, [Next]_vars, NextIs,
     TypeKeyHolds, TypeLineHolds, <1>1, <1>2, <1>3, <1>4, <1>5, ReadInputHolds, <1>6, <1>7, <1>8,
     <1>9, <1>10, <1>11, ReadPromptHolds, <1>12, <1>13, <1>14, <1>15, <1>16, <1>17, <1>18, <1>19,
     <1>20, <1>21, <1>22, <1>23, <1>24, <1>25

-----------------------------------------------------------------------------
(* Theorems                                                                 *)

\* Output is held back and the types hold from one state of a run to the next.
THEOREM PromptInvariance == Spec => []PromptInv
BY InputAssumption, InitTypes, StepTypes, PTL DEF Spec

\* Every variable keeps its type, whatever is typed, printed and asked.
THEOREM PromptTypes == Spec => []InputTypeOK
<1>1. PromptInv => InputTypeOK
  BY DEF PromptInv
<1> QED
  BY PromptInvariance, <1>1, PTL

\* No prompt is ever disturbed by output, however long it stays open and however the run
\* ends, also by what was under way when the prompt began.
THEOREM Undisturbed == Spec => PromptIsUndisturbed
<1>1. ASSUME PromptInv, [Next]_vars, Shown PROVE screen' = screen
  <2>1. asker \in {"asking", "stdin"} /\ buffering
    BY <1>1 DEF PromptInv, HeldBack, Shown
  <2>2. ~Resume /\ (CopyOutput => screen' = screen)
    BY <2>1 DEF Resume, Asker, CopyOutput
  <2>3. CASE Next
    BY <2>2, <2>3, NextIs
       DEF TypeKey, TypeLine, Emit, ChildEnds, CheckContext, PollTimeout, ReadInput, RouteToChild,
           RouteToPipe, Take, SetCooked, SetCookedFails, Ask, ReadPrompt, ReadClosed, ReadStdin,
           Unroute, SetRaw, SetRawFails, WaitChild, WaitOutput, CancelInput, JoinLoop, ClosePipe,
           CloseSession, Exit, outputVars
  <2> QED
    BY <1>1, <2>3 DEF vars, outputVars
<1>2. PromptInv /\ [Next]_vars => [Shown => screen' = screen]_vars
  BY <1>1
<1> QED
  BY PromptInvariance, <1>2, PTL DEF Spec, PromptIsUndisturbed

\* From users who answer a prompt with one line the package manager gets nothing but the keys
\* typed for it.  A second line may be under way when the keyboard is given back.
THEOREM InputIsItsOwn == LinesPerPrompt <= 1 /\ Spec => []ChildGetsOnlyItsInput
<1> SUFFICES ASSUME LinesPerPrompt <= 1 PROVE Spec => []ChildGetsOnlyItsInput
  OBVIOUS
<1>1. PromptInv /\ LineInv /\ [Next]_vars => LineInv'
  BY InputAssumption, StepLines
<1>2. LineInv => ChildGetsOnlyItsInput
  BY DEF LineInv
<1> QED
  BY InputAssumption, InitLines, PromptInvariance, <1>1, <1>2, PTL DEF Spec

\* With such users the package manager and the prompts share one terminal without seeing
\* each other.
THEOREM PromptPrivate == LinesPerPrompt <= 1 /\ Spec => PromptIsPrivate
BY Undisturbed, InputIsItsOwn, PTL DEF PromptIsPrivate
=============================================================================
