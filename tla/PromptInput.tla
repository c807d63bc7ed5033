------------------------------ MODULE PromptInput ------------------------------
(***************************************************************************)
(* Sharing one terminal between a package manager and the prompts of the    *)
(* confirmation handler: runPTY of internal/runner/execute.go, the routers  *)
(* of internal/pty, and the hooks of proxyFlow.Run that the handler calls    *)
(* around a prompt.  One goroutine copies the keyboard to the package       *)
(* manager or into an io.Pipe the prompt reads, another copies the output   *)
(* to the screen or into a buffer, a third asks, and the main one waits for *)
(* the package manager and unwinds.                                         *)
(***************************************************************************)
EXTENDS Naturals, Sequences

CONSTANTS
  MaxPrompts,       \* bound: prompts of one run
  LinesPerPrompt,   \* bound: lines the user types while a prompt is shown
  MaxKeys,          \* bound: keys typed for the package manager
  MaxOutput         \* bound: pieces of output of the package manager

ASSUME InputAssumption ==
  {MaxPrompts, LinesPerPrompt, MaxKeys, MaxOutput} \subseteq Nat

VARIABLES
  tty,        \* what was typed and not read
  raw,        \* the terminal is in raw mode
  dest,       \* InputRouter.dest
  loop,       \* ReadLoopContext
  chunk,      \* what it has read
  asker,      \* HandleConfirmationRequests with its two hooks
  asked,      \* prompts begun
  pending,    \* output of the package manager not yet copied
  buffer,     \* OutputRouter.buffer
  buffering,  \* OutputRouter.buffering
  screen,     \* what reached stdout
  child,      \* the package manager
  delivered,  \* whose input it got
  main,       \* runPTY
  cancelled,  \* inputCtx
  pipeClosed, \* promptReader and promptWriter
  closed,     \* the session
  typed,      \* lines typed at each prompt
  keys        \* keys typed

inputVars  == <<tty, dest, loop, chunk, delivered>>
outputVars == <<pending, buffer, buffering, screen>>
mainVars   == <<child, main, cancelled, pipeClosed, closed>>
userVars   == <<typed, keys>>
vars == <<inputVars, outputVars, mainVars, userVars, raw, asker, asked>>

\* A chunk is a line typed at a prompt or, at 0, a key for the package manager,
\* which in raw mode never ends a line.
Chunks == [at : 0..MaxPrompts, line : BOOLEAN]
Nothing == [at |-> 0, line |-> FALSE]

InputTypeOK ==
  /\ tty \in Seq(Chunks) /\ chunk \in Chunks
  /\ raw \in BOOLEAN /\ buffering \in BOOLEAN
  /\ dest \in {"pty", "prompt"}
  /\ loop \in {"check", "poll", "route", "writing", "done"}
  /\ asker \in {"idle", "paused", "cooked", "asking", "stdin", "answered",
                "unrouted", "rawAgain"}
  /\ asked \in 0..MaxPrompts
  /\ pending \in Nat /\ buffer \in Nat /\ screen \in Nat
  /\ child \in {"running", "ended"}
  /\ delivered \subseteq 0..MaxPrompts
  /\ main \in {"wait", "output", "cancel", "join", "close", "session", "returned", "exited"}
  /\ {cancelled, pipeClosed, closed} \subseteq BOOLEAN
  /\ typed \in [1..MaxPrompts -> 0..LinesPerPrompt]
  /\ keys \in 0..MaxKeys

Init ==
  /\ tty = << >> /\ chunk = Nothing /\ raw = TRUE
  /\ dest = "pty" /\ loop = "check" /\ delivered = {}
  /\ asker = "idle" /\ asked = 0
  /\ pending = 0 /\ buffer = 0 /\ buffering = FALSE /\ screen = 0
  /\ child = "running" /\ main = "wait"
  /\ cancelled = FALSE /\ pipeClosed = FALSE /\ closed = FALSE
  /\ typed = [p \in 1..MaxPrompts |-> 0] /\ keys = 0

Alive == main # "exited"
Loop(from, to)  == Alive /\ loop = from /\ loop' = to
Asker(from, to) == Alive /\ asker = from /\ asker' = to
Main(from, to)  == main = from /\ main' = to

-----------------------------------------------------------------------------
(* The user and the package manager                                         *)

TypeKey ==
  /\ raw /\ keys < MaxKeys
  /\ tty' = Append(tty, Nothing)
  /\ keys' = keys + 1
  /\ UNCHANGED <<dest, loop, chunk, delivered, outputVars, mainVars, typed, raw, asker, asked>>

\* Lines are typed at a prompt that is shown, more than one perhaps.
TypeLine ==
  /\ asker \in {"asking", "stdin"} /\ ~raw
  /\ typed[asked] < LinesPerPrompt
  /\ tty' = Append(tty, [at |-> asked, line |-> TRUE])
  /\ typed' = [typed EXCEPT ![asked] = @ + 1]
  /\ UNCHANGED <<dest, loop, chunk, delivered, outputVars, mainVars, keys, raw, asker, asked>>

User == Alive /\ (TypeKey \/ TypeLine)

Emit ==
  /\ child = "running"
  /\ pending + buffer + screen < MaxOutput
  /\ pending' = pending + 1
  /\ UNCHANGED <<inputVars, buffer, buffering, screen, mainVars, userVars, raw, asker, asked>>

ChildEnds ==
  /\ child = "running"
  /\ child' = "ended"
  /\ UNCHANGED <<inputVars, outputVars, main, cancelled, pipeClosed, closed, userVars,
                 raw, asker, asked>>

-----------------------------------------------------------------------------
(* OutputRouter                                                             *)

CopyOutput ==
  /\ Alive
  /\ pending > 0
  /\ pending' = pending - 1
  /\ IF buffering THEN buffer' = buffer + 1 /\ UNCHANGED screen
                  ELSE screen' = screen + 1 /\ UNCHANGED buffer
  /\ UNCHANGED <<inputVars, buffering, mainVars, userVars, raw, asker, asked>>

-----------------------------------------------------------------------------
(* InputRouter.ReadLoopContext                                              *)

CheckContext ==
  /\ Loop("check", IF cancelled THEN "done" ELSE "poll")
  /\ UNCHANGED <<tty, dest, chunk, delivered, outputVars, mainVars, userVars, raw, asker, asked>>

\* Poll returns after 100 ms or with input, also if the context is over by then.
PollTimeout ==
  /\ Loop("poll", "check")
  /\ tty = << >>
  /\ UNCHANGED <<tty, dest, chunk, delivered, outputVars, mainVars, userVars, raw, asker, asked>>

ReadInput ==
  /\ Loop("poll", "route")
  /\ tty # << >>
  /\ chunk' = Head(tty)
  /\ tty' = Tail(tty)
  /\ UNCHANGED <<dest, delivered, outputVars, mainVars, userVars, raw, asker, asked>>

\* The destination is loaded and keeps, whatever the hooks store after it.
RouteToChild ==
  /\ dest = "pty"
  /\ Loop("route", "check")
  /\ delivered' = IF child = "running" THEN delivered \cup {chunk.at} ELSE delivered
  /\ chunk' = Nothing
  /\ UNCHANGED <<tty, dest, outputVars, mainVars, userVars, raw, asker, asked>>

\* A write to the pipe waits for a reader.  Its error when the pipe is closed never
\* comes: runPTY waits for the loop first.
RouteToPipe ==
  /\ dest = "prompt"
  /\ Loop("route", "writing")
  /\ UNCHANGED <<tty, dest, chunk, delivered, outputVars, mainVars, userVars, raw, asker, asked>>

LoopStep == CheckContext \/ PollTimeout \/ ReadInput \/ RouteToChild \/ RouteToPipe

-----------------------------------------------------------------------------
(* HandleConfirmationRequests with the hooks of proxyFlow.Run               *)

\* Fault: the output is not held back.
TakeWithoutPause ==
  /\ Asker("idle", "paused")
  /\ asked < MaxPrompts
  /\ asked' = asked + 1
  /\ UNCHANGED <<inputVars, outputVars, mainVars, userVars, raw>>

\* A request is taken off the channel; BeforeInteraction pauses the output.
Take ==
  /\ Asker("idle", "paused")
  /\ asked < MaxPrompts
  /\ asked' = asked + 1
  /\ buffering' = TRUE
  /\ UNCHANGED <<inputVars, pending, buffer, screen, mainVars, userVars, raw>>

SetCooked ==
  /\ Asker("paused", "cooked")
  /\ raw' = FALSE
  /\ UNCHANGED <<inputVars, outputVars, mainVars, userVars, asked>>

\* The console may refuse once the session is closed.  The hook returns, its error
\* is only logged, and the prompt reads os.Stdin.
SetCookedFails ==
  /\ Asker("paused", "stdin")
  /\ closed
  /\ UNCHANGED <<inputVars, outputVars, mainVars, userVars, raw, asked>>
\* RouteToPrompt, SetInput, and the prompt is printed.
Ask ==
  /\ Asker("cooked", "asking")
  /\ dest' = "prompt"
  /\ UNCHANGED <<tty, loop, chunk, delivered, outputVars, mainVars, userVars, raw, asked>>

\* The scanner takes what the input loop writes until it has a line.
ReadPrompt ==
  /\ Alive /\ asker = "asking" /\ loop = "writing"
  /\ asker' = IF chunk.line THEN "answered" ELSE "asking"
  /\ loop' = "check"
  /\ chunk' = Nothing
  /\ UNCHANGED <<tty, dest, delivered, outputVars, mainVars, userVars, raw, asked>>

ReadClosed ==
  /\ Asker("asking", "answered")
  /\ pipeClosed
  /\ UNCHANGED <<inputVars, outputVars, mainVars, userVars, raw, asked>>

ReadStdin ==
  /\ Alive /\ asker = "stdin" /\ tty # << >>
  /\ asker' = IF Head(tty).line THEN "answered" ELSE "stdin"
  /\ tty' = Tail(tty)
  /\ UNCHANGED <<dest, loop, chunk, delivered, outputVars, mainVars, userVars, raw, asked>>
\* Fault: the keyboard is left on the prompt.
StayRouted ==
  /\ Asker("answered", "unrouted")
  /\ UNCHANGED <<inputVars, outputVars, mainVars, userVars, raw, asked>>

\* AfterInteraction, whatever the answer was.
Unroute ==
  /\ Asker("answered", "unrouted")
  /\ dest' = "pty"
  /\ UNCHANGED <<tty, loop, chunk, delivered, outputVars, mainVars, userVars, raw, asked>>

SetRaw ==
  /\ Asker("unrouted", "rawAgain")
  /\ raw' = TRUE
  /\ UNCHANGED <<inputVars, outputVars, mainVars, userVars, asked>>

\* The hook returns before it resumes the output.
SetRawFails ==
  /\ Asker("unrouted", "idle")
  /\ closed
  /\ UNCHANGED <<inputVars, outputVars, mainVars, userVars, raw, asked>>
\* Fault: output goes on behind the prompt, what was held back stays there.
ResumeUnflushed ==
  /\ Asker("rawAgain", "idle")
  /\ buffering' = FALSE
  /\ UNCHANGED <<inputVars, pending, buffer, screen, mainVars, userVars, raw, asked>>

Resume ==
  /\ Asker("rawAgain", "idle")
  /\ screen' = screen + buffer
  /\ buffer' = 0
  /\ buffering' = FALSE
  /\ UNCHANGED <<inputVars, pending, mainVars, userVars, raw, asked>>

AskerStep == \/ SetCooked \/ SetCookedFails \/ Ask \/ ReadPrompt \/ ReadClosed \/ ReadStdin
             \/ Unroute \/ SetRaw \/ SetRawFails \/ Resume

-----------------------------------------------------------------------------
(* runPTY, from sess.Wait to its deferred calls                             *)

WaitChild ==
  /\ Main("wait", "output")
  /\ child = "ended"
  /\ UNCHANGED <<inputVars, outputVars, child, cancelled, pipeClosed, closed, userVars,
                 raw, asker, asked>>

\* wg.Wait: the copy of the output has met the end of the terminal.
WaitOutput ==
  /\ Main("output", "cancel")
  /\ pending = 0
  /\ UNCHANGED <<inputVars, outputVars, child, cancelled, pipeClosed, closed, userVars,
                 raw, asker, asked>>

CancelInput ==
  /\ Main("cancel", "join")
  /\ cancelled' = TRUE
  /\ UNCHANGED <<inputVars, outputVars, child, pipeClosed, closed, userVars, raw, asker, asked>>

\* <-inputDone
JoinLoop ==
  /\ Main("join", "close")
  /\ loop = "done"
  /\ UNCHANGED <<inputVars, outputVars, child, cancelled, pipeClosed, closed, userVars,
                 raw, asker, asked>>

ClosePipe ==
  /\ Main("close", "session")
  /\ pipeClosed' = TRUE
  /\ UNCHANGED <<inputVars, outputVars, child, cancelled, closed, userVars, raw, asker, asked>>

\* session.Close restores the terminal and closes the console.
CloseSession ==
  /\ Main("session", "returned")
  /\ raw' = FALSE
  /\ closed' = TRUE
  /\ UNCHANGED <<inputVars, outputVars, child, cancelled, pipeClosed, userVars, asker, asked>>

\* What ProxySession.tla has of the rest; the process may take its time.
Exit ==
  /\ Main("returned", "exited")
  /\ UNCHANGED <<inputVars, outputVars, child, cancelled, pipeClosed, closed, userVars,
                 raw, asker, asked>>

MainStep == WaitChild \/ WaitOutput \/ CancelInput \/ JoinLoop \/ ClosePipe \/ CloseSession

Next == \/ User \/ Emit \/ ChildEnds \/ CopyOutput \/ LoopStep
        \/ Take \/ AskerStep \/ MainStep \/ Exit

Spec == Init /\ [][Next]_vars

\* Goroutines are scheduled and the poll returns.  Nothing is assumed of the user,
\* of the package manager or of the requests that need a prompt.
FairSpec == /\ Spec
            /\ WF_vars(LoopStep) /\ WF_vars(AskerStep)
            /\ WF_vars(CopyOutput) /\ WF_vars(MainStep)

-----------------------------------------------------------------------------
(* Properties                                                               *)

Shown == asker \in {"asking", "stdin"}

\* While a prompt is shown nothing of the package manager reaches the screen, also
\* what was on its way when the prompt began.
PromptIsUndisturbed == [][Shown => screen' = screen]_vars

\* What the user answers to a prompt never reaches the package manager.
ChildGetsOnlyItsInput == delivered \subseteq {0}

\* A prompt and the package manager share one terminal without seeing each other:
\* the answer does not reach the child, and its output does not disturb the question.
PromptIsPrivate == []ChildGetsOnlyItsInput /\ PromptIsUndisturbed

\* Output held back for a prompt is shown if prompts do not stay open for ever, as
\* long as there is a package manager.
OutputIsShown ==
  []<>(~Shown) => (buffer > 0 ~> (buffer = 0 \/ child = "ended"))

\* When the package manager has ended runPTY returns, whatever prompt is open and
\* whatever was typed.
RunReturns == child = "ended" ~> main \in {"returned", "exited"}

\* The comment at internal/pty/router.go:94-95: the loop "continuously reads from src
\* and routes data to the current destination until src returns an error or ctx is
\* cancelled".
LoopStopsOnCancel == cancelled ~> loop = "done"
=============================================================================
