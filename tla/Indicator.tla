------------------------------ MODULE Indicator ------------------------------
(***************************************************************************)
(* What IsAvailable and InstallNow have of the progress indicator: it is    *)
(* shown or not, and was cancelled or not.  A cancel of the dialog is in    *)
(* its flag at once.  On the console the user presses ESC, and it takes a   *)
(* poll to notice: whoever asks takes the key out of the console's buffer,  *)
(* and stores what it found later.  Several threads ask, and nothing orders *)
(* them.  The threads themselves are in ProgressUI.                         *)
(*                                                                         *)
(* The console is external: looking into its buffer and taking a key out of *)
(* it are one step here.                                                    *)
(***************************************************************************)
CONSTANT Poller   \* the threads that ask

VARIABLES
  console,   \* the interface is the console's; never changes
  progress,  \* the indicator: shown, and cancelled
  key,       \* ESC is in the console's input buffer
  poll       \* what each thread has found and not stored yet

Down  == [up |-> FALSE, cancelled |-> FALSE]
Quiet == [a \in Poller |-> "none"]

Init == progress = Down /\ key = FALSE /\ poll = Quiet

TypeOK ==
  /\ progress \in [up : BOOLEAN, cancelled : BOOLEAN]
  /\ key \in BOOLEAN
  /\ poll \in [Poller -> {"none", "no", "yes"}]

(* ProgressStart: an indicator that is still shown stays, and there may be   *)
(* no memory for one. *)
Start ==
  /\ IF progress.up THEN UNCHANGED progress
       ELSE \E up \in BOOLEAN : progress' = [up |-> up, cancelled |-> FALSE]
  /\ UNCHANGED <<key, poll>>

(* HasUserCancelled, which looks for ESC unless it knows of a cancel. *)
Unsure == console /\ progress.up /\ ~progress.cancelled

Look(a) ==
  /\ Unsure /\ poll[a] = "none"
  /\ poll' = [poll EXCEPT ![a] = IF key THEN "yes" ELSE "no"]
  /\ key' = FALSE
  /\ UNCHANGED progress

Store(a) ==
  /\ poll[a] # "none"
  /\ progress' = [progress EXCEPT !.cancelled = (poll[a] = "yes")]
  /\ poll' = [poll EXCEPT ![a] = "none"]
  /\ UNCHANGED key

(* The client asks; what it returns it reads again, after its store. *)
Ask(a) == IF Unsure THEN Look(a) ELSE UNCHANGED <<progress, key, poll>>

Told(a) == poll[a] = "none"

(* Another thread has looked and not stored. *)
Overlaps(a) == Unsure /\ \E b \in Poller \ {a} : poll[b] # "none"

(* ProgressStop, once it has asked: it waits for the bar's thread, and       *)
(* forgets the indicator. *)
Forget == progress' = Down /\ poll' = Quiet

(* The whole of it, for a caller that does not look at the answer. *)
Stop == Forget /\ key' = (key /\ ~Unsure)

(* The user. *)
Button ==
  /\ ~console /\ progress.up /\ ~progress.cancelled
  /\ progress' = [progress EXCEPT !.cancelled = TRUE]
  /\ UNCHANGED <<key, poll>>

Escape ==
  /\ console
  /\ key' = TRUE
  /\ UNCHANGED <<progress, poll>>
=============================================================================
