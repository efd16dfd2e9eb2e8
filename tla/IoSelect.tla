------------------------------ MODULE IoSelect -------------------------------
(***************************************************************************)
(* io_select() of libsrsbsns/io.c, with its callers io_select1r, 1w and    *)
(* 2r: select() with a timeout kept across wake-ups and signals.           *)
(*                                                                         *)
(* Times are kept relative.  left is what tsend - tstamp_us() would give   *)
(* now; tout is what is left of the kernel's timeout.  A tick takes one    *)
(* off both; the administrator may step the clock tstamp_us() reads, which *)
(* changes left alone.  Time that passes between reading the clock and     *)
(* entering select() is the same as select() answering late.               *)
(***************************************************************************)
EXTENDS Integers, FiniteSets

CONSTANTS
  Fd,          \* file descriptors
  Timeouts,    \* the values of to_us callers pass; negative ones poll
  ClockSteps,  \* how far the clock is stepped, back when negative
  MaxSteps,    \* bound: how often it is stepped in a call
  Past         \* bound: how long a deadline in the past is followed; no less
               \* than all steps back together, it makes no difference

ASSUME FdAssumption == Fd \subseteq Nat /\ IsFiniteSet(Fd)
ASSUME TimeoutsAssumption == Timeouts \subseteq Int
ASSUME StepsAssumption == MaxSteps \in Nat /\ ClockSteps \subseteq Int /\ Past \in Nat

VARIABLES
  pc,          \* "idle", "top" of the loop, or in the "kernel"
  to_us, ignoreintr, preverrno,
  left,        \* until tsend, when the call has a timeout
  watch,       \* the descriptors in the caller's array that are not -1
  rfds,        \* the fd_set
  tout,        \* what is left of the kernel's timeout
  ret, errno,  \* the result of the last call
  ready,       \* environment: the descriptors that are ready
  steps        \* environment: steps of the clock in this call

ErrNo == {"none", "EINVAL", "EINTR", "EBADF", "EINPROGRESS"}

call == <<to_us, ignoreintr, preverrno>>
env == <<ready, steps>>
vars == <<pc, to_us, ignoreintr, preverrno, left, watch, rfds, tout,
          ret, errno, ready, steps>>

poll == to_us < 0
Timed == to_us > 0       \* tsend # 0

Init ==
  /\ pc = "idle"
  /\ to_us = 0 /\ ignoreintr = FALSE /\ preverrno = "none"
  /\ left = 0 /\ watch = {} /\ rfds = {} /\ tout = 0
  /\ ret = 0 /\ errno = "none"
  /\ ready = {} /\ steps = 0

-----------------------------------------------------------------------------
(* The code *)

AtLeastZero(t) == IF t > 0 THEN t ELSE 0

\* What is left until a deadline, t, when the clock has moved on by d.
Later(t, d) == IF t - d < -Past THEN -Past ELSE t - d

Call(fds, to, ign) ==
  /\ pc = "idle"
  /\ pc' = "top"
  /\ to_us' = to /\ ignoreintr' = ign /\ preverrno' = errno
  /\ left' = AtLeastZero(to)
  /\ watch' = fds
  /\ rfds' = {} /\ tout' = 0
  /\ UNCHANGED <<ret, errno, ready>>

NothingToWatch ==
  /\ pc = "top"
  /\ watch = {}
  /\ pc' = "idle" /\ ret' = -1 /\ errno' = "EINVAL"
  /\ UNCHANGED <<call, left, watch, rfds, tout, env>>

DeadlineReached ==
  /\ pc = "top"
  /\ watch # {}
  /\ Timed /\ left <= 0
  /\ pc' = "idle" /\ ret' = 0
  /\ UNCHANGED <<call, left, watch, rfds, tout, errno, env>>

\* The descriptor sets and the timeout are made anew for every select().
FilledBelowMax ==                  \* mutant: the highest descriptor is left out
  {f \in watch : \E g \in watch : g > f}
Filled == watch

EnterSelect ==
  /\ pc = "top"
  /\ watch # {}
  /\ Timed => left > 0
  /\ pc' = "kernel"
  /\ rfds' = Filled
  /\ tout' = IF Timed THEN left ELSE 0
  /\ UNCHANGED <<call, left, watch, ret, errno, env>>

\* select() timed out, which clears the set.  Only a poll ends here: the
\* others look at the clock again.
EndsOnTimeout == poll

KernelTimeout ==
  /\ pc = "kernel"
  /\ (poll \/ Timed) /\ tout = 0
  /\ rfds' = {}
  /\ IF EndsOnTimeout THEN pc' = "idle" /\ ret' = 0
                      ELSE pc' = "top" /\ UNCHANGED ret
  /\ UNCHANGED <<call, left, watch, tout, errno, env>>

\* A signal was caught; what the set holds then is unspecified.
GoRoundWithErrno ==                \* mutant: errno stays EINTR
  pc' = "top" /\ errno' = "EINTR" /\ UNCHANGED left
GoRound == pc' = "top" /\ errno' = preverrno /\ UNCHANGED left

Signal ==
  /\ pc = "kernel"
  /\ \E s \in SUBSET rfds : rfds' = s
  /\ IF ignoreintr THEN GoRound /\ UNCHANGED ret
     ELSE pc' = "idle" /\ ret' = -1 /\ errno' = "EINTR" /\ UNCHANGED left
  /\ UNCHANGED <<call, watch, tout, env>>

SelectFails ==
  /\ pc = "kernel"
  /\ pc' = "idle" /\ ret' = -1 /\ errno' = "EBADF"
  /\ UNCHANGED <<call, left, watch, rfds, tout, env>>

\* Descriptors are ready: the others are set to -1 in the caller's array.
Remaining(set) == watch \cap set

Selected ==
  /\ pc = "kernel"
  /\ rfds \cap ready # {}
  /\ rfds' = rfds \cap ready
  /\ watch' = Remaining(rfds')
  /\ pc' = "idle" /\ ret' = Cardinality(rfds')
  /\ UNCHANGED <<call, left, tout, errno, env>>

-----------------------------------------------------------------------------
(* The environment *)

\* The clock has moved on by d.
Followed(d) == left' = IF pc # "idle" /\ Timed THEN Later(left, d) ELSE left

Tick ==
  /\ pc # "idle"
  /\ (Timed /\ left > -Past) \/ tout > 0
  /\ Followed(1)
  /\ tout' = AtLeastZero(tout - 1)
  /\ UNCHANGED <<pc, call, watch, rfds, ret, errno, env>>

\* The clock is stepped back (the deadline moves away) or forward.
StepClock(d) ==
  /\ pc # "idle" /\ Timed
  /\ steps < MaxSteps
  /\ steps' = steps + 1
  /\ Followed(d)
  /\ UNCHANGED <<pc, call, watch, rfds, tout, ret, errno, ready>>

BecomeReady(f) ==
  /\ ready' = ready \cup {f}
  /\ UNCHANGED <<pc, call, left, watch, rfds, tout, ret, errno, steps>>

BecomeUnready(f) ==
  /\ ready' = ready \ {f}
  /\ UNCHANGED <<pc, call, left, watch, rfds, tout, ret, errno, steps>>

-----------------------------------------------------------------------------

Answer == KernelTimeout \/ Selected
Top == NothingToWatch \/ DeadlineReached \/ EnterSelect

Next ==
  \/ \E fds \in SUBSET Fd, to \in Timeouts, ign \in BOOLEAN :
       Call(fds, to, ign) /\ steps' = 0
  \/ Top
  \/ Answer
  \/ Signal
  \/ SelectFails
  \/ Tick
  \/ \E d \in ClockSteps : StepClock(d)
  \/ \E f \in Fd : BecomeReady(f) \/ BecomeUnready(f)

Spec == Init /\ [][Next]_vars

\* Time passes, the code between two system calls runs, and select() returns
\* when it has something to say, unless a signal comes first every time.
FairSpec ==
  /\ Spec
  /\ WF_vars(Tick) /\ WF_vars(Top)
  /\ SF_vars(Answer)

-----------------------------------------------------------------------------
(* Properties *)

\* Every variable keeps its type, and select() is asked about no descriptor the
\* caller did not name.
TypeOK ==
  /\ pc \in {"idle", "top", "kernel"}
  /\ to_us \in Int /\ ignoreintr \in BOOLEAN
  /\ left \in Int /\ tout \in Nat
  /\ watch \subseteq Fd /\ rfds \subseteq watch
  /\ ret \in -1 .. Cardinality(Fd)
  /\ errno \in ErrNo /\ preverrno \in ErrNo
  /\ ready \subseteq Fd /\ steps \in 0 .. MaxSteps

NotBeforeDeadline == ret' = 0 => poll \/ left <= 0

SignalsLeaveNoTrace ==
  IF ret' >= 0 THEN errno' = preverrno
               ELSE ignoreintr => errno' # "EINTR"

ReadyReported ==
  IF ret' > 0 THEN watch' = watch \cap ready /\ ret' = Cardinality(watch')
              ELSE watch' = watch

\* What io_select() reports is so, whatever signals and clock steps woke
\* select() before: a timeout, only at or after the deadline; success, with
\* exactly the ready descriptors of those asked about left in the caller's
\* array, which a failure or a timeout leaves as it was; with ignoreintr, no
\* signal; and unless the call fails, the caller's errno is what it was,
\* although every ignored signal has set it.
ReportsTruly ==
  [][pc # "idle" /\ pc' = "idle" =>
       NotBeforeDeadline /\ SignalsLeaveNoTrace /\ ReadyReported]_vars

TimeoutEnds == (pc # "idle" /\ to_us # 0) ~> (pc = "idle")

WokenWhenReady ==
  (pc # "idle" /\ watch \cap ready # {}) ~> (pc = "idle" \/ watch \cap ready = {})

\* io_select() returns: with a timeout, even when signals interrupt it for ever;
\* as a poll, without help from the clock; and without a timeout, when a
\* descriptor is and stays ready.
SelectReturns == TimeoutEnds /\ WokenWhenReady

=============================================================================
