------------------------------ MODULE Mksocket -------------------------------
(***************************************************************************)
(* addr_mksocket() of libsrsbsns/addr.c: the addresses getaddrinfo() found *)
(* are tried in turn, each with a socket of its own that is made           *)
(* non-blocking, handed to connect() or bind(), waited for and tested.     *)
(* addr_bind_socket_dgram() then sets options on the result.               *)
(*                                                                         *)
(* It waits in io_select(), whose module this one extends: while place is  *)
(* "select" the steps are io_select()'s own.  Programs also call that      *)
(* function themselves.  Times are relative, as they are there.  The clock *)
(* is read at four places between the backend and select(), with logging   *)
(* in between: each is a step of its own, and time may pass, or the clock  *)
(* be stepped, before every one.  errno is followed from the backend into  *)
(* io_select() and out of it; what other failing calls put there is not.   *)
(***************************************************************************)
EXTENDS IoSelect

CONSTANTS
  MaxAddr,     \* bound: the length of getaddrinfo()'s list
  SoftTimes,   \* the values of softto_us and hardto_us; zero means none
  HardTimes

ASSUME NotStdin == 0 \notin Fd
ASSUME AddrAssumption == MaxAddr \in Nat
ASSUME TimesAssumption == SoftTimes \subseteq Int /\ HardTimes \subseteq Int

VARIABLES
  place,       \* where addr_mksocket() is, or "idle"
  func,        \* "none", or "backend": connect() and bind() are treated alike
  opts,        \* whether addr_bind_socket_dgram() has options to set
  softto, hardto,
  hleft,       \* until hardtsend, when there is one
  softleft,    \* until softtsend, between lines 185 and 188
  trem,
  list,        \* the length of ai_list, 0 when no list is allocated
  ai,          \* the current element
  sck, result,
  open,        \* the sockets opened by this call and not closed
  nonblock,    \* those in non-blocking mode
  connected,   \* those the backend has finished with successfully
  sockaddr,    \* what the caller's *sockaddr holds: the element it is copied
               \* from, its family, and how many bytes of its address
  addrlen,     \* the caller's *addrlen
  foreign,     \* close() was called on a descriptor that is not ours
  ahead,       \* history: how far the clock moved on since line 177, except
               \* while select()'s deadline moved with it
  behind       \* history: how far it was stepped back since line 185

params == <<func, opts, softto, hardto>>
times == <<hleft, softleft, trem, ahead, behind>>
fds == <<open, nonblock, connected>>
caller == <<sockaddr, addrlen>>
mkvars == <<place, params, times, list, ai, sck, result, fds, caller, foreign>>
allvars == <<vars, mkvars>>

Hard == hardto # 0
Soft == softto # 0

\* addr_mksocket() itself is running.
Running == place \notin {"idle", "options"}

\* sizeof (struct sockaddr), and the lengths of the addresses getaddrinfo() finds.
SockaddrBytes == 16
AddrBytes == [inet |-> 16, inet6 |-> 28]

NoSockaddr == [of |-> 0, family |-> "none", bytes |-> 0]

SocketInit ==
  /\ Init
  /\ place = "idle"
  /\ func = "none" /\ opts = FALSE /\ softto = 0 /\ hardto = 0
  /\ hleft = 0 /\ softleft = 0 /\ trem = 0 /\ ahead = 0 /\ behind = 0
  /\ list = 0 /\ ai = 0 /\ sck = -1 /\ result = -1
  /\ open = {} /\ nonblock = {} /\ connected = {}
  /\ sockaddr = NoSockaddr /\ addrlen = 0 /\ foreign = FALSE

-----------------------------------------------------------------------------

\* The parameters and locals of an io_select() that returned are gone.
SelectGone ==
  /\ to_us' = 0 /\ ignoreintr' = FALSE /\ preverrno' = "none"
  /\ left' = 0 /\ watch' = {} /\ rfds' = {} /\ tout' = 0 /\ ret' = 0
  /\ ready' = {}
  /\ UNCHANGED pc

\* So are the locals of the loop's body.
LoopGone == softleft' = 0 /\ trem' = 0 /\ ahead' = 0 /\ behind' = 0 /\ UNCHANGED hleft

\* getaddrinfo() fails or returns a list; addr_mksocket() has no socket yet.
\* The caller has taken over the socket the call before returned.
Mksocket(f, o, soft, hard) ==
  /\ place = "idle" /\ pc = "idle"
  /\ func' = f /\ opts' = o /\ softto' = soft /\ hardto' = hard
  /\ hleft' = hard
  /\ softleft' = 0 /\ trem' = 0 /\ ahead' = 0 /\ behind' = 0
  /\ open' = {} /\ nonblock' = {} /\ connected' = {}
  /\ sck' = -1 /\ sockaddr' = NoSockaddr /\ addrlen' = 0 /\ foreign' = FALSE /\ result' = -1
  /\ \E n \in 0 .. MaxAddr :
       /\ list' = n
       /\ ai' = IF n = 0 THEN 0 ELSE 1
       /\ place' = IF n = 0 THEN "idle" ELSE "loop"
  /\ SelectGone /\ steps' = 0 /\ UNCHANGED errno

\* The end of addr_mksocket(); addr_bind_socket_dgram() has options to set.
Return(s) ==
  /\ result' = s
  /\ place' = IF s >= 0 /\ opts THEN "options" ELSE "idle"

\* The for loop's continue, after close(sck).
Next_ai ==
  /\ open' = open \ {sck} /\ nonblock' = nonblock \ {sck}
  /\ connected' = connected \ {sck}
  /\ ai' = ai + 1 /\ sck' = -1
  /\ place' = "loop"
  /\ LoopGone
  /\ UNCHANGED <<params, list, result, caller, foreign>>

\* The list is exhausted.
AtEnd == ai > list

LoopEnd ==
  /\ place = "loop" /\ AtEnd
  /\ list' = 0
  /\ Return(-1)
  /\ UNCHANGED <<vars, params, times, ai, sck, fds, caller, foreign>>

\* The early return leaves the list allocated.
LoopHardTimeout ==
  /\ place = "loop" /\ ~AtEnd
  /\ Hard /\ hleft <= 0
  /\ Return(0)
  /\ UNCHANGED <<vars, params, times, list, ai, sck, fds, caller, foreign>>

\* The assignment at line 149 copies a struct sockaddr, whatever the address's
\* length; *addrlen is that length.
Copied(family) ==
  [of |-> ai, family |-> family,
   bytes |-> IF AddrBytes[family] < SockaddrBytes THEN AddrBytes[family]
                                                  ELSE SockaddrBytes]

CopyFirst(family) ==               \* mutant: only the first candidate's address
  /\ sockaddr' = IF sockaddr = NoSockaddr THEN Copied(family) ELSE sockaddr
  /\ addrlen' = AddrBytes[family]
TellAddress(family) == sockaddr' = Copied(family) /\ addrlen' = AddrBytes[family]

Socket ==
  /\ place = "loop" /\ ~AtEnd
  /\ ~(Hard /\ hleft <= 0)
  /\ \/ \E s \in Fd \ open, family \in DOMAIN AddrBytes :
          /\ sck' = s
          /\ open' = open \cup {s}
          /\ TellAddress(family)
          /\ place' = IF func = "none" THEN "success" ELSE "backend"
          /\ UNCHANGED ai
     \/ ai' = ai + 1 /\ UNCHANGED <<place, sck, open, caller>>
  /\ UNCHANGED <<vars, params, times, list, result, nonblock, connected, foreign>>

\* setblocking(sck, false), errno = 0 and func(): done at once, or in progress.
Backend ==
  /\ place = "backend"
  /\ nonblock' = nonblock \cup {sck}
  /\ \/ place' = "finish" /\ connected' = connected \cup {sck} /\ errno' = "none"
     \/ place' = "hardleft" /\ errno' = "EINPROGRESS" /\ UNCHANGED connected
  /\ UNCHANGED <<pc, call, left, watch, rfds, tout, ret, env>>
  /\ UNCHANGED <<params, times, list, ai, sck, result, open, caller, foreign>>

BackendFails == place = "backend" /\ Next_ai /\ UNCHANGED vars

\* Lines 176-183: without a hard timeout trem stays zero.
InTimeOrJust == Hard => hleft >= 0     \* mutant: a remaining time of zero will do
InTime == Hard => hleft > 0

HardLeft ==
  /\ place = "hardleft"
  /\ InTime
  /\ trem' = IF Hard THEN hleft ELSE 0
  /\ place' = "softend"
  /\ UNCHANGED <<vars, params, hleft, softleft, ahead, behind>>
  /\ UNCHANGED <<list, ai, sck, result, fds, caller, foreign>>

TooLate == place = "hardleft" /\ Hard /\ hleft <= 0 /\ Next_ai /\ UNCHANGED vars

\* Line 185.
SoftEnd ==
  /\ place = "softend"
  /\ softleft' = softto
  /\ place' = IF Soft THEN "softleft" ELSE "call"
  /\ UNCHANGED <<vars, params, hleft, trem, ahead, behind>>
  /\ UNCHANGED <<list, ai, sck, result, fds, caller, foreign>>

\* Lines 188-197: a soft timeout, more than zero now, replaces no trem of zero.
LaterOfBoth == IF softleft > trem THEN softleft ELSE trem     \* mutant
EarlierOfBoth == IF softleft < trem THEN softleft ELSE trem

SoftLeft ==
  /\ place = "softleft"
  /\ softleft > 0
  /\ trem' = EarlierOfBoth
  /\ softleft' = 0
  /\ place' = "call"
  /\ UNCHANGED <<vars, params, hleft, ahead, behind>>
  /\ UNCHANGED <<list, ai, sck, result, fds, caller, foreign>>

SoftTooLate == place = "softleft" /\ softleft <= 0 /\ Next_ai /\ UNCHANGED vars

\* io_select1w() takes a trem of zero for no timeout; it adds the clock's time
\* to it, read once more.
StartWait ==
  /\ place = "call"
  /\ Call({sck}, trem, TRUE) /\ UNCHANGED steps
  /\ place' = "select"
  /\ UNCHANGED <<params, times, list, ai, sck, result, fds, caller, foreign>>

\* What io_select1w() returned.
SelectReturned == place = "select" /\ pc = "idle"

\* It timed out or failed, or getsockopt() finds the socket in error.
SelectFailedLeaking ==             \* mutant: one path forgets close()
  /\ SelectReturned
  /\ ai' = ai + 1 /\ sck' = -1 /\ place' = "loop"
  /\ SelectGone /\ LoopGone
  /\ UNCHANGED <<errno, steps, params, list, result, fds, caller, foreign>>
SelectFailed == SelectReturned /\ Next_ai /\ SelectGone /\ UNCHANGED <<errno, steps>>

Connected ==
  /\ SelectReturned
  /\ ret > 0
  /\ place' = "finish"
  /\ connected' = connected \cup {sck}
  /\ SelectGone /\ LoopGone
  /\ UNCHANGED <<errno, steps, params, list, ai, sck, result, open, nonblock,
                 caller, foreign>>

Finish ==
  /\ place = "finish"
  /\ nonblock' = nonblock \ {sck}
  /\ place' = "success"
  /\ UNCHANGED <<vars, params, times, list, ai, sck, result, open, connected,
                 caller, foreign>>

FinishFails == place = "finish" /\ Next_ai /\ UNCHANGED vars

Success ==
  /\ place = "success"
  /\ list' = 0
  /\ Return(sck)
  /\ UNCHANGED <<vars, params, times, ai, sck, fds, caller, foreign>>

-----------------------------------------------------------------------------
(* addr_bind_socket_dgram(): SO_BROADCAST for either option, then the        *)
(* uncritical SO_REUSEADDR.  A failure closes whatever addr_mksocket()      *)
(* returned.                                                                *)

OptionsSet ==
  /\ place = "options"
  /\ place' = "idle"
  /\ UNCHANGED <<vars, params, times, list, ai, sck, result, fds, caller, foreign>>

ClosesForeign == result \notin open

OptionsFail ==
  /\ place = "options"
  /\ place' = "idle"
  /\ open' = open \ {result} /\ connected' = connected \ {result}
  /\ foreign' = ClosesForeign
  /\ result' = -1
  /\ UNCHANGED <<vars, params, times, list, ai, sck, nonblock, caller>>

-----------------------------------------------------------------------------
(* The calls of io_select() *)

\* A program calls it with descriptors of its own; an earlier addr_mksocket()
\* has left nothing.
Watch(f, to, ign) ==
  /\ place = "idle"
  /\ Call(f, to, ign) /\ steps' = 0
  /\ func' = "none" /\ opts' = FALSE /\ softto' = 0 /\ hardto' = 0
  /\ hleft' = 0 /\ softleft' = 0 /\ trem' = 0 /\ ahead' = 0 /\ behind' = 0
  /\ list' = 0 /\ ai' = 0 /\ sck' = -1 /\ result' = -1
  /\ open' = {} /\ nonblock' = {} /\ connected' = {}
  /\ sockaddr' = NoSockaddr /\ addrlen' = 0 /\ foreign' = FALSE
  /\ UNCHANGED place

InSelect == place \in {"idle", "select"} /\ UNCHANGED mkvars

SelectTop == InSelect /\ Top
SelectAnswer == InSelect /\ Answer

Outside ==
  /\ InSelect
  /\ \/ Signal \/ SelectFails
     \/ \E f \in watch : BecomeReady(f) \/ BecomeUnready(f)

-----------------------------------------------------------------------------
(* Time, for every deadline there is *)

AllFollowed(d) ==
  /\ Followed(d)
  /\ hleft' = IF Running /\ Hard THEN Later(hleft, d) ELSE hleft
  /\ softleft' = IF place = "softleft" THEN Later(softleft, d) ELSE softleft
  /\ UNCHANGED <<pc, call, watch, rfds, ret, errno, ready>>
  /\ UNCHANGED <<place, params, trem, list, ai, sck, result, fds, caller, foreign>>

\* Between line 177 and io.c:149 the remaining time of the hard timeout is known,
\* and gets out of date.
Measured == Hard /\ place \in {"softend", "softleft", "call"}

TickAll ==
  /\ \/ pc # "idle" /\ Timed /\ left > -Past
     \/ pc # "idle" /\ tout > 0
     \/ Running /\ Hard /\ hleft > -Past
     \/ place = "softleft" /\ softleft > -Past
  /\ AllFollowed(1)
  /\ tout' = AtLeastZero(tout - 1)
  /\ ahead' = IF Measured THEN ahead + 1 ELSE ahead
  /\ UNCHANGED <<steps, behind>>

\* The kernel's timeout does not follow a step of the clock.
StepClockAll(d) ==
  /\ (pc # "idle" /\ Timed) \/ (Running /\ Hard) \/ place = "softleft"
  /\ steps < MaxSteps
  /\ steps' = steps + 1
  /\ AllFollowed(d)
  /\ ahead' = IF d > 0 /\ (Measured \/ (Hard /\ place = "select")) THEN ahead + d ELSE ahead
  /\ behind' = IF d < 0 /\ place \in {"softleft", "select"} THEN behind - d ELSE behind
  /\ UNCHANGED tout

-----------------------------------------------------------------------------

Step ==
  \/ LoopEnd \/ LoopHardTimeout \/ Socket
  \/ Backend \/ BackendFails
  \/ HardLeft \/ TooLate \/ SoftEnd \/ SoftLeft \/ SoftTooLate
  \/ StartWait \/ SelectFailed \/ Connected
  \/ Finish \/ FinishFails \/ Success
  \/ OptionsSet \/ OptionsFail

SocketNext ==
  \/ \E soft \in SoftTimes, hard \in HardTimes : Mksocket("none", FALSE, soft, hard)
  \/ \E o \in BOOLEAN, soft \in SoftTimes, hard \in HardTimes :
       Mksocket("backend", o, soft, hard)
  \/ \E f \in SUBSET Fd, to \in Timeouts, ign \in BOOLEAN : Watch(f, to, ign)
  \/ Step
  \/ SelectTop \/ SelectAnswer
  \/ Outside
  \/ TickAll
  \/ \E d \in ClockSteps : StepClockAll(d)

SocketSpec == SocketInit /\ [][SocketNext]_allvars

\* The code runs, time passes, and select() returns when it has something to
\* say; no peer has to answer.
SocketFairSpec ==
  /\ SocketSpec
  /\ WF_allvars(Step) /\ WF_allvars(TickAll) /\ WF_allvars(SelectTop)
  /\ SF_allvars(SelectAnswer)

-----------------------------------------------------------------------------
(* Properties *)

\* Every variable keeps its type, those of io_select() included.
SocketTypeOK ==
  /\ TypeOK
  /\ place \in {"idle", "loop", "backend", "hardleft", "softend", "softleft", "call",
                "select", "finish", "success", "options"}
  /\ func \in {"none", "backend"} /\ opts \in BOOLEAN
  /\ softto \in SoftTimes \cup {0} /\ hardto \in HardTimes \cup {0}
  /\ hleft \in Int /\ softleft \in Int /\ trem \in Nat
  /\ ahead \in Nat /\ behind \in Nat
  /\ list \in 0 .. MaxAddr /\ ai \in 0 .. (MaxAddr + 1)
  /\ sck \in Fd \cup {-1} /\ result \in Fd \cup {-1, 0}
  /\ open \subseteq Fd /\ nonblock \subseteq open /\ connected \subseteq open
  /\ sockaddr \in [of : 0 .. MaxAddr, family : {"none", "inet", "inet6"}, bytes : Nat]
  /\ addrlen \in Nat
  /\ foreign \in BOOLEAN

\* The address list is freed on every way out but the hard timeout's.
ListFreed == place = "idle" => list = 0 \/ (Hard /\ hleft <= 0)

\* addr_bind_socket_dgram() closes a descriptor it did not open only after a
\* hard timeout, whose 0 it takes for a socket.
OnlyOwnClosed == foreign => Hard /\ hleft <= 0

\* Of all the sockets the candidates needed, none stays open but the one that
\* is returned: at most one is open at any time and none is lost on the many
\* ways round the loop.  No other resource is lost and no stranger's
\* descriptor closed, but for what the hard timeout's early return does.
NoSocketLeaks ==
  /\ SocketTypeOK /\ ListFreed /\ OnlyOwnClosed
  /\ place = "idle" => open = (IF result > 0 THEN {result} ELSE {})
  /\ place \notin {"idle", "options"} => open = (IF sck = -1 THEN {} ELSE {sck})

\* A returned socket is back in blocking mode, the backend succeeded on it,
\* and it is its address the caller is told, with the address's own length,
\* whichever candidates were tried before.  Of an IPv4 address all bytes are
\* there; an IPv6 address is cut off, though *addrlen speaks of all of it.
ReturnedUsable ==
  place = "idle" /\ result > 0 =>
    /\ result \notin nonblock
    /\ func # "none" => result \in connected
    /\ sockaddr.of = ai
    /\ addrlen = AddrBytes[sockaddr.family]
    /\ sockaddr.bytes = IF sockaddr.family = "inet" THEN addrlen ELSE SockaddrBytes

\* While io_select() waits for a socket of addr_mksocket(), it waits for that
\* one only.  With a hard timeout neither its deadline nor what it asks of the
\* kernel lies beyond the hard one by more than the clock moved on between
\* reading it at line 177 and at io.c:149, or was stepped on since; nor is it
\* further off than the soft timeout and what the clock was stepped back.
\* Signals that restart select() add nothing.
WaitBounded ==
  place = "select" /\ pc # "idle" =>
    /\ watch = {sck} /\ ignoreintr
    /\ Hard => /\ Timed
               /\ left <= hleft + ahead
               /\ tout > 0 => tout <= hleft + ahead
               /\ softto > 0 => left <= softto + behind /\ tout <= softto + behind

\* With a hard timeout the call returns, whatever the peers do and however many
\* signals interrupt it.
HardTimeoutEnds == (place # "idle" /\ Hard) ~> (place = "idle")

=============================================================================
