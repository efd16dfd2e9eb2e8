--------------------------------- MODULE Addr ---------------------------------
(***************************************************************************)
(* A program that uses libsrsbsns/addr.c: first it splits a hostspec or    *)
(* makes a socket address of one (module Hostspec), then it has sockets    *)
(* made (Mksocket), which wait in io_select() (IoSelect).                  *)
(***************************************************************************)
EXTENDS Mksocket, Hostspec

addrvars == <<allvars, hs>>

AddrInit == SocketInit /\ hs = NoCall

Prepare == SocketInit /\ hs = NoCall /\ HostspecNext /\ UNCHANGED allvars
Use == hs # NoCall /\ hs' = NoCall /\ UNCHANGED allvars

AddrNext == Prepare \/ Use \/ (hs = NoCall /\ SocketNext /\ UNCHANGED hs)

AddrSpec == AddrInit /\ [][AddrNext]_addrvars

\* See SocketFairSpec: the program does not dwell on the hostspec for ever.
AddrFairSpec ==
  /\ AddrSpec
  /\ WF_addrvars(Step /\ UNCHANGED hs)
  /\ WF_addrvars(TickAll /\ UNCHANGED hs)
  /\ WF_addrvars(SelectTop /\ UNCHANGED hs)
  /\ SF_addrvars(SelectAnswer /\ UNCHANGED hs)

=============================================================================
