-------------------------------- MODULE MCAddr --------------------------------
(* A small instance of Addr: two addresses, two descriptors; programs call   *)
(* io_select() to poll, without a timeout, and with one of two ticks.  The   *)
(* hostspecs are names and addresses of one to three characters, with ports  *)
(* up to the largest five digits there are and with services.                *)
EXTENDS Addr

PollForeverAndTwo == {-1, 0, 2}
NoneAndOne == {-1, 0, 1}
NoneAndTwo == {-1, 0, 2}
BackAndOn == {-1, 2}

Names == UNION {[1 .. n -> {"a", "1"}] : n \in 1 .. 3}
V4 == {n \in Names : \A i \in DOMAIN n : n[i] = "1"}
V6 == {<<":", ":", "1">>, <<"a", ":", ":", "1">>, <<"a", "a", ":", ":">>, <<"a", ":", ":">>}
Services == {<<>>, <<"a">>, <<"8", "0">>, <<"1", "a">>, <<"6", "5", "5", "3", "5">>,
             <<"9", "9", "9", "9", "9">>}
=============================================================================
