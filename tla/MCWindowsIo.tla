----------------------------- MODULE MCWindowsIo -----------------------------
(***************************************************************************)
(* Instances of WindowsIo for TLC.                                         *)
(***************************************************************************)
EXTENDS WindowsIo

CONSTANTS stream, listener, udp

\* One object of each type, each on its own.
EachAlone == {{stream}, {listener}, {udp}}
StreamAlone == {{stream}}
StreamAndUdp == {{stream, udp}}

WriteAndBoth == {{"writable"}, {"readable", "writable"}}
ReadAndBoth == {{"readable"}, {"readable", "writable"}}

=============================================================================
