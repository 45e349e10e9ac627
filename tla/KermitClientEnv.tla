-------------------------- MODULE KermitClientEnv --------------------------
(***************************************************************************)
(* The client against any server: S, F, A, D, Z, B, X, Y, N or E, in       *)
(* whatever order, with whatever number.  A D packet carries its number,   *)
(* plus one, as its data; with NChunks = SeqMod it may have every number.  *)
(***************************************************************************)
EXTENDS KermitClient

CONSTANT MaxGot   \* bound: chunks that the server sends for one file

ASSUME ClientEnvAssumption == MaxGot \in Nat

anyServerVars == <<clientVars, c2s, s2c>>

ServerTypes == PacketTypes \ {"R", "G"}

AnyServerSend ==
    /\ c_ret # "K_FAILURE" /\ c_ret # "K_TIMEOUT" /\ s2c = <<>>
    /\ \E typ \in ServerTypes, seq \in SeqNo :
          /\ typ = "D" => seq < NChunks /\ Len(c_got) < MaxGot
          /\ s2c' = <<Pkt(typ, seq, IF typ = "D" THEN seq + 1 ELSE NoText)>>
    /\ c2s' = <<>>
    /\ UNCHANGED clientVars

AnyServerInit == ClientInit
AnyServerNext == ClientNext \/ AnyServerSend
AnyServerSpec == AnyServerInit /\ [][AnyServerNext]_anyServerVars
-----------------------------------------------------------------------------
AnyServerTypeOK == LinkTypeOK /\ ClientTypeOK

(* handle_good_rpkt() and flush_to_file() write chunks in the order of     *)
(* their numbers with none missing, wraparound included, whatever packets  *)
(* a server repeats, skips or sends out of order.                          *)
WrittenInOrder ==
    \A i \in 1 .. Len(c_got) - 1 : c_got[i + 1] = (c_got[i] % SeqMod) + 1

(* A GET that succeeds has flushed its window and closed its file: what    *)
(* was acknowledged is in it.                                              *)
NothingLeftBehind ==
    c_ret = "K_SUCCESS" /\ c_mode = "A_GET" =>
        c_file # "open" /\ ~c_rslot.used

(* The latest packet stays in the window, ready to be acknowledged again,  *)
(* for as long as the file is open.                                        *)
WindowHoldsLatest ==
    /\ AnyServerTypeOK
    /\ c_ret = "RUN" /\ c_mode = "A_GET" =>
          (c_rslot.used <=> c_file = "open")
=============================================================================
