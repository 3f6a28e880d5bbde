------------------------------ MODULE PcEvents ------------------------------
(***************************************************************************)
(* The connection life cycle that libpomelo2 shows to the application:     *)
(* the states of a pc_client_t (include/pomelo.h) and what                 *)
(* pc__trans_fire_event (src/pc_trans.c) does to the state for each        *)
(* network event.  pc__trans_fire_event asserts the states in which an     *)
(* event may arrive; no build file defines NDEBUG, so an event outside     *)
(* them aborts the process.                                                *)
(***************************************************************************)
EXTENDS Naturals

ClientStates ==
  {"NOT_INITED", "INITED", "CONNECTING", "CONNECTED", "DISCONNECTING"}

\* PC_EV_USER_DEFINED_PUSH is left out: it is legal in every state and
\* changes nothing.
NetEvents ==
  {"CONNECTED", "CONNECT_ERROR", "CONNECT_FAILED", "DISCONNECT",
   "KICKED_BY_SERVER", "UNEXPECTED_DISCONNECT", "PROTO_ERROR"}

\* The states in which pc__trans_fire_event's assertions accept event e.
LegalIn(e) ==
  CASE e = "CONNECTED"        -> {"CONNECTING"}
    [] e \in {"CONNECT_ERROR", "CONNECT_FAILED"}
                              -> {"CONNECTING", "DISCONNECTING"}
    [] e = "DISCONNECT"       -> {"DISCONNECTING"}
    [] e = "KICKED_BY_SERVER" -> {"CONNECTED", "DISCONNECTING"}
    [] OTHER                  -> {"CONNECTING", "CONNECTED", "DISCONNECTING"}

\* Faulty: an unexpected disconnect does not lead back to CONNECTING
AfterEvent_stays(e, s) ==
  CASE e = "CONNECTED"     -> "CONNECTED"
    [] e \in {"CONNECT_FAILED", "DISCONNECT", "KICKED_BY_SERVER"}
                           -> "INITED"
    [] OTHER               -> s

\* Faulty: the end of a disconnect is not recorded
AfterEvent_noDisconnect(e, s) ==
  CASE e = "CONNECTED"     -> "CONNECTED"
    [] e \in {"CONNECT_ERROR", "DISCONNECT"} -> s
    [] e \in {"CONNECT_FAILED", "KICKED_BY_SERVER"} -> "INITED"
    [] OTHER               -> "CONNECTING"

\* The state an accepted event leaves the client in.
AfterEvent(e, s) ==
  CASE e = "CONNECTED"     -> "CONNECTED"
    [] e = "CONNECT_ERROR" -> s
    [] e \in {"CONNECT_FAILED", "DISCONNECT", "KICKED_BY_SERVER"}
                           -> "INITED"
    [] OTHER               -> "CONNECTING"
=============================================================================
