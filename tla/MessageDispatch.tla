--------------------------- MODULE MessageDispatch ---------------------------
(***************************************************************************)
(* agent-kernel/src/mxp_handlers.rs: dispatch_message calls the handler's  *)
(* method for the type of a message.  A method that the handler does not   *)
(* implement answers Unsupported; a message without a type has no method.  *)
(***************************************************************************)
CONSTANT Implemented   \* the types whose methods the handler overrides

MessageTypes ==
  {"AgentRegister", "AgentDiscover", "AgentHeartbeat", "Call", "Response", "Event",
   "StreamOpen", "StreamChunk", "StreamClose", "Ack", "Error"}

NoType == "none"       \* HandlerContext::message_type is an error

DispatchAssumption == Implemented \subseteq MessageTypes

Dispatch(type) ==
  CASE type = NoType -> "missing_type"
    [] type \in Implemented -> "handler"
    [] type \in MessageTypes \ Implemented -> "unsupported"
=============================================================================
