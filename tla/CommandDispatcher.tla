------------------------ MODULE CommandDispatcher ------------------------
(***************************************************************************)
(* DispatchCommand (src/server/command_dispatcher.cpp), and what the RESP  *)
(* and the gRPC front end make of its result.                              *)
(*                                                                         *)
(* The server's store has no limit and neither front end sets a TTL, so a  *)
(* command's effect on it is that on a map, in one step.                   *)
(***************************************************************************)
EXTENDS RespParser

Word(w) == <<Token(w, 0)>>

\* ToUpper of a command's name.
Upper(name) ==
    CASE name = Word("get") -> Word("GET") [] name = Word("set") -> Word("SET") [] OTHER -> name

\* A CommandResult, with the store after it.  An optional is a sequence.
Result(status, value, store) == [status |-> status, value |-> value, store |-> store]

\* Mistake: the empty key is a key.
ValidKey_Any(key) == TRUE

ValidKey(key) == key # << >>

DispatchCommand(command, args, store) ==
    LET name == Upper(command)
        arity == IF name = Word("SET") THEN 2 ELSE 1
    IN  IF name \notin {Word("SET"), Word("GET")} THEN Result("kUnknownCommand", << >>, store)
        ELSE IF Len(args) # arity THEN Result("kError", << >>, store)
        ELSE IF ~ValidKey(args[1]) THEN Result("kInvalidKey", << >>, store)
        ELSE IF name = Word("SET")
          THEN Result("kOk", << >>, [k \in DOMAIN store \cup {args[1]} |->
                                       IF k = args[1] THEN args[2] ELSE store[k]])
        ELSE IF args[1] \in DOMAIN store THEN Result("kOk", <<store[args[1]]>>, store)
        ELSE Result("kNotFound", << >>, store)

\* The response of ExecuteCommand: EncodeBulkString, +OK, $-1 or -ERR.
Response(result) ==
    LET kind == CASE result.status = "kOk" /\ result.value # << >> -> "bulk"
                  [] result.status = "kOk" /\ result.value = << >> -> "ok"
                  [] result.status = "kNotFound" -> "nil"
                  [] OTHER -> "error"
    IN  [kind |-> kind, value |-> result.value]

\* CacheServiceImpl::Set and Get: the command, and the response with the status.
ServiceCommand(request) ==
    IF request.rpc = "Set" THEN [name |-> Word("SET"), args |-> <<request.key, request.value>>]
    ELSE [name |-> Word("GET"), args |-> <<request.key>>]

ServiceResponse(request, result) ==
    [code |-> IF result.status = "kInvalidKey" THEN "INVALID_ARGUMENT" ELSE "OK",
     done |-> result.status = "kOk" /\ (request.rpc = "Get" => result.value # << >>),
     value |-> result.value]

=============================================================================
