------------------------------ MODULE Dispatch ------------------------------
(***************************************************************************)
(* Messages on the main thread (oryx/MessageHandler.cpp), on top of        *)
(* PlayerManager, whose sessions they look up: the task that carries the   *)
(* bytes of a message is executed, a Packet is made of them and handed to  *)
(* the Action registered for its opcode, and the worker frees the task.    *)
(* Meanwhile sessions begin and end and players come and go.               *)
(*                                                                         *)
(* The only action of the repository is TestAction.  Others (external) may *)
(* return any result and call PlayerManager, which is the steps of         *)
(* PlayerManager here; one that returns RESULT_ASYNC_WAIT keeps the packet *)
(* and deletes it when it is finished.                                     *)
(***************************************************************************)
EXTENDS PlayerManager

CONSTANTS
    Messages,          \* the frames clients send; each is one task
    Handled,           \* opcodes with an action in m_mapFun
    Unknown,           \* opcodes without one
    MSGID_HEART_BEAT,  \* the opcode of TestAction
    NoOpcode           \* the bytes are fewer than a head

ASSUME OpcodeAssumption ==
    /\ MSGID_HEART_BEAT \in Handled
    /\ Handled \cap Unknown = {}
    /\ NoOpcode \notin Handled \cup Unknown

VARIABLES
    task,      \* task[m]: "new", "queued", "executed" or "freed"
    frame,     \* frame[m]: session and opcode
    packet,    \* packet[m]: "none", "allocated" or "freed"
    result,    \* result[m]: what processMessage() returned
    awaited    \* messages whose packet an action keeps

messageVars == <<task, frame, packet, result, awaited>>

Opcodes == Handled \cup Unknown

MainInit ==
    /\ Init
    /\ task = [m \in Messages |-> "new"]
    /\ frame \in [Messages -> [session: Sessions, opcode: Opcodes \cup {NoOpcode}]]
    /\ packet = [m \in Messages |-> "none"]
    /\ result = [m \in Messages |-> "none"]
    /\ awaited = {}

-----------------------------------------------------------------------------
(* A worker pushes the task of a frame; main may not have its session yet, *)
(* or no longer.                                                           *)
Receive(m) ==
    /\ task[m] = "new"
    /\ task' = [task EXCEPT ![m] = "queued"]
    /\ UNCHANGED <<frame, packet, result, awaited>>

(* Action::processMessage: TestAction looks the session up. *)
ActionResults(m) ==
    IF frame[m].opcode = MSGID_HEART_BEAT
    THEN {IF m_MapSessionConnInfo[frame[m].session] # NULL
          THEN "SUCCESS" ELSE "SESSION_CLOSED"}
    ELSE {"SUCCESS", "ASYNC_WAIT", "UNKNOWNMESSAGE", "PARSEERROR", "SESSION_CLOSED"}

Execute(m) ==
    /\ task[m] = "queued"
    /\ task' = [task EXCEPT ![m] = "executed"]
    /\ UNCHANGED frame

(* Fewer bytes than a head: no packet. *)
ProcessShort(m) ==
    /\ Execute(m)
    /\ frame[m].opcode = NoOpcode
    /\ result' = [result EXCEPT ![m] = "PARSEERROR"]
    /\ UNCHANGED <<packet, awaited>>

(* No action: the function returns and leaves the packet where it is. *)
ProcessUnknown(m) ==
    /\ Execute(m)
    /\ frame[m].opcode \in Unknown
    /\ packet' = [packet EXCEPT ![m] = "allocated"]
    /\ result' = [result EXCEPT ![m] = "UNKNOWNMESSAGE"]
    /\ UNCHANGED awaited

(* The packet is deleted unless the action waits for something. *)
Keeps(r) == r = "ASYNC_WAIT"

(* The action is called and the packet deleted if it may be. *)
ProcessHandled(m) ==
    /\ Execute(m)
    /\ frame[m].opcode \in Handled
    /\ \E r \in ActionResults(m) :
        /\ result' = [result EXCEPT ![m] = r]
        /\ packet' = [packet EXCEPT ![m] = IF Keeps(r) THEN "allocated" ELSE "freed"]
        /\ awaited' = IF r = "ASYNC_WAIT" THEN awaited \cup {m} ELSE awaited

(* External: the action is finished with a packet that it kept. *)
ActionFinishes(m) ==
    /\ m \in awaited
    /\ awaited' = awaited \ {m}
    /\ packet' = [packet EXCEPT ![m] = "freed"]
    /\ UNCHANGED <<task, frame, result>>

(* on_free: the worker deletes the task with its bytes. *)
OnFree(m) ==
    /\ task[m] = "executed"
    /\ task' = [task EXCEPT ![m] = "freed"]
    /\ UNCHANGED <<frame, packet, result, awaited>>

Message(m) ==
    \/ Receive(m)
    \/ ProcessShort(m) \/ ProcessUnknown(m) \/ ProcessHandled(m)
    \/ ActionFinishes(m) \/ OnFree(m)

MainNext ==
    \/ Next /\ UNCHANGED messageVars
    \/ (\E m \in Messages : Message(m)) /\ UNCHANGED vars

MainSpec == MainInit /\ [][MainNext]_<<vars, messageVars>>

=============================================================================
