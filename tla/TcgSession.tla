----------------------------- MODULE TcgSession -----------------------------
(***************************************************************************)
(* A TCG session (CTcgSession) and the security provider of the drive it   *)
(* talks to.  Each command is sent, then its reply is polled for.  A send  *)
(* or a receive may fail, the drive may be pulled out, and the caller may  *)
(* destroy the object and make a new one; the drive keeps its session.     *)
(*                                                                         *)
(* The drive is external.  It has one session, answers each command once,  *)
(* refuses a command whose session number is not its own, and may accept   *)
(* or refuse a start that carries the number of an earlier session.        *)
(* Passwords are known by their length.                                    *)
(***************************************************************************)
EXTENDS TcgTokens, FiniteSets

CONSTANTS Passwords,   \* lengths of the passwords a caller uses
          Msid,        \* length of the default password
          Sessions,    \* session numbers the drive gives
          MaxFaults    \* bound: sends and receives that fail

ASSUME SessionAssumption ==
  /\ \A p \in Passwords : p \in Nat /\ p < 65536
  /\ Msid \in Nat /\ 0 < Msid /\ Msid < 2048
  /\ \A s \in Sessions : s \in Nat /\ 0 < s /\ s <= 2147483647
  /\ MaxFaults \in Nat

Ops == {"start", "end", "revert", "default", "setsid"}
None == -1          \* no password: NULL
NoToken == [head |-> <<>>, body |-> 0]
NoCommand == [name |-> "none", number |-> 0, token |-> NoToken]
NoReply == [status |-> "none", value |-> NoToken]
Busy == [status |-> "busy", value |-> NoToken]

VARIABLES
  alive,        \* the object exists
  connected,    \* m_base_comid is the one of the drive
  is_open, will_abort,
  number,       \* m_tsn, with m_hsn; 0 for none
  call,         \* the call being made: [op, old, new]
  pc,           \* "idle", "send", "poll" or "back"
  cmd,          \* the command of that call being sent
  resp,         \* the response buffer
  code,         \* what InvokeMethod returned
  set_code,     \* the result a call keeps while it ends its session
  last,         \* the last call that returned: [op, rc, new]
  password,     \* what GetDefaultPassword read
  link,         \* the drive is there
  session, auth, pin,   \* of the drive: its session, 0 for none
  inbox, reply, \* the command it works on, the reply it holds
  faults,
  slip          \* the host has lost a session it opened, see NoOrphan

host == <<alive, connected, is_open, will_abort, number>>
locals == <<pc, cmd, resp, code, set_code>>
calling == <<call, locals, last, password>>
drive == <<session, auth, pin, inbox, reply>>
world == <<link, faults>>
vars == <<host, calling, drive, world, slip>>

NoCall == [op |-> "none", old |-> None, new |-> None]
NoLast == [op |-> "none", rc |-> 0, new |-> None]

Init ==
  /\ alive = TRUE /\ connected \in BOOLEAN
  /\ is_open = FALSE /\ will_abort = FALSE /\ number = 0
  /\ call = NoCall /\ pc = "idle" /\ cmd = "none" /\ resp = NoReply
  /\ code = 0 /\ set_code = 0 /\ last = NoLast /\ password = None
  /\ link = TRUE /\ session = 0 /\ auth = "none"
  /\ pin = Msid
  /\ inbox = NoCommand /\ reply = NoReply
  /\ faults = 0 /\ slip = FALSE

-----------------------------------------------------------------------------
(* The public calls. *)

FirstOf(op) == IF op \in {"end", "revert"} THEN op ELSE "start"

\* EndSession sends nothing when the session is to be aborted.
Call(op, old, new) ==
  /\ alive /\ pc = "idle"
  /\ IF op = "end" /\ will_abort
     THEN /\ is_open' = FALSE
          /\ last' = [op |-> op, rc |-> 0, new |-> None]
          /\ UNCHANGED <<call, pc, cmd>>
     ELSE /\ pc' = "send" /\ cmd' = FirstOf(op)
          /\ call' = [op |-> op, old |-> old, new |-> new]
          /\ last' = NoLast
          /\ UNCHANGED is_open
  /\ password' = None
  /\ UNCHANGED <<alive, connected, will_abort, number, resp, code, set_code, drive, world, slip>>

StartSession == \E old \in Passwords \cup {Msid, None} : Call("start", old, None)
EndSession == Call("end", None, None)
Revert == Call("revert", None, None)
GetDefaultPassword == Call("default", None, None)
SetSIDPassword == \E old \in Passwords \cup {Msid}, new \in Passwords : Call("setsid", old, new)

\* The numbers are forgotten, whether or not a session is open.
Reset ==
  /\ alive /\ pc = "idle"
  /\ number' = 0 /\ will_abort' = FALSE
  /\ slip' = (slip \/ session # 0 \/ inbox.name = "start")
  /\ last' = NoLast
  /\ UNCHANGED <<alive, connected, is_open, call, locals, password, drive, world>>

\* The destructor ends the session once more if it is marked open.
Destroy ==
  /\ alive /\ pc = "idle"
  /\ IF is_open /\ ~will_abort
     THEN /\ pc' = "send" /\ cmd' = "end"
          /\ call' = [NoCall EXCEPT !.op = "destroy"]
          /\ UNCHANGED <<alive, is_open>>
     ELSE /\ alive' = FALSE /\ is_open' = FALSE
          /\ UNCHANGED <<pc, cmd, call>>
  /\ last' = NoLast /\ password' = None
  /\ UNCHANGED <<connected, will_abort, number, resp, code, set_code, drive, world, slip>>

\* That ConnectDevice fails, which leaves any ComID, is not looked at.
CreateTcgSession ==
  /\ ~alive
  /\ alive' = TRUE /\ connected' \in BOOLEAN
  /\ is_open' = FALSE /\ will_abort' = FALSE /\ number' = 0
  /\ UNCHANGED <<calling, drive, world, slip>>

-----------------------------------------------------------------------------
(* ExecSecureCommand. *)

\* The locals of a call that is over.
Idle ==
  /\ pc' = "idle" /\ call' = NoCall /\ cmd' = "none"
  /\ resp' = NoReply /\ code' = 0 /\ set_code' = 0

\* The password a command carries.
Carried == CASE cmd = "start" /\ call.op \in {"start", "setsid"} -> call.old
             [] cmd = "set" -> call.new
             [] OTHER -> None

Token(p) == IF p = None THEN NoToken ELSE StringToken(p)

CanFail == faults < MaxFaults \/ ~link \/ ~connected
Fault == faults' = IF link /\ connected THEN faults + 1 ELSE faults

\* A password that is too long ends the program.
Exit ==
  /\ pc = "send" /\ Carried # None /\ ~Writable(Carried)
  /\ alive' = FALSE /\ is_open' = FALSE
  /\ Idle
  /\ slip' = (slip \/ session # 0)
  /\ UNCHANGED <<connected, will_abort, number, last, password, drive, world>>

Ready == pc = "send" /\ (Carried = None \/ Writable(Carried))

\* The drive takes a command; a reply nobody fetched is dropped.
Deliver ==
  /\ link /\ connected /\ inbox = NoCommand
  /\ inbox' = [name |-> cmd, number |-> number, token |-> Token(Carried)]
  /\ reply' = NoReply

Send ==
  /\ Ready /\ Deliver
  /\ resp' = NoReply /\ pc' = "poll"
  /\ UNCHANGED <<host, call, cmd, code, set_code, last, password, session, auth, pin, world, slip>>

\* The drive refuses a send while it is still at work.
SendFails ==
  /\ Ready
  /\ \/ CanFail /\ Fault
     \/ inbox # NoCommand /\ UNCHANGED faults
  /\ code' = 1 /\ pc' = "back"
  /\ UNCHANGED <<host, call, cmd, resp, set_code, last, password, drive, link, slip>>

\* A send reports an error, and the drive has the command all the same.
SendMisreported ==
  /\ Ready /\ Deliver
  /\ CanFail /\ Fault
  /\ code' = 1 /\ pc' = "back"
  /\ slip' = (slip \/ cmd = "start")
  /\ UNCHANGED <<host, call, cmd, resp, set_code, last, password, session, auth, pin, link>>

\* The loop goes on while data are outstanding and none can be fetched.
Either_PollAgain(r) == TRUE
PollAgain(r) == r.status = "busy"

\* What InvokeMethod makes of the reply.
CodeOf(r) == IF r.status \in {"ok", "ended"} THEN 0 ELSE 1

Poll ==
  /\ pc = "poll" /\ link
  /\ resp' = IF reply = NoReply THEN Busy ELSE reply
  /\ reply' = NoReply
  /\ IF PollAgain(resp') THEN UNCHANGED <<pc, code>>
     ELSE pc' = "back" /\ code' = CodeOf(resp')
  /\ UNCHANGED <<host, call, cmd, set_code, last, password, session, auth, pin, inbox, world, slip>>

\* A receive that fails leaves the buffer alone: after a busy answer the loop
\* goes on, otherwise the reply is given up.
PollFails ==
  /\ pc = "poll"
  /\ CanFail /\ Fault
  /\ IF PollAgain(resp) THEN UNCHANGED <<pc, code, slip>>
     ELSE /\ pc' = "back" /\ code' = 1
          /\ slip' = (slip \/ cmd = "start")
  /\ UNCHANGED <<host, call, cmd, resp, set_code, last, password, drive, link>>

-----------------------------------------------------------------------------
(* What the call does when a command is back. *)

Back(name) == pc = "back" /\ cmd = name
Return(rc) == Idle /\ last' = [op |-> call.op, rc |-> rc, new |-> call.new]
Then(name, rc) ==
  /\ pc' = "send" /\ cmd' = name /\ set_code' = rc
  /\ UNCHANGED <<call, resp, code, last>>

StartBack ==
  /\ Back("start")
  /\ IF code # 0 THEN Return(code) /\ UNCHANGED <<is_open, number, slip>>
     ELSE /\ number' = UintOf(resp.value.head)
          /\ is_open' = TRUE
          /\ slip' = (slip \/ will_abort)
          /\ CASE call.op = "start" -> Return(0)
               [] call.op = "default" -> Then("get", 0)
               [] call.op = "setsid" -> Then("set", 0)
  /\ UNCHANGED <<alive, connected, will_abort, password, drive, world>>

\* End the session of a call that will return rc.
EndAfter(rc) ==
  IF will_abort THEN is_open' = FALSE /\ Return(rc)
                ELSE Then("end", rc) /\ UNCHANGED is_open

GetBack ==
  /\ Back("get")
  /\ IF code # 0 THEN Return(code) /\ UNCHANGED <<is_open, password>>
     ELSE password' = StringLength(resp.value) /\ EndAfter(0)
  /\ UNCHANGED <<alive, connected, will_abort, number, drive, world, slip>>

SetBack ==
  /\ Back("set")
  /\ EndAfter(code)
  /\ UNCHANGED <<alive, connected, will_abort, number, password, drive, world, slip>>

\* The session stays marked open, whatever the drive said.
Closed_OpenAfterEnd(open) == FALSE
OpenAfterEnd(open) == open

EndBack ==
  /\ Back("end")
  /\ IF call.op = "destroy"
     THEN /\ alive' = FALSE /\ is_open' = FALSE
          /\ Idle /\ UNCHANGED last
          /\ slip' = (slip \/ code # 0)
     ELSE /\ is_open' = OpenAfterEnd(is_open)
          /\ Return(IF call.op = "end" THEN code ELSE set_code)
          /\ UNCHANGED <<alive, slip>>
  /\ UNCHANGED <<connected, will_abort, number, password, drive, world>>

\* The session counts as aborted even if the drive refused the revert.
RevertBack ==
  /\ Back("revert")
  /\ will_abort' = TRUE
  /\ slip' = (slip \/ session # 0)
  /\ Return(code)
  /\ UNCHANGED <<alive, connected, is_open, number, password, drive, world>>

-----------------------------------------------------------------------------
(* The drive. *)

Answer(status, value) == reply' = [status |-> status, value |-> value] /\ inbox' = NoCommand
Refuse == Answer("refused", NoToken) /\ UNCHANGED <<session, auth, pin>>

AuthOf(token) == IF token = NoToken THEN "anybody" ELSE "sid"
Admits(token) == token # NoToken => StringLength(token) = pin

OpenSession ==
  /\ inbox.name = "start" /\ session = 0 /\ Admits(inbox.token)
  /\ session' \in Sessions
  /\ auth' = AuthOf(inbox.token)
  /\ Answer("ok", [NoToken EXCEPT !.head = IntToken(session')])
  /\ UNCHANGED pin

InSession(name) == inbox.name = name /\ session # 0 /\ inbox.number = session

GetPin ==
  /\ InSession("get")
  /\ Answer("ok", StringToken(Msid))
  /\ UNCHANGED <<session, auth, pin>>

SetPin ==
  /\ InSession("set") /\ auth = "sid"
  /\ pin' = StringLength(inbox.token)
  /\ Answer("ok", NoToken)
  /\ UNCHANGED <<session, auth>>

CloseSession ==
  /\ InSession("end")
  /\ session' = 0 /\ auth' = "none"
  /\ Answer("ended", NoToken)
  /\ UNCHANGED pin

RevertTPer ==
  /\ InSession("revert") /\ auth = "sid"
  /\ session' = 0 /\ auth' = "none" /\ pin' = Msid
  /\ Answer("ok", NoToken)

\* A status, a reply without one, or an empty one.
RefuseCommand ==
  /\ inbox.name \in {"start", "get", "set", "revert"} \/ (inbox # NoCommand /\ ~InSession(inbox.name))
  /\ Refuse

DriveStep == OpenSession \/ GetPin \/ SetPin \/ CloseSession \/ RevertTPer \/ RefuseCommand
Execute == link /\ DriveStep /\ UNCHANGED <<host, calling, world, slip>>

PullOut == link /\ link' = FALSE /\ UNCHANGED <<host, calling, drive, faults, slip>>

-----------------------------------------------------------------------------

InCall == Exit \/ Send \/ SendFails \/ SendMisreported \/ Poll \/ PollFails
          \/ StartBack \/ GetBack \/ SetBack \/ EndBack \/ RevertBack

Next ==
  \/ StartSession \/ EndSession \/ Revert \/ GetDefaultPassword \/ SetSIDPassword
  \/ Reset \/ Destroy \/ CreateTcgSession
  \/ InCall
  \/ Execute \/ PullOut

\* The thread that made a call goes on with it, and a drive that is there
\* answers.
Fairness == WF_vars(InCall) /\ WF_vars(Execute)

Spec == Init /\ [][Next]_vars /\ Fairness

-----------------------------------------------------------------------------

\* What a password is on the drive: the empty one is a zero byte.
OnDrive(p) == IF p = 0 THEN 1 ELSE p

\* A call that returns 0 has done its work on the drive: the session is open
\* under the number the host knows, or closed; the default password was read as
\* it is; the PIN is the new password, or the default one again.
SuccessIsDone ==
  (pc = "idle" /\ last.rc = 0) =>
    /\ last.op = "start" => session # 0 /\ session = number
    /\ last.op = "end" => session = 0 \/ will_abort
    /\ last.op = "default" => password = Msid
    /\ last.op = "setsid" => pin = OnDrive(last.new)
    /\ last.op = "revert" => session = 0 /\ pin = Msid

\* Between calls a session that is open on the drive is known to the object,
\* which is marked open, so that the destructor ends it.  The host loses a
\* session only where slip is set: a start failed that the drive carried out, the object
\* was reset or a revert failed under an open session, a session was started
\* after a revert, or the destructor's own EndSession failed.
NoOrphan ==
  pc = "idle" => slip \/ session = 0 \/ (alive /\ is_open /\ ~will_abort /\ number = session)

\* Every call returns, unless the drive is pulled out after it answered busy:
\* the loop then goes on for ever.
CallsReturn == [](pc # "idle" => <>(pc = "idle" \/ (~link /\ PollAgain(resp))))

=============================================================================
