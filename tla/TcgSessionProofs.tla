--------------------------- MODULE TcgSessionProofs -------------------------
(***************************************************************************)
(* What TLAPS proves about TcgSession and the tokens it sends, for every   *)
(* set of passwords and of session numbers, every default password and any *)
(* number of sends and receives that fail.                                 *)
(***************************************************************************)
EXTENDS TcgSession, TLAPS

-----------------------------------------------------------------------------
(* Tokens. *)

LEMMA Forms ==
  ASSUME NEW n \in Nat
  PROVE  /\ n < 64 => IntToken(n) = Tiny(n)
         /\ n >= 64 /\ n < 256 => IntToken(n) = Short1(n)
         /\ n >= 256 /\ n < 65536 => IntToken(n) = Short2(n)
         /\ n >= 65536 => IntToken(n) = Short4(n)
BY SMT DEF IntToken

\* An integer of 32 bits is read back as it was written, whatever the form
\* addToken chose for it.
THEOREM IntegersReadBack ==
  ASSUME NEW n \in Nat, n < 4294967296
  PROVE  UintOf(IntToken(n)) = n
<1>1. CASE n < 64
  <2>1. n % 64 = n
    BY <1>1, SMT
  <2>2. UintOf(Tiny(n)) = n % 64
    BY SMT DEF UintOf, Tiny
  <2> QED BY <1>1, <2>1, <2>2, Forms, SMT
<1>2. CASE n >= 64 /\ n < 256
  <2>1. UintOf(Short1(n)) = n
    BY SMT DEF UintOf, Short1
  <2> QED BY <1>2, <2>1, Forms, SMT
<1>3. CASE n >= 256 /\ n < 65536
  <2>1. UintOf(Short2(n)) = n
    BY SMT DEF UintOf, Short2
  <2> QED BY <1>3, <2>1, Forms, SMT
<1>4. CASE n >= 65536
  <2>1. /\ Len(Short4(n)) = 5
        /\ Short4(n)[2] = n \div 16777216 /\ Short4(n)[3] = (n \div 65536) % 256
        /\ Short4(n)[4] = (n \div 256) % 256 /\ Short4(n)[5] = n % 256
    BY SMT DEF Short4
  <2>2. UintOf(Short4(n)) = (n \div 16777216) * 16777216 + ((n \div 65536) % 256) * 65536
                              + ((n \div 256) % 256) * 256 + (n % 256)
    BY <2>1, SMT DEF UintOf
  <2>3. n = (n \div 16777216) * 16777216 + ((n \div 65536) % 256) * 65536
              + ((n \div 256) % 256) * 256 + (n % 256)
    BY SMT
  <2>4. UintOf(Short4(n)) = n
    BY <2>2, <2>3, SMT
  <2> QED BY <1>4, <2>4, Forms, SMT
<1> QED BY <1>1, <1>2, <1>3, <1>4, SMT

\* A byte string that can be written at all is read back with its length; the
\* empty one as one byte.
THEOREM StringsReadBack ==
  ASSUME NEW n \in Nat, n < 65536, Writable(n)
  PROVE  StringLength(StringToken(n)) = OnDrive(n)
<1>1. Length16(n) = n /\ n < 2048
  BY SMT DEF Length16, Writable
<1> DEFINE h == StringToken(n).head
<1>2. CASE n = 0
  <2>1. h[1] = 161
    BY <1>1, <1>2, SMT DEF StringToken
  <2>2. TokenLength(h) = 2 /\ Overhead(h) = 1
    BY <2>1, SMT DEF TokenLength, Overhead
  <2> QED BY <1>2, <2>2, SMT DEF StringLength, OnDrive
<1>3. CASE n > 0 /\ n < 16
  <2>1. h[1] = 160 + n
    BY <1>1, <1>3, SMT DEF StringToken
  <2>2. (160 + n) % 16 = n
    BY <1>3, SMT
  <2>3. TokenLength(h) = n + 1 /\ Overhead(h) = 1
    BY <1>3, <2>1, <2>2, SMT DEF TokenLength, Overhead
  <2> QED BY <1>3, <2>3, SMT DEF StringLength, OnDrive
<1>4. CASE n > 15
  <2>1. h = <<208 + ((n \div 256) % 8), n % 256>>
    BY <1>1, <1>4, SMT DEF StringToken
  <2>2. /\ n \div 256 >= 0 /\ n \div 256 < 8 /\ (n \div 256) % 8 = n \div 256
        /\ (208 + (n \div 256)) % 8 = n \div 256
        /\ n = (n \div 256) * 256 + (n % 256)
    BY <1>1, <1>4, SMT
  <2>3. h[1] = 208 + (n \div 256) /\ h[2] = n % 256
    BY <2>1, <2>2, SMT
  <2>4. TokenLength(h) = n + 2 /\ Overhead(h) = 2
    <3> HIDE DEF h
    <3> DEFINE q == n \div 256
    <3>1. q \in Int /\ q >= 0 /\ q < 8 /\ h[1] = 208 + q /\ (208 + q) % 8 = q
      BY <2>2, <2>3, SMT
    <3> HIDE DEF q
    <3>2. TokenLength(h) = q * 256 + h[2] + 2 /\ Overhead(h) = 2
      BY <3>1, SMT DEF TokenLength, Overhead
    <3> QED BY <2>2, <2>3, <3>2, SMT DEF q
  <2> QED BY <1>4, <2>4, SMT DEF StringLength, OnDrive
<1> QED BY <1>2, <1>3, <1>4, SMT

LEMMA MsidReadsBack == StringLength(StringToken(Msid)) = Msid
<1>1. Msid \in Nat /\ Msid < 65536 /\ Writable(Msid) /\ OnDrive(Msid) = Msid
  BY SessionAssumption, SMT DEF Writable, Length16, OnDrive
<1> QED BY <1>1, StringsReadBack, SMT

LEMMA SessionReadsBack ==
  ASSUME NEW s \in Sessions PROVE s # 0 /\ UintOf(IntToken(s)) = s
<1>1. s \in Nat /\ s < 4294967296 /\ s # 0
  BY SessionAssumption, SMT
<1> QED BY <1>1, IntegersReadBack, SMT

-----------------------------------------------------------------------------
(* The invariant. *)

\* The commands a call may be at.
CommandsOf(op) ==
  CASE op = "default" -> {"start", "get", "end"}
    [] op = "setsid" -> {"start", "set", "end"}
    [] op = "destroy" -> {"end"}
    [] OTHER -> {op}

\* A call has its arguments, and one of its commands under way.
CallInv ==
  /\ call \in [op : Ops \cup {"destroy", "none"}, old : Int, new : Int]
  /\ session \in Sessions \cup {0}
  /\ pc \in {"idle", "send", "poll", "back"}
  /\ IF pc = "idle" THEN call = NoCall /\ cmd = "none"
     ELSE /\ alive /\ last = NoLast
          /\ call.op # "none" /\ cmd \in CommandsOf(call.op)
          /\ call.new \in IF call.op = "setsid" THEN Passwords ELSE {None}
  /\ ~alive => last = NoLast

\* The drive has the command that is polled for, and has not answered it.
Sent ==
  /\ inbox = [name |-> cmd, number |-> number, token |-> Token(Carried)]
  /\ Carried # None => Writable(Carried)
  /\ reply = NoReply

Succeeded(r) == r.status \in {"ok", "ended"}

\* What it means for the drive that it answered the command with success.
Effect(r) ==
  Succeeded(r) =>
    /\ cmd = "start" => session # 0 /\ r.value.head = IntToken(session)
    /\ cmd = "get" => r.value = StringToken(Msid)
    /\ cmd = "set" => pin = OnDrive(call.new)
    /\ cmd = "end" => session = 0
    /\ cmd = "revert" => session = 0 /\ pin = Msid

Answered(r) == inbox = NoCommand /\ r.status \in {"ok", "ended", "refused"} /\ Effect(r)

\* A reply that is waited for, or was fetched, belongs to the command: no
\* earlier command is still with the drive then.
ExchangeInv ==
  /\ pc = "poll" => resp.status \in {"none", "busy"} /\ (Sent \/ Answered(reply))
  /\ pc = "back" /\ code = 0 => Succeeded(resp) /\ Answered(resp)

\* What a call has done stays done while it ends its session.
KeptInv ==
  cmd = "end" =>
    /\ call.op = "default" => password = Msid
    /\ call.op = "setsid" /\ set_code = 0 =>
         pin = OnDrive(call.new) /\ inbox.name \in {"none", "end"}

\* SuccessIsDone, and that no command left with the drive can undo it.
DoneInv ==
  (pc = "idle" /\ last.rc = 0) =>
    /\ last.op = "start" => session # 0 /\ session = number /\ inbox.name = "none"
    /\ last.op = "end" => (session = 0 /\ inbox.name = "none") \/ will_abort
    /\ last.op = "default" => password = Msid
    /\ last.op = "setsid" => pin = OnDrive(last.new) /\ inbox.name \in {"none", "end"}
    /\ last.op = "revert" => session = 0 /\ pin = Msid /\ inbox.name = "none"

\* The host knows the session of the drive, or is about to learn of it.
Owned == alive /\ is_open /\ ~will_abort /\ number = session
Opening == cmd = "start" /\ \/ pc = "poll" /\ Succeeded(reply)
                            \/ pc = "back" /\ code = 0
OwnedInv ==
  \/ slip
  \/ /\ session = 0 \/ Owned \/ Opening
     /\ inbox.name = "start" => pc = "poll" /\ cmd = "start"

IInv == CallInv /\ ExchangeInv /\ KeptInv /\ DoneInv /\ OwnedInv

LEMMA InvInit == Init => IInv
<1> SUFFICES ASSUME Init PROVE IInv
  OBVIOUS
<1>1. CallInv
  BY DEF Init, CallInv, NoCall, None
<1>2. ExchangeInv /\ KeptInv /\ DoneInv /\ OwnedInv
  BY DEF Init, ExchangeInv, KeptInv, DoneInv, OwnedInv, NoLast, NoCommand
<1> QED BY <1>1, <1>2 DEF IInv

-----------------------------------------------------------------------------
(* The public calls. *)

LEMMA CallStep ==
  ASSUME IInv, NEW op \in Ops, NEW old \in Int, NEW new \in Int,
         new \in IF op = "setsid" THEN Passwords ELSE {None},
         Call(op, old, new)
  PROVE  IInv'
<1>1. /\ UNCHANGED <<alive, connected, will_abort, number, resp, code, set_code,
                     session, auth, pin, inbox, reply, slip>>
      /\ alive /\ pc = "idle"
  BY DEF Call, drive
<1>2. CASE /\ op = "end" /\ will_abort
           /\ is_open' = FALSE /\ last' = [op |-> op, rc |-> 0, new |-> None]
           /\ UNCHANGED <<call, pc, cmd>>
  <2>1. CallInv' /\ ExchangeInv' /\ KeptInv'
    BY <1>1, <1>2 DEF IInv, CallInv, ExchangeInv, KeptInv, NoCall
  <2>2. DoneInv'
    BY <1>1, <1>2 DEF DoneInv
  <2>3. OwnedInv'
    BY <1>1, <1>2 DEF IInv, OwnedInv, Owned, Opening
  <2> QED BY <2>1, <2>2, <2>3 DEF IInv
<1>3. CASE /\ ~(op = "end" /\ will_abort)
           /\ pc' = "send" /\ cmd' = FirstOf(op)
           /\ call' = [op |-> op, old |-> old, new |-> new]
           /\ last' = NoLast /\ UNCHANGED is_open
  <2>1. cmd' \in CommandsOf(op) /\ (cmd' = "end" => op = "end")
    BY <1>3 DEF FirstOf, CommandsOf, Ops
  <2>2. CallInv'
    BY <1>1, <1>3, <2>1 DEF IInv, CallInv, Ops
  <2>3. ExchangeInv' /\ KeptInv' /\ DoneInv'
    BY <1>1, <1>3, <2>1 DEF ExchangeInv, KeptInv, DoneInv
  <2>4. OwnedInv'
    BY <1>1, <1>3 DEF IInv, OwnedInv, Owned, Opening
  <2> QED BY <2>2, <2>3, <2>4 DEF IInv
<1> QED BY <1>2, <1>3 DEF Call

LEMMA PublicStep ==
  IInv /\ (StartSession \/ EndSession \/ Revert \/ GetDefaultPassword \/ SetSIDPassword) => IInv'
<1> SUFFICES ASSUME IInv,
                    StartSession \/ EndSession \/ Revert \/ GetDefaultPassword \/ SetSIDPassword
             PROVE  IInv'
  OBVIOUS
<1>1. /\ None \in Int /\ Passwords \cup {Msid, None} \subseteq Int /\ Passwords \subseteq Int
      /\ {"start", "end", "revert", "default", "setsid"} = Ops
  BY SessionAssumption, SMT DEF None, Ops
<1>2. CASE StartSession
  BY <1>1, <1>2, CallStep DEF StartSession
<1>3. CASE EndSession
  BY <1>1, <1>3, CallStep DEF EndSession
<1>4. CASE Revert
  BY <1>1, <1>4, CallStep DEF Revert
<1>5. CASE GetDefaultPassword
  BY <1>1, <1>5, CallStep DEF GetDefaultPassword
<1>6. CASE SetSIDPassword
  BY <1>1, <1>6, CallStep DEF SetSIDPassword
<1> QED BY <1>2, <1>3, <1>4, <1>5, <1>6

LEMMA ResetStep == IInv /\ Reset => IInv'
<1> SUFFICES ASSUME IInv, Reset PROVE IInv'
  OBVIOUS
<1>1. /\ UNCHANGED <<alive, connected, is_open, call, pc, cmd, resp, code, set_code, password,
                     session, auth, pin, inbox, reply>>
      /\ alive /\ pc = "idle" /\ last' = NoLast
      /\ slip' = (slip \/ session # 0 \/ inbox.name = "start")
  BY DEF Reset, locals, drive
<1>2. CallInv' /\ ExchangeInv' /\ KeptInv' /\ DoneInv'
  BY <1>1 DEF IInv, CallInv, ExchangeInv, KeptInv, DoneInv, NoLast, NoCall
<1>3. OwnedInv'
  BY <1>1 DEF OwnedInv
<1> QED BY <1>2, <1>3 DEF IInv

LEMMA DestroyStep == IInv /\ Destroy => IInv'
<1> SUFFICES ASSUME IInv, Destroy PROVE IInv'
  OBVIOUS
<1>1. /\ UNCHANGED <<connected, will_abort, number, resp, code, set_code,
                     session, auth, pin, inbox, reply, slip>>
      /\ alive /\ pc = "idle" /\ last' = NoLast
  BY DEF Destroy, drive
<1>2. CASE /\ pc' = "send" /\ cmd' = "end"
           /\ call' = [NoCall EXCEPT !.op = "destroy"] /\ UNCHANGED <<alive, is_open>>
  <2>1. call' = [op |-> "destroy", old |-> None, new |-> None]
    BY <1>2 DEF NoCall
  <2>2. CallInv'
    BY <1>1, <1>2, <2>1 DEF IInv, CallInv, CommandsOf, None
  <2>3. ExchangeInv' /\ KeptInv' /\ DoneInv'
    BY <1>1, <1>2, <2>1 DEF ExchangeInv, KeptInv, DoneInv
  <2>4. OwnedInv'
    BY <1>1, <1>2 DEF IInv, OwnedInv, Owned, Opening
  <2> QED BY <2>2, <2>3, <2>4 DEF IInv
<1>3. CASE /\ ~(is_open /\ ~will_abort)
           /\ alive' = FALSE /\ is_open' = FALSE /\ UNCHANGED <<pc, cmd, call>>
  <2>1. CallInv' /\ ExchangeInv' /\ KeptInv' /\ DoneInv'
    BY <1>1, <1>3 DEF IInv, CallInv, ExchangeInv, KeptInv, DoneInv, NoLast, NoCall
  <2>2. OwnedInv'
    BY <1>1, <1>3 DEF IInv, OwnedInv, Owned, Opening
  <2> QED BY <2>1, <2>2 DEF IInv
<1> QED BY <1>2, <1>3 DEF Destroy

LEMMA CreateStep == IInv /\ CreateTcgSession => IInv'
<1> SUFFICES ASSUME IInv, CreateTcgSession PROVE IInv'
  OBVIOUS
<1>1. /\ UNCHANGED <<call, pc, cmd, resp, code, set_code, last, password,
                     session, auth, pin, inbox, reply, slip>>
      /\ ~alive /\ alive'
  BY DEF CreateTcgSession, calling, locals, drive
<1>2. pc = "idle" /\ last = NoLast
  BY <1>1 DEF IInv, CallInv
<1>3. CallInv' /\ ExchangeInv' /\ KeptInv' /\ DoneInv'
  BY <1>1, <1>2 DEF IInv, CallInv, ExchangeInv, KeptInv, DoneInv, NoLast, NoCall
<1>4. OwnedInv'
  BY <1>1, <1>2 DEF IInv, OwnedInv, Owned, Opening
<1> QED BY <1>3, <1>4 DEF IInv

-----------------------------------------------------------------------------
(* ExecSecureCommand. *)

LEMMA ExitStep == IInv /\ Exit => IInv'
<1> SUFFICES ASSUME IInv, Exit PROVE IInv'
  OBVIOUS
<1>1. /\ UNCHANGED <<connected, will_abort, number, last, password,
                     session, auth, pin, inbox, reply>>
      /\ pc = "send" /\ pc' = "idle" /\ call' = NoCall /\ cmd' = "none"
      /\ slip' = (slip \/ session # 0)
  BY DEF Exit, Idle, drive
<1>2. last = NoLast
  BY <1>1 DEF IInv, CallInv
<1>3. CallInv' /\ ExchangeInv' /\ KeptInv' /\ DoneInv'
  BY <1>1, <1>2 DEF IInv, CallInv, ExchangeInv, KeptInv, DoneInv, NoLast, NoCall, None
<1>4. OwnedInv'
  BY <1>1 DEF IInv, OwnedInv
<1> QED BY <1>3, <1>4 DEF IInv

LEMMA SendStep == IInv /\ Send => IInv'
<1> SUFFICES ASSUME IInv, Send PROVE IInv'
  OBVIOUS
<1>1. /\ UNCHANGED <<alive, connected, is_open, will_abort, number, call, cmd, code, set_code,
                     last, password, session, auth, pin, slip>>
      /\ pc = "send" /\ pc' = "poll" /\ inbox = NoCommand
      /\ inbox' = [name |-> cmd, number |-> number, token |-> Token(Carried)]
      /\ reply' = NoReply /\ resp' = NoReply
      /\ Carried # None => Writable(Carried)
  BY DEF Send, Deliver, Ready, host
<1>2. Carried' = Carried
  BY <1>1 DEF Carried
<1>3. CallInv' /\ DoneInv'
  BY <1>1 DEF IInv, CallInv, DoneInv
<1>4. ExchangeInv'
  BY <1>1, <1>2 DEF ExchangeInv, Sent, NoReply
<1>5. KeptInv'
  BY <1>1 DEF IInv, KeptInv
<1>6. OwnedInv'
  BY <1>1 DEF IInv, OwnedInv, Owned, Opening
<1> QED BY <1>3, <1>4, <1>5, <1>6 DEF IInv

LEMMA SendFailsStep == IInv /\ SendFails => IInv'
<1> SUFFICES ASSUME IInv, SendFails PROVE IInv'
  OBVIOUS
<1>1. /\ UNCHANGED <<alive, connected, is_open, will_abort, number, call, cmd, resp, set_code,
                     last, password, session, auth, pin, inbox, reply, slip>>
      /\ pc = "send" /\ pc' = "back" /\ code' = 1
  BY DEF SendFails, Ready, host, drive
<1>2. CallInv' /\ ExchangeInv' /\ KeptInv' /\ DoneInv'
  BY <1>1 DEF IInv, CallInv, ExchangeInv, KeptInv, DoneInv
<1>3. OwnedInv'
  BY <1>1 DEF IInv, OwnedInv, Owned, Opening
<1> QED BY <1>2, <1>3 DEF IInv

LEMMA SendMisreportedStep == IInv /\ SendMisreported => IInv'
<1> SUFFICES ASSUME IInv, SendMisreported PROVE IInv'
  OBVIOUS
<1>1. /\ UNCHANGED <<alive, connected, is_open, will_abort, number, call, cmd, resp, set_code,
                     last, password, session, auth, pin>>
      /\ pc = "send" /\ pc' = "back" /\ code' = 1 /\ inbox = NoCommand
      /\ inbox' = [name |-> cmd, number |-> number, token |-> Token(Carried)]
      /\ slip' = (slip \/ cmd = "start")
  BY DEF SendMisreported, Deliver, Ready, host
<1>2. CallInv' /\ ExchangeInv' /\ KeptInv' /\ DoneInv'
  BY <1>1 DEF IInv, CallInv, ExchangeInv, KeptInv, DoneInv
<1>3. OwnedInv'
  BY <1>1 DEF IInv, OwnedInv, Owned, Opening
<1> QED BY <1>2, <1>3 DEF IInv

LEMMA PollStep == IInv /\ Poll => IInv'
<1> SUFFICES ASSUME IInv, Poll PROVE IInv'
  OBVIOUS
<1>1. /\ UNCHANGED <<alive, connected, is_open, will_abort, number, call, cmd, set_code,
                     last, password, session, auth, pin, inbox, slip>>
      /\ pc = "poll" /\ reply' = NoReply
      /\ resp' = IF reply = NoReply THEN Busy ELSE reply
  BY DEF Poll, host, world
<1>2. CASE Sent
  <2>1. resp' = Busy /\ UNCHANGED <<pc, code, reply>>
    BY <1>1, <1>2 DEF Sent, Poll, PollAgain, Busy
  <2>2. Carried' = Carried
    BY <1>1 DEF Carried
  <2>3. CallInv' /\ KeptInv' /\ DoneInv'
    BY <1>1, <2>1 DEF IInv, CallInv, KeptInv, DoneInv
  <2>4. ExchangeInv'
    BY <1>1, <1>2, <2>1, <2>2 DEF ExchangeInv, Sent, Busy
  <2>5. OwnedInv'
    BY <1>1, <2>1 DEF IInv, OwnedInv, Owned, Opening
  <2> QED BY <2>3, <2>4, <2>5 DEF IInv
<1>3. CASE Answered(reply)
  <2>1. resp' = reply /\ pc' = "back" /\ code' = CodeOf(reply)
    BY <1>1, <1>3 DEF Answered, Poll, PollAgain, NoReply
  <2>2. code' = 0 <=> Succeeded(reply)
    BY <2>1 DEF CodeOf, Succeeded
  <2>3. CallInv' /\ KeptInv' /\ DoneInv'
    BY <1>1, <2>1 DEF IInv, CallInv, KeptInv, DoneInv
  <2>4. ExchangeInv'
    BY <1>1, <1>3, <2>1, <2>2 DEF ExchangeInv, Answered, Effect, Succeeded
  <2>5. OwnedInv'
    BY <1>1, <1>3, <2>1, <2>2 DEF IInv, OwnedInv, Owned, Opening, Answered, NoCommand
  <2> QED BY <2>3, <2>4, <2>5 DEF IInv
<1> QED BY <1>1, <1>2, <1>3 DEF IInv, ExchangeInv

LEMMA PollFailsStep == IInv /\ PollFails => IInv'
<1> SUFFICES ASSUME IInv, PollFails PROVE IInv'
  OBVIOUS
<1>1. /\ UNCHANGED <<alive, connected, is_open, will_abort, number, call, cmd, resp, set_code,
                     last, password, session, auth, pin, inbox, reply>>
      /\ pc = "poll"
  BY DEF PollFails, host, drive
<1>2. CASE UNCHANGED <<pc, code, slip>>
  <2>1. Carried' = Carried
    BY <1>1 DEF Carried
  <2>2. CallInv' /\ KeptInv' /\ DoneInv'
    BY <1>1, <1>2 DEF IInv, CallInv, KeptInv, DoneInv
  <2>3. ExchangeInv'
    BY <1>1, <1>2, <2>1 DEF IInv, ExchangeInv, Sent, Answered, Effect
  <2>4. OwnedInv'
    BY <1>1, <1>2 DEF IInv, OwnedInv, Owned, Opening
  <2> QED BY <2>2, <2>3, <2>4 DEF IInv
<1>3. CASE pc' = "back" /\ code' = 1 /\ slip' = (slip \/ cmd = "start")
  <2>1. CallInv' /\ ExchangeInv' /\ KeptInv' /\ DoneInv'
    BY <1>1, <1>3 DEF IInv, CallInv, ExchangeInv, KeptInv, DoneInv
  <2>2. OwnedInv'
    BY <1>1, <1>3 DEF IInv, OwnedInv, Owned, Opening
  <2> QED BY <2>1, <2>2 DEF IInv
<1> QED BY <1>2, <1>3 DEF PollFails

-----------------------------------------------------------------------------
(* What a call does when a command is back. *)

\* Which call a command can belong to.
LEMMA CallOf ==
  CallInv /\ pc # "idle" =>
    /\ cmd = "start" => call.op \in {"start", "default", "setsid"}
    /\ cmd = "get" => call.op = "default"
    /\ cmd = "set" => call.op = "setsid"
    /\ cmd = "end" => call.op \in {"end", "default", "setsid", "destroy"}
    /\ cmd = "revert" => call.op = "revert"
BY DEF CallInv, CommandsOf, Ops

\* A call that returns leaves nothing of its own behind.
LEMMA ReturnStep ==
  ASSUME IInv, NEW rc, Return(rc), alive' = alive, pc # "idle", UNCHANGED session
  PROVE  /\ CallInv' /\ ExchangeInv' /\ KeptInv'
         /\ pc' = "idle" /\ cmd' = "none"
         /\ last' = [op |-> call.op, rc |-> rc, new |-> call.new]
<1>1. /\ pc' = "idle" /\ call' = NoCall /\ cmd' = "none" /\ alive'
      /\ last' = [op |-> call.op, rc |-> rc, new |-> call.new]
  BY DEF Return, Idle, IInv, CallInv
<1> QED BY <1>1 DEF IInv, CallInv, ExchangeInv, KeptInv, NoCall, None

LEMMA StartBackStep == IInv /\ StartBack => IInv'
<1> SUFFICES ASSUME IInv, StartBack PROVE IInv'
  OBVIOUS
<1>1. /\ UNCHANGED <<alive, connected, will_abort, password, session, auth, pin, inbox, reply>>
      /\ pc = "back" /\ cmd = "start" /\ alive
      /\ call.op \in {"start", "default", "setsid"}
  BY CallOf DEF StartBack, Back, drive, IInv, CallInv
<1>2. CASE code # 0
  <2>1. Return(code) /\ UNCHANGED <<is_open, number, slip>>
    BY <1>2 DEF StartBack
  <2>2. DoneInv' /\ OwnedInv'
    BY <1>1, <1>2, <2>1, ReturnStep DEF IInv, DoneInv, OwnedInv, Owned, Opening
  <2> QED BY <1>1, <2>1, <2>2, ReturnStep DEF IInv
<1>3. CASE code = 0
  <2>1. /\ number' = UintOf(resp.value.head) /\ is_open' = TRUE
        /\ slip' = (slip \/ will_abort)
    BY <1>3 DEF StartBack
  <2>2. inbox = NoCommand /\ session # 0 /\ number' = session
    <3>1. inbox = NoCommand /\ session # 0 /\ resp.value.head = IntToken(session)
      BY <1>1, <1>3 DEF IInv, ExchangeInv, Answered, Effect
    <3>2. session \in Sessions
      BY <3>1 DEF IInv, CallInv
    <3> QED BY <2>1, <3>1, <3>2, SessionReadsBack
  <2>3. OwnedInv'
    BY <1>1, <2>1, <2>2 DEF OwnedInv, Owned, NoCommand
  <2>4. CASE call.op = "start"
    <3>1. Return(0)
      BY <1>3, <2>4 DEF StartBack
    <3>2. DoneInv'
      BY <1>1, <2>2, <2>4, <3>1, ReturnStep DEF DoneInv, NoCommand
    <3> QED BY <1>1, <2>3, <3>1, <3>2, ReturnStep DEF IInv
  <2>5. CASE call.op \in {"default", "setsid"}
    <3>1. /\ pc' = "send" /\ cmd' = IF call.op = "default" THEN "get" ELSE "set"
          /\ UNCHANGED <<call, resp, code, last>>
      BY <1>3, <2>5 DEF StartBack, Then
    <3>2. CallInv'
      BY <1>1, <2>5, <3>1 DEF IInv, CallInv, CommandsOf
    <3>3. ExchangeInv' /\ KeptInv' /\ DoneInv'
      BY <3>1 DEF ExchangeInv, KeptInv, DoneInv
    <3> QED BY <2>3, <3>2, <3>3 DEF IInv
  <2> QED BY <1>1, <2>4, <2>5
<1> QED BY <1>2, <1>3

\* The session is ended, or the object only marked closed.
LEMMA EndAfterStep ==
  ASSUME IInv, NEW rc, EndAfter(rc), pc = "back", cmd \in {"get", "set"},
         UNCHANGED <<alive, will_abort, number, session, auth, pin, inbox, reply, slip>>,
         call.op = "default" => password' = Msid,
         call.op = "setsid" /\ rc = 0 => pin = OnDrive(call.new) /\ inbox = NoCommand
  PROVE  IInv'
<1>1. alive /\ call.op \in {"default", "setsid"}
  BY CallOf DEF IInv, CallInv
<1>2. OwnedInv'
  BY DEF IInv, OwnedInv, Owned, Opening, EndAfter, Return, Idle, Then
<1>3. CASE will_abort
  <2>1. Return(rc)
    BY <1>3 DEF EndAfter
  <2>2. DoneInv'
    BY <1>1, <2>1, ReturnStep DEF DoneInv, NoCommand
  <2> QED BY <1>2, <2>1, <2>2, ReturnStep DEF IInv
<1>4. CASE ~will_abort
  <2>1. pc' = "send" /\ cmd' = "end" /\ set_code' = rc /\ UNCHANGED <<call, resp, code, last>>
    BY <1>4 DEF EndAfter, Then
  <2>2. CallInv'
    BY <1>1, <2>1 DEF IInv, CallInv, CommandsOf
  <2>3. ExchangeInv' /\ KeptInv' /\ DoneInv'
    BY <2>1 DEF ExchangeInv, KeptInv, DoneInv, NoCommand
  <2> QED BY <1>2, <2>2, <2>3 DEF IInv
<1> QED BY <1>3, <1>4

LEMMA GetBackStep == IInv /\ GetBack => IInv'
<1> SUFFICES ASSUME IInv, GetBack PROVE IInv'
  OBVIOUS
<1>1. /\ UNCHANGED <<alive, will_abort, number, session, auth, pin, inbox, reply, slip>>
      /\ pc = "back" /\ cmd = "get" /\ call.op = "default"
  BY CallOf DEF GetBack, Back, drive, IInv
<1>2. CASE code # 0
  <2>1. Return(code) /\ UNCHANGED is_open
    BY <1>2 DEF GetBack
  <2>2. DoneInv' /\ OwnedInv'
    BY <1>1, <1>2, <2>1, ReturnStep DEF IInv, DoneInv, OwnedInv, Owned, Opening
  <2> QED BY <1>1, <2>1, <2>2, ReturnStep DEF IInv
<1>3. CASE code = 0
  <2>1. password' = StringLength(resp.value) /\ EndAfter(0)
    BY <1>3 DEF GetBack
  <2>2. resp.value = StringToken(Msid)
    BY <1>1, <1>3 DEF IInv, ExchangeInv, Answered, Effect
  <2>3. password' = Msid
    BY <2>1, <2>2, MsidReadsBack
  <2> QED BY <1>1, <2>1, <2>3, EndAfterStep
<1> QED BY <1>2, <1>3

LEMMA SetBackStep == IInv /\ SetBack => IInv'
<1> SUFFICES ASSUME IInv, SetBack PROVE IInv'
  OBVIOUS
<1>1. /\ UNCHANGED <<alive, will_abort, number, session, auth, pin, inbox, reply, slip>>
      /\ pc = "back" /\ cmd = "set" /\ call.op = "setsid" /\ EndAfter(code)
  BY CallOf DEF SetBack, Back, drive, IInv
<1>2. code = 0 => pin = OnDrive(call.new) /\ inbox = NoCommand
  BY <1>1 DEF IInv, ExchangeInv, Answered, Effect
<1> QED BY <1>1, <1>2, EndAfterStep

LEMMA EndBackStep == IInv /\ EndBack => IInv'
<1> SUFFICES ASSUME IInv, EndBack PROVE IInv'
  OBVIOUS
<1>1. /\ UNCHANGED <<connected, will_abort, number, password, session, auth, pin, inbox, reply>>
      /\ pc = "back" /\ cmd = "end" /\ alive /\ last = NoLast
      /\ call.op \in {"end", "default", "setsid", "destroy"}
  BY CallOf DEF EndBack, Back, drive, IInv, CallInv
<1>2. code = 0 => session = 0 /\ inbox = NoCommand
  BY <1>1 DEF IInv, ExchangeInv, Answered, Effect
<1>3. CASE call.op = "destroy"
  <2>1. /\ alive' = FALSE /\ UNCHANGED last /\ slip' = (slip \/ code # 0)
        /\ pc' = "idle" /\ call' = NoCall /\ cmd' = "none"
    BY <1>3 DEF EndBack, Idle
  <2>2. CallInv' /\ ExchangeInv' /\ KeptInv' /\ DoneInv'
    BY <1>1, <2>1 DEF IInv, CallInv, ExchangeInv, KeptInv, DoneInv, NoLast, NoCall, None
  <2>3. OwnedInv'
    BY <1>1, <1>2, <2>1 DEF IInv, OwnedInv, NoCommand
  <2> QED BY <2>2, <2>3 DEF IInv
<1>4. CASE call.op # "destroy"
  <2> DEFINE rc == IF call.op = "end" THEN code ELSE set_code
  <2>1. Return(rc) /\ UNCHANGED <<alive, is_open, slip>>
    BY <1>4 DEF EndBack, OpenAfterEnd
  <2>2. DoneInv'
    BY <1>1, <1>2, <1>4, <2>1, ReturnStep DEF IInv, KeptInv, DoneInv, NoCommand
  <2>3. OwnedInv'
    BY <1>1, <2>1, ReturnStep DEF IInv, OwnedInv, Owned, Opening
  <2> QED BY <1>1, <2>1, <2>2, <2>3, ReturnStep DEF IInv
<1> QED BY <1>3, <1>4

LEMMA RevertBackStep == IInv /\ RevertBack => IInv'
<1> SUFFICES ASSUME IInv, RevertBack PROVE IInv'
  OBVIOUS
<1>1. /\ UNCHANGED <<alive, connected, is_open, number, password, session, auth, pin,
                     inbox, reply>>
      /\ pc = "back" /\ cmd = "revert" /\ call.op = "revert" /\ Return(code)
      /\ will_abort' = TRUE /\ slip' = (slip \/ session # 0)
  BY CallOf DEF RevertBack, Back, drive, IInv
<1>2. code = 0 => session = 0 /\ pin = Msid /\ inbox = NoCommand
  BY <1>1 DEF IInv, ExchangeInv, Answered, Effect
<1>3. DoneInv'
  BY <1>1, <1>2, ReturnStep DEF DoneInv, NoCommand
<1>4. OwnedInv'
  BY <1>1, ReturnStep DEF IInv, OwnedInv
<1> QED BY <1>1, <1>3, <1>4, ReturnStep DEF IInv

-----------------------------------------------------------------------------
(* The drive. *)

\* A command that was left with the drive, or the one that is polled for, is
\* answered; what the answer says of the drive is true.
LEMMA ExecuteStep == IInv /\ Execute => IInv'
<1> SUFFICES ASSUME IInv, Execute PROVE IInv'
  OBVIOUS
<1>1. /\ UNCHANGED <<alive, connected, is_open, will_abort, number, call, pc, cmd, resp, code,
                     set_code, last, password, slip>>
      /\ DriveStep
  BY DEF Execute, host, calling, locals
<1>2. /\ inbox # NoCommand /\ inbox' = NoCommand
      /\ reply'.status \in {"ok", "ended", "refused"}
  BY <1>1 DEF DriveStep, OpenSession, GetPin, SetPin, CloseSession, RevertTPer, RefuseCommand,
     Answer, Refuse, InSession, NoCommand
<1>3. /\ inbox.name # "start" => session' \in {session, 0}
      /\ inbox.name \notin {"start", "end", "revert"} => session' = session
      /\ inbox.name \notin {"set", "revert"} => pin' = pin
      /\ session' \in Sessions \cup {0}
  BY <1>1 DEF DriveStep, OpenSession, GetPin, SetPin, CloseSession, RevertTPer, RefuseCommand,
     Answer, Refuse, InSession, IInv, CallInv
<1>4. ASSUME pc = "poll" PROVE Sent
  BY <1>2, <1>4 DEF IInv, ExchangeInv, Answered
<1>5. ASSUME pc = "poll" PROVE Effect(reply)'
  <2> SUFFICES ASSUME reply'.status \in {"ok", "ended"}
               PROVE  /\ cmd = "start" => session' # 0 /\ reply'.value.head = IntToken(session')
                      /\ cmd = "get" => reply'.value = StringToken(Msid)
                      /\ cmd = "set" => pin' = OnDrive(call.new)
                      /\ cmd = "end" => session' = 0
                      /\ cmd = "revert" => session' = 0 /\ pin' = Msid
    BY <1>1 DEF Effect, Succeeded
  <2>1. inbox.name = cmd /\ inbox.token = Token(Carried) /\ (Carried # None => Writable(Carried))
    BY <1>4, <1>5 DEF Sent
  <2>2. CASE OpenSession
    BY <2>1, <2>2, SessionReadsBack DEF OpenSession, Answer, NoToken
  <2>3. CASE GetPin
    BY <2>1, <2>3 DEF GetPin, InSession, Answer
  <2>4. CASE SetPin
    <3>1. cmd = "set" /\ pin' = StringLength(Token(Carried))
      BY <2>1, <2>4 DEF SetPin, InSession
    <3>2. Carried = call.new /\ call.new \in Passwords
      BY <1>5, <3>1, CallOf DEF Carried, IInv, CallInv
    <3>3. call.new \in Nat /\ call.new < 65536 /\ call.new # None
      BY <3>2, SessionAssumption, SMT DEF None
    <3>4. pin' = OnDrive(call.new)
      BY <2>1, <3>1, <3>2, <3>3, StringsReadBack, SMT DEF Token
    <3> QED BY <3>1, <3>4
  <2>5. CASE CloseSession
    BY <2>1, <2>5 DEF CloseSession, InSession
  <2>6. CASE RevertTPer
    BY <2>1, <2>6 DEF RevertTPer, InSession
  <2>7. CASE RefuseCommand
    BY <2>7 DEF RefuseCommand, Refuse, Answer
  <2> QED BY <1>1, <2>2, <2>3, <2>4, <2>5, <2>6, <2>7 DEF DriveStep
<1>6. CallInv'
  BY <1>1, <1>3 DEF IInv, CallInv
<1>7. ExchangeInv'
  <2>1. ~(pc = "back" /\ code = 0)
    BY <1>2 DEF IInv, ExchangeInv, Answered
  <2>2. ASSUME pc = "poll" PROVE Answered(reply)'
    BY <1>2, <1>5, <2>2 DEF Answered
  <2> QED BY <1>1, <2>1, <2>2 DEF IInv, ExchangeInv
<1>8. KeptInv'
  BY <1>1, <1>2, <1>3 DEF IInv, KeptInv, NoCommand
<1>9. DoneInv'
  BY <1>1, <1>2, <1>3 DEF IInv, DoneInv, NoCommand
<1>10. OwnedInv'
  <2>1. CASE slip
    BY <1>1, <2>1 DEF OwnedInv
  <2>2. CASE ~slip /\ inbox.name # "start"
    <3>1. ~Opening
      BY <1>2, <1>4 DEF IInv, ExchangeInv, Opening, Answered, Sent, Succeeded, NoReply
    <3> QED BY <1>1, <1>2, <1>3, <2>2, <3>1 DEF IInv, OwnedInv, Owned, NoCommand
  <2>3. CASE ~slip /\ inbox.name = "start"
    <3>1. pc = "poll" /\ cmd = "start"
      BY <2>3 DEF IInv, OwnedInv
    <3>2. CASE session = 0
      BY <1>1, <1>2, <3>1, <3>2, <2>3 DEF OwnedInv, Opening, Succeeded, NoCommand,
         DriveStep, OpenSession, GetPin, SetPin, CloseSession, RevertTPer, RefuseCommand,
         Answer, Refuse, InSession
    <3>3. CASE session # 0
      <4>1. session' = session
        BY <1>1, <2>3, <3>3 DEF DriveStep, OpenSession, GetPin, SetPin, CloseSession,
           RevertTPer, RefuseCommand, Refuse, InSession
      <4>2. ~Opening
        BY <1>4, <3>1 DEF Opening, Sent, Succeeded, NoReply
      <4> QED BY <1>1, <1>2, <2>3, <3>3, <4>1, <4>2 DEF IInv, OwnedInv, Owned, NoCommand
    <3> QED BY <3>2, <3>3
  <2> QED BY <2>1, <2>2, <2>3
<1> QED BY <1>6, <1>7, <1>8, <1>9, <1>10 DEF IInv

-----------------------------------------------------------------------------
(* The properties. *)

LEMMA InvStep == IInv /\ [Next]_vars => IInv'
<1> SUFFICES ASSUME IInv, [Next]_vars PROVE IInv'
  OBVIOUS
<1>1. CASE PullOut \/ UNCHANGED vars
  <2>1. UNCHANGED <<alive, is_open, will_abort, number, call, pc, cmd, resp, code, set_code,
                    last, password, session, auth, pin, inbox, reply, slip>>
    BY <1>1 DEF PullOut, vars, host, calling, locals, drive
  <2>2. Carried' = Carried
    BY <2>1 DEF Carried
  <2>3. CallInv' /\ KeptInv' /\ DoneInv'
    BY <2>1 DEF IInv, CallInv, KeptInv, DoneInv
  <2>4. ExchangeInv'
    BY <2>1, <2>2 DEF IInv, ExchangeInv, Sent, Answered, Effect
  <2>5. OwnedInv'
    BY <2>1 DEF IInv, OwnedInv, Owned, Opening
  <2> QED BY <2>3, <2>4, <2>5 DEF IInv
<1>2. CASE InCall
  BY <1>2, ExitStep, SendStep, SendFailsStep, SendMisreportedStep, PollStep, PollFailsStep, StartBackStep,
     GetBackStep, SetBackStep, EndBackStep, RevertBackStep DEF InCall
<1> QED BY <1>1, <1>2, PublicStep, ResetStep, DestroyStep, CreateStep, ExecuteStep DEF Next

LEMMA Invariant == Spec => []IInv
<1> QED BY InvInit, InvStep, PTL DEF Spec

\* A call that returns 0 has done its work on the drive, and it is not undone
\* before the next call, neither by a command that a failed receive has left
\* with the drive nor by the command that ends the session.
THEOREM SuccessAlwaysDone == Spec => []SuccessIsDone
<1>1. IInv => SuccessIsDone
  BY DEF IInv, DoneInv, SuccessIsDone
<1> QED BY <1>1, Invariant, PTL

\* Between calls a session that is open on the drive is one the object will end,
\* but for the steps that set slip.
THEOREM NeverOrphaned == Spec => []NoOrphan
<1>1. IInv => NoOrphan
  BY DEF IInv, OwnedInv, Owned, Opening, NoOrphan
<1> QED BY <1>1, Invariant, PTL

=============================================================================
