---------------------------- MODULE ServerProofs ----------------------------
(***************************************************************************)
(* For any number of threads and sessions: the types, the ownership of     *)
(* sessions (and with it that no callback uses a freed one), the single    *)
(* acceptor, and that the sessions implement Connection.                   *)
(***************************************************************************)
EXTENDS Server, TLAPS

USE DEF At

Running == main \in {"run", "join"}

\* A thread in a session's callback has a session; before main runs the
\* threads there is neither a session nor a callback.
Placed ==
    /\ \A t \in Thread :
          frame[t].pc \in {"start", "read", "route", "write", "write_return"}
             => frame[t].s \in Session
    /\ ~Running => heap = {} /\ \A t \in Thread : frame[t].pc = "unborn"

IInv == TypeOK /\ Placed /\ Ownership /\ OneAcceptor

-----------------------------------------------------------------------------
(* Type correctness *)

LEMMA SmallerNat ==
  ASSUME NEW a \in Nat, NEW b \in Nat
  PROVE  /\ Smaller(a, b) \in Nat
         /\ Smaller(a, b) <= a
         /\ a - Smaller(a, b) \in Nat
  BY DEF Smaller

LEMMA NewSessionType == NewSession \in SessionState
  BY RequestSizeAssumption DEF NewSession, SessionState

LEMMA IdleType == Idle \in Frames
  BY DEF Idle, Frames

\* A step that replaces one session's state by a well-typed one.
LEMMA SessUpdate ==
  ASSUME TypeOK, NEW s, NEW r, s \in Session => r \in SessionState,
         sess' = [sess EXCEPT ![s] = r]
  PROVE  sess' \in [Session -> SessionState]
  BY DEF TypeOK

\* The actions of main().
LEMMA MainType == TypeOK /\ Main => TypeOK'
  <1> SUFFICES ASSUME TypeOK, Main PROVE TypeOK'
    OBVIOUS
  <1>1. CASE main_parse
    BY <1>1 DEF main_parse, TypeOK
  <1>2. CASE main_construct
    BY <1>2 DEF main_construct, main_catch, TypeOK
  <1>3. CASE create_router
    BY <1>3 DEF create_router, main_catch, TypeOK
  <1>4. CASE main_start_accept
    <2>1. [NewSession EXCEPT !.op = "accept"] \in SessionState
      BY NewSessionType DEF SessionState
    <2>. QED BY <1>4, <2>1 DEF main_start_accept, Listen, TypeOK
  <1>5. CASE run
    BY <1>5, IdleType DEF run, main_catch, TypeOK
  <1>6. CASE join
    BY <1>6 DEF join, TypeOK
  <1>. QED BY <1>1, <1>2, <1>3, <1>4, <1>5, <1>6 DEF Main

\* A thread going on with its callback.
LEMMA ProceedType ==
  ASSUME TypeOK, NEW t \in Thread, Proceed(t)
  PROVE  TypeOK'
  <1>. USE DEF Goto, Return, proc
  <1>0. frame[t] \in Frames /\ frame[t].size \in Nat /\ frame[t].s \in Session \cup {NoOne}
    BY DEF TypeOK, Frames
  <1>1. CASE start(t)
    BY <1>0, <1>1 DEF start, TypeOK, Frames
  <1>2. CASE read(t)
    <2>1. sess' \in [Session -> SessionState]
      <3>. DEFINE s == frame[t].s
                  r == [sess[s] EXCEPT !.op = "read", !.status = "pending"]
      <3>1. ASSUME s \in Session PROVE r \in SessionState
        <4>1. sess[s] \in SessionState
          BY <3>1 DEF TypeOK
        <4>. QED BY <4>1 DEF SessionState
      <3>. QED BY <1>2, <3>1, SessUpdate DEF read, BeginRead
    <2>2. frame' \in [Thread -> Frames]
      BY <1>2 DEF read, TypeOK, Frames
    <2>. QED BY <1>2, <2>1, <2>2 DEF read, TypeOK
  <1>3. CASE start_accept(t)
    <2>1. [NewSession EXCEPT !.op = "accept"] \in SessionState
      BY NewSessionType DEF SessionState
    <2>. QED BY <1>3, <2>1, IdleType DEF start_accept, Listen, TypeOK
  <1>4. CASE handle_valid_request(t)
    <2>1. frame' \in [Thread -> Frames]
      BY <1>0, <1>4, ResponseAssumption DEF handle_valid_request, handle_error, Answer,
             TypeOK, Frames
    <2>. QED BY <1>4, <2>1 DEF handle_valid_request, handle_error, TypeOK
  <1>5. CASE write(t)
    <2>1. frame[t].size - Smaller(frame[t].size, SendBuffer) \in Nat
      BY <1>0, SmallerNat, SendBufferAssumption
    <2>2. sess' \in [Session -> SessionState]
      <3>. DEFINE s    == frame[t].s
                  left == frame[t].size - Smaller(frame[t].size, SendBuffer)
                  r1   == [sess[s] EXCEPT !.op = "write", !.writer = t, !.status = "error"]
                  r2   == [sess[s] EXCEPT !.op = "write", !.writer = t,
                                          !.status = IF left = 0 THEN "ok" ELSE "pending",
                                          !.unsent = left]
      <3>1. ASSUME s \in Session PROVE r1 \in SessionState /\ r2 \in SessionState
        <4>1. sess[s] \in SessionState
          BY <3>1 DEF TypeOK
        <4>2. r1 \in SessionState
          BY <4>1 DEF SessionState
        <4>3. r2 \in SessionState
          BY <4>1, <2>1 DEF SessionState
        <4>. QED BY <4>2, <4>3
      <3>3. \/ sess' = [sess EXCEPT ![s] = r1]
            \/ sess' = [sess EXCEPT ![s] = r2]
        BY <1>5 DEF write
      <3>. HIDE DEF r1, r2
      <3>. QED BY <3>1, <3>3, SessUpdate
    <2>3. frame' \in [Thread -> Frames]
      BY <1>0, <1>5 DEF write, TypeOK, Frames
    <2>. QED BY <1>5, <2>2, <2>3 DEF write, TypeOK
  <1>6. CASE write_return(t)
    BY <1>6, IdleType DEF write_return, TypeOK
  <1>. QED BY <1>1, <1>2, <1>3, <1>4, <1>5, <1>6 DEF Proceed

\* A free thread taking a completion.
LEMMA DispatchType ==
  ASSUME TypeOK, NEW t \in Thread, NEW s \in Session, Dispatch(t, s)
  PROVE  TypeOK'
  <1>. USE DEF Goto, Return, Free, Answer, proc
  <1>1. sess[s] \in SessionState /\ frame[t] \in Frames
    BY DEF TypeOK
  <1>2. [sess EXCEPT ![s].op = "none"] \in [Session -> SessionState]
    BY DEF TypeOK, SessionState
  <1>3. [sess EXCEPT ![s] = NewSession] \in [Session -> SessionState]
    BY NewSessionType DEF TypeOK
  <1>4. CASE handle_accept(t, s)
    <2>1. frame' \in [Thread -> Frames]
      BY <1>4, IdleType DEF handle_accept, TypeOK, Frames
    <2>. QED BY <1>2, <1>3, <1>4, <2>1 DEF handle_accept, TypeOK
  <1>5. CASE handle_read(t, s)
    <2>1. frame' \in [Thread -> Frames]
      BY <1>5 DEF handle_read, handle_success, handle_error, handle_invalid_request,
             TypeOK, Frames
    <2>. QED BY <1>2, <1>5, <2>1 DEF handle_read, handle_success, handle_error,
           handle_invalid_request, TypeOK
  <1>6. CASE handle_write(t, s)
    BY <1>3, <1>6 DEF handle_write, close, TypeOK
  <1>. QED BY <1>4, <1>5, <1>6 DEF Dispatch

\* The kernel and the clients.
LEMMA EnvironmentType ==
  ASSUME TypeOK, NEW s \in Session, Kernel(s) \/ Client(s)
  PROVE  TypeOK'
  <1>. USE DEF Env, proc
  <1>1. sess[s] \in SessionState
    BY DEF TypeOK
  <1>2. Smaller(sess[s].arrived, MaxLength) \in 0..RequestSize
    BY <1>1, MaxLengthAssumption, RequestSizeAssumption DEF SessionState, Smaller
  <1>3. sess[s].unsent - Smaller(sess[s].unsent, SendBuffer) \in Nat
    BY <1>1, SmallerNat, SendBufferAssumption DEF SessionState
  <1>4. sess' \in [Session -> SessionState]
    <2>1. CASE ReadReady(s)
      <3>. DEFINE r1 == [sess[s] EXCEPT !.status = "ok",
                                        !.bytes = Smaller(sess[s].arrived, MaxLength)]
                  r2 == [sess[s] EXCEPT !.status = "error"]
      <3>1. r1 \in SessionState /\ r2 \in SessionState
        BY <1>1, <1>2 DEF SessionState
      <3>2. \/ sess' = [sess EXCEPT ![s] = r1]
            \/ sess' = [sess EXCEPT ![s] = r2]
        BY <2>1 DEF ReadReady
      <3>. HIDE DEF r1, r2
      <3>. QED BY <3>1, <3>2, SessUpdate
    <2>2. CASE WriteMore(s)
      <3>. DEFINE left    == sess[s].unsent - Smaller(sess[s].unsent, SendBuffer)
                  r1      == [sess[s] EXCEPT !.status = "error"]
                  r2(what) == [sess[s] EXCEPT !.unsent = left, !.sent = what,
                                 !.status = IF left = 0 THEN "ok" ELSE "pending"]
      <3>1. r1 \in SessionState
        BY <1>1 DEF SessionState
      <3>2. ASSUME NEW what \in {"intact", "garbled"} PROVE r2(what) \in SessionState
        BY <1>1, <1>3 DEF SessionState
      <3>3. sess[s].sent \in {"intact", "garbled"}
        BY <1>1 DEF SessionState
      <3>4. \/ sess' = [sess EXCEPT ![s] = r1]
            \/ \E what \in {"intact", "garbled"} : sess' = [sess EXCEPT ![s] = r2(what)]
        BY <2>2, <3>3 DEF WriteMore
      <3>. HIDE DEF r1, r2
      <3>. QED BY <3>1, <3>2, <3>4, SessUpdate
    <2>3. CASE Connect(s)
      <3>. DEFINE r(kind) == [sess[s] EXCEPT !.status = "ok", !.peer = "connected",
                                             !.request = kind]
      <3>1. ASSUME NEW kind \in {"valid", "invalid"} PROVE r(kind) \in SessionState
        BY <1>1 DEF SessionState
      <3>2. \E kind \in {"valid", "invalid"} : sess' = [sess EXCEPT ![s] = r(kind)]
        BY <2>3 DEF Connect
      <3>. HIDE DEF r
      <3>. QED BY <3>1, <3>2, SessUpdate
    <2>4. CASE AcceptError(s)
      BY <2>4 DEF AcceptError, TypeOK, SessionState
    <2>5. CASE ClientSends(s)
      BY <2>5, RequestSizeAssumption DEF ClientSends, TypeOK, SessionState
    <2>6. CASE ClientCloses(s)
      BY <2>6 DEF ClientCloses, TypeOK, SessionState
    <2>7. CASE ClientResets(s)
      BY <2>7 DEF ClientResets, TypeOK, SessionState
    <2>. QED BY <2>1, <2>2, <2>3, <2>4, <2>5, <2>6, <2>7 DEF Kernel, Client
  <1>5. UNCHANGED <<main, process, logged, router_, isRunning, signal, heap, frame>>
    BY DEF Kernel, Client, ReadReady, WriteMore, Connect, AcceptError,
           ClientSends, ClientCloses, ClientResets
  <1>. QED BY <1>4, <1>5 DEF TypeOK

\* The state of main(), of every session and of every thread's stack keeps its
\* type in every run of server_main.cc, server.cc and session.cc.
THEOREM TypeCorrect == Spec => []TypeOK
  <1>1. Init => TypeOK
    <2>1. [Idle EXCEPT !.pc = "unborn"] \in Frames
      BY DEF Idle, Frames
    <2>. QED BY <2>1, NewSessionType DEF Init, TypeOK
  <1>2. TypeOK /\ [Next]_vars => TypeOK'
    <2> SUFFICES ASSUME TypeOK, [Next]_vars PROVE TypeOK'
      OBVIOUS
    <2>1. CASE UNCHANGED vars
      BY <2>1 DEF vars, TypeOK
    <2>2. CASE Main
      BY <2>2, MainType
    <2>3. ASSUME NEW t \in Thread, Proceed(t) PROVE TypeOK'
      BY <2>3, ProceedType
    <2>4. ASSUME NEW t \in Thread, signal_handler(t) PROVE TypeOK'
      BY <2>4 DEF signal_handler, TypeOK
    <2>5. ASSUME NEW t \in Thread, NEW s \in Session, Dispatch(t, s) PROVE TypeOK'
      BY <2>5, DispatchType
    <2>6. ASSUME NEW s \in Session, Kernel(s) \/ Client(s) PROVE TypeOK'
      BY <2>6, EnvironmentType
    <2>7. CASE RaiseSignal
      BY <2>7 DEF RaiseSignal, TypeOK
    <2>. QED BY <2>1, <2>2, <2>3, <2>4, <2>5, <2>6, <2>7 DEF Next, Up, Ended
  <1>. QED BY <1>1, <1>2, PTL DEF Spec

-----------------------------------------------------------------------------
(* Ownership of the sessions and of the acceptor *)

Owned == Placed /\ Ownership /\ OneAcceptor

\* Nothing is owned differently when no operation starts or ends.
LEMMA SameOwners ==
  ASSUME IInv, UNCHANGED <<main, heap, frame>>,
         \A x \in Session : sess'[x].op = sess[x].op
  PROVE  Owned'
  BY DEF IInv, Owned, Placed, Running, Ownership, OneAcceptor, Pending, Touches,
         Accepting, Rearming

LEMMA MainOwned ==
  ASSUME IInv, Main
  PROVE  Owned'
  <1>. USE DEF IInv, Owned, Running
  <1>1. CASE main_parse
    BY <1>1 DEF main_parse, Placed, Ownership, OneAcceptor, Pending, Touches
  <1>2. CASE main_construct
    BY <1>2 DEF main_construct, main_catch, Placed, Ownership, OneAcceptor, Pending, Touches
  <1>3. CASE create_router
    BY <1>3 DEF create_router, main_catch, Placed, Ownership, OneAcceptor, Pending, Touches
  <1>4. CASE main_start_accept
    <2>1. /\ heap = {} /\ UNCHANGED frame /\ main' = "run"
          /\ \A t \in Thread : frame[t].pc = "unborn"
      BY <1>4 DEF main_start_accept, Placed
    <2>2. PICK new \in Session :
             /\ heap' = {new}
             /\ sess' = [sess EXCEPT ![new] = [NewSession EXCEPT !.op = "accept"]]
      BY <1>4, <2>1 DEF main_start_accept, Listen
    <2>3. \A x \in Session : sess'[x].op = IF x = new THEN "accept" ELSE "none"
      BY <2>1, <2>2 DEF TypeOK, NewSession, Ownership, Pending
    <2>4. Placed'
      BY <2>1 DEF Placed
    <2>5. Ownership'
      BY <2>1, <2>2, <2>3 DEF Ownership, Pending, Touches
    <2>6. OneAcceptor'
      BY <2>1, <2>3 DEF OneAcceptor, Accepting, Rearming
    <2>. QED BY <2>4, <2>5, <2>6
  <1>5. CASE run
    <2>1. CASE main_catch
      BY <2>1, SameOwners DEF main_catch
    <2>2. ASSUME NEW t \in Thread, frame[t].pc = "unborn",
                 frame' = [frame EXCEPT ![t] = Idle], UNCHANGED <<main, heap, sess>>
          PROVE  Owned'
      <3>1. /\ frame'[t].pc = "idle" /\ main = "run"
            /\ \A u \in Thread \ {t} : frame'[u] = frame[u]
        BY <1>5, <2>2 DEF run, TypeOK, Idle
      <3>. QED BY <2>2, <3>1 DEF Placed, Ownership, OneAcceptor, Pending, Touches,
                                 Accepting, Rearming
    <2>. QED BY <1>5, <2>1, <2>2 DEF run
  <1>6. CASE join
    BY <1>6 DEF join, Placed, Ownership, OneAcceptor, Pending, Touches, Accepting, Rearming
  <1>. QED BY <1>1, <1>2, <1>3, <1>4, <1>5, <1>6 DEF Main

\* session::write leaves its session with an outstanding write.
LEMMA WriteBegins ==
  ASSUME TypeOK, NEW t \in Thread, write(t), frame[t].s \in Session
  PROVE  /\ sess'[frame[t].s].op = "write"
         /\ \A x \in Session \ {frame[t].s} : sess'[x] = sess[x]
  <1>. DEFINE s == frame[t].s
  <1>1. sess[s] \in SessionState
    BY DEF TypeOK
  <1>. DEFINE left == frame[t].size - Smaller(frame[t].size, SendBuffer)
              r1 == [sess[s] EXCEPT !.op = "write", !.writer = t, !.status = "error"]
              r2 == [sess[s] EXCEPT !.op = "write", !.writer = t,
                                    !.status = IF left = 0 THEN "ok" ELSE "pending",
                                    !.unsent = left]
  <1>2. /\ r1.op = "write" /\ r2.op = "write"
        /\ sess' = [sess EXCEPT ![s] = r1] \/ sess' = [sess EXCEPT ![s] = r2]
    <2>1. r1.op = "write" /\ r2.op = "write"
      BY <1>1 DEF SessionState
    <2>2. sess' = [sess EXCEPT ![s] = r1] \/ sess' = [sess EXCEPT ![s] = r2]
      BY DEF write
    <2>. QED BY <2>1, <2>2
  <1>. HIDE DEF s, r1, r2
  <1>3. s \in Session
    BY DEF s
  <1>4. sess'[s].op = "write" /\ \A x \in Session \ {s} : sess'[x] = sess[x]
    BY <1>2, <1>3 DEF TypeOK
  <1>. QED BY <1>4 DEF s

LEMMA ProceedOwned ==
  ASSUME IInv, NEW t \in Thread, Proceed(t)
  PROVE  Owned'
  <1>. USE DEF IInv, Owned, Running, Goto, Return, Answer, proc
  <1>. DEFINE s == frame[t].s
  <1>0. UNCHANGED main /\ main \in {"run", "join"}
    <2>1. frame[t].pc # "unborn"
      BY DEF Proceed, start, read, start_accept, handle_valid_request, handle_error,
             write, write_return
    <2>2. UNCHANGED main
      BY DEF Proceed, start, read, start_accept, handle_valid_request, handle_error,
             write, write_return
    <2>. QED BY <2>1, <2>2 DEF Placed
  <1>. HIDE DEF s
  <1>1. CASE start(t)
    <2>1. /\ UNCHANGED <<heap, sess>> /\ frame[t].pc = "start"
          /\ frame'[t].pc = "read" /\ frame'[t].s = frame[t].s
          /\ \A u \in Thread \ {t} : frame'[u] = frame[u]
      BY <1>1 DEF start, TypeOK
    <2>. QED BY <1>0, <2>1 DEF Placed, Ownership, OneAcceptor, Pending, Touches,
                               Accepting, Rearming
  <1>2. CASE read(t)
    <2>1. /\ UNCHANGED heap /\ frame[t].pc = "read" /\ s \in Session
          /\ frame'[t].pc = "start_accept"
          /\ \A u \in Thread \ {t} : frame'[u] = frame[u]
      BY <1>2 DEF read, TypeOK, Placed, s
    <2>2. /\ sess'[s].op = "read"
          /\ \A x \in Session \ {s} : sess'[x] = sess[x]
      BY <1>2, <2>1 DEF read, BeginRead, TypeOK, SessionState, s
    <2>3. Touches(t, s)
      BY <2>1 DEF Touches, s
    <2>4. Placed'
      BY <1>0, <2>1 DEF Placed
    <2>5. Ownership'
      BY <2>1, <2>2, <2>3 DEF Ownership, Pending, Touches
    <2>6. OneAcceptor'
      BY <1>0, <2>1, <2>2 DEF OneAcceptor, Accepting, Rearming
    <2>. QED BY <2>4, <2>5, <2>6
  <1>3. CASE start_accept(t)
    <2>1. /\ frame[t].pc = "start_accept" /\ frame'[t].pc = "idle"
          /\ \A u \in Thread \ {t} : frame'[u] = frame[u]
      BY <1>3 DEF start_accept, TypeOK, Idle
    <2>2. PICK new \in Session \ heap :
             /\ heap' = heap \cup {new}
             /\ sess' = [sess EXCEPT ![new] = [NewSession EXCEPT !.op = "accept"]]
      BY <1>3 DEF start_accept, Listen
    <2>3. /\ sess'[new].op = "accept"
          /\ \A x \in Session \ {new} : sess'[x] = sess[x]
      BY <2>2 DEF TypeOK, NewSession
    <2>4. Placed'
      BY <1>0, <2>1 DEF Placed
    <2>5. Ownership'
      BY <2>1, <2>2, <2>3 DEF Ownership, Pending, Touches
    <2>6. OneAcceptor'
      BY <1>0, <2>1, <2>2, <2>3 DEF OneAcceptor, Accepting, Rearming
    <2>. QED BY <2>4, <2>5, <2>6
  <1>4. CASE handle_valid_request(t)
    <2>1. /\ UNCHANGED <<heap, sess>> /\ frame[t].pc = "route"
          /\ frame'[t].pc = "write" /\ frame'[t].s = frame[t].s
          /\ \A u \in Thread \ {t} : frame'[u] = frame[u]
      BY <1>4 DEF handle_valid_request, handle_error, TypeOK
    <2>. QED BY <1>0, <2>1 DEF Placed, Ownership, OneAcceptor, Pending, Touches,
                               Accepting, Rearming
  <1>5. CASE write(t)
    <2>1. /\ UNCHANGED heap /\ frame[t].pc = "write" /\ s \in Session
          /\ frame'[t].pc = "write_return" /\ frame'[t].s = s
          /\ \A u \in Thread \ {t} : frame'[u] = frame[u]
      BY <1>5 DEF write, TypeOK, Placed, s
    <2>2. /\ sess'[s].op = "write"
          /\ \A x \in Session \ {s} : sess'[x] = sess[x]
      BY <1>5, <2>1, WriteBegins DEF s
    <2>3. Touches(t, s)
      BY <2>1 DEF Touches, s
    <2>0. sess[s].op = "none"
      BY <2>1, <2>3 DEF Ownership, Pending
    <2>4. Placed'
      BY <1>0, <2>1 DEF Placed
    <2>5. Ownership'
      BY <2>1, <2>2, <2>3 DEF Ownership, Pending, Touches
    <2>6. OneAcceptor'
      BY <1>0, <2>0, <2>1, <2>2 DEF OneAcceptor, Accepting, Rearming
    <2>. QED BY <2>4, <2>5, <2>6
  <1>6. CASE write_return(t)
    <2>1. /\ UNCHANGED <<heap, sess>> /\ frame[t].pc = "write_return"
          /\ frame'[t].pc = "idle"
          /\ \A u \in Thread \ {t} : frame'[u] = frame[u]
      BY <1>6 DEF write_return, TypeOK, Idle
    <2>. QED BY <1>0, <2>1 DEF Placed, Ownership, OneAcceptor, Pending, Touches,
                               Accepting, Rearming
  <1>. QED BY <1>1, <1>2, <1>3, <1>4, <1>5, <1>6 DEF Proceed

LEMMA DispatchOwned ==
  ASSUME IInv, NEW t \in Thread, NEW s \in Session, Dispatch(t, s)
  PROVE  Owned'
  <1>. USE DEF IInv, Owned, Running, Goto, Return, Answer, Free, proc
  <1>0. /\ UNCHANGED main /\ main \in {"run", "join"}
        /\ frame[t].pc = "idle" /\ sess[s].op # "none"
    <2>1. UNCHANGED main /\ frame[t].pc = "idle" /\ sess[s].op # "none"
      BY DEF Dispatch, handle_accept, handle_read, handle_success, handle_error,
             handle_invalid_request, handle_write, close
    <2>. QED BY <2>1 DEF Placed
  <1>1. CASE handle_accept(t, s)
    <2>1. CASE sess[s].status = "ok"
      <3>1. /\ UNCHANGED heap /\ sess[s].op = "accept" /\ sess'[s].op = "none"
            /\ \A x \in Session \ {s} : sess'[x] = sess[x]
            /\ frame'[t].pc = "start" /\ frame'[t].s = s
            /\ \A u \in Thread \ {t} : frame'[u] = frame[u]
        BY <1>1, <2>1 DEF handle_accept, TypeOK, SessionState
      <3>2. Placed'
        BY <1>0, <3>1 DEF Placed
      <3>3. Ownership'
        BY <1>0, <3>1 DEF Ownership, Pending, Touches
      <3>4. OneAcceptor'
        BY <1>0, <3>1 DEF OneAcceptor, Accepting, Rearming
      <3>. QED BY <3>2, <3>3, <3>4
    <2>2. CASE sess[s].status = "error"
      <3>1. /\ heap' = heap \ {s} /\ sess[s].op = "accept" /\ sess'[s].op = "none"
            /\ \A x \in Session \ {s} : sess'[x] = sess[x]
            /\ frame'[t].pc = "start_accept"
            /\ \A u \in Thread \ {t} : frame'[u] = frame[u]
        BY <1>1, <2>2 DEF handle_accept, TypeOK, NewSession
      <3>2. Placed'
        BY <1>0, <3>1 DEF Placed
      <3>3. Ownership'
        BY <1>0, <3>1 DEF Ownership, Pending, Touches
      <3>4. OneAcceptor'
        BY <1>0, <3>1 DEF OneAcceptor, Accepting, Rearming
      <3>. QED BY <3>2, <3>3, <3>4
    <2>. QED BY <1>1, <2>1, <2>2 DEF handle_accept
  <1>2. CASE handle_read(t, s)
    <2>1. /\ UNCHANGED heap /\ sess[s].op = "read" /\ sess'[s].op = "none"
          /\ \A x \in Session \ {s} : sess'[x] = sess[x]
          /\ frame'[t].pc \in {"route", "write"} /\ frame'[t].s = s
          /\ \A u \in Thread \ {t} : frame'[u] = frame[u]
      BY <1>2 DEF handle_read, handle_success, handle_error, handle_invalid_request,
             TypeOK, SessionState
    <2>2. Placed'
      BY <1>0, <2>1 DEF Placed
    <2>3. Ownership'
      BY <1>0, <2>1 DEF Ownership, Pending, Touches
    <2>4. OneAcceptor'
      BY <1>0, <2>1 DEF OneAcceptor, Accepting, Rearming
    <2>. QED BY <2>2, <2>3, <2>4
  <1>3. CASE handle_write(t, s)
    <2>1. CASE UNCHANGED <<heap, sess>>
      BY <1>3, <2>1, SameOwners DEF handle_write, close
    <2>2. CASE Free(s)
      <3>1. /\ heap' = heap \ {s} /\ sess[s].op = "write" /\ sess'[s].op = "none"
            /\ \A x \in Session \ {s} : sess'[x] = sess[x]
            /\ UNCHANGED frame
        BY <1>3, <2>2 DEF handle_write, close, TypeOK, NewSession
      <3>2. Placed'
        BY <1>0, <3>1 DEF Placed
      <3>3. Ownership'
        BY <1>0, <3>1 DEF Ownership, Pending, Touches
      <3>4. OneAcceptor'
        BY <1>0, <3>1 DEF OneAcceptor, Accepting, Rearming
      <3>. QED BY <3>2, <3>3, <3>4
    <2>. QED BY <1>3, <2>1, <2>2 DEF handle_write, close
  <1>. QED BY <1>1, <1>2, <1>3 DEF Dispatch

\* Whatever the network does, it does not start or end an operation.
LEMMA EnvironmentKeepsOps ==
  ASSUME IInv, NEW s \in Session, Kernel(s) \/ Client(s)
  PROVE  \A x \in Session : sess'[x].op = sess[x].op
  <1>. USE DEF IInv, TypeOK, SessionState
  <1>1. CASE ReadReady(s)
    BY <1>1 DEF ReadReady
  <1>2. CASE WriteMore(s)
    <2>. DEFINE left    == sess[s].unsent - Smaller(sess[s].unsent, SendBuffer)
                r1      == [sess[s] EXCEPT !.status = "error"]
                r2(what) == [sess[s] EXCEPT !.unsent = left, !.sent = what,
                               !.status = IF left = 0 THEN "ok" ELSE "pending"]
    <2>1. sess[s] \in SessionState
      OBVIOUS
    <2>2. r1.op = sess[s].op /\ \A what : r2(what).op = sess[s].op
      BY <2>1
    <2>3. \/ sess' = [sess EXCEPT ![s] = r1]
          \/ \E what \in {"intact", "garbled"} : sess' = [sess EXCEPT ![s] = r2(what)]
      BY <1>2, <2>1, ZenonT(40) DEF WriteMore
    <2>. HIDE DEF r1, r2
    <2>. QED BY <2>2, <2>3
  <1>3. CASE Connect(s)
    BY <1>3 DEF Connect
  <1>4. CASE AcceptError(s)
    BY <1>4 DEF AcceptError
  <1>5. CASE ClientSends(s)
    BY <1>5 DEF ClientSends
  <1>6. CASE ClientCloses(s) \/ ClientResets(s)
    BY <1>6 DEF ClientCloses, ClientResets
  <1>. QED BY <1>1, <1>2, <1>3, <1>4, <1>5, <1>6 DEF Kernel, Client

LEMMA EnvironmentOwned ==
  ASSUME IInv, NEW s \in Session, Kernel(s) \/ Client(s)
  PROVE  Owned'
  <1>1. UNCHANGED <<main, heap, frame>>
    BY DEF Kernel, Client, ReadReady, WriteMore, Connect, AcceptError,
           ClientSends, ClientCloses, ClientResets, Env, proc
  <1>. QED BY <1>1, EnvironmentKeepsOps, SameOwners

\* The inductive invariant: ownership and the single acceptor hold together,
\* with the types and with what Placed says of the callbacks of session.cc.
THEOREM Inductive == Spec => []IInv
  <1>1. Init => IInv
    <2>. SUFFICES ASSUME Init PROVE IInv
      OBVIOUS
    <2>1. TypeOK
      <3>1. [Idle EXCEPT !.pc = "unborn"] \in Frames
        BY DEF Idle, Frames
      <3>. QED BY <3>1, NewSessionType DEF Init, TypeOK
    <2>2. /\ heap = {} /\ main = "parse"
          /\ \A s \in Session : sess[s].op = "none"
          /\ \A t \in Thread : frame[t].pc = "unborn"
      BY DEF Init, NewSession, Idle
    <2>. QED BY <2>1, <2>2 DEF IInv, Placed, Running, Ownership, OneAcceptor,
                               Pending, Touches
  <1>2. IInv /\ [Next]_vars => Owned'
    <2> SUFFICES ASSUME IInv, [Next]_vars PROVE Owned'
      OBVIOUS
    <2>1. CASE UNCHANGED vars
      BY <2>1, SameOwners DEF vars
    <2>2. CASE Main
      BY <2>2, MainOwned
    <2>3. ASSUME NEW t \in Thread, Proceed(t) PROVE Owned'
      BY <2>3, ProceedOwned
    <2>4. ASSUME NEW t \in Thread, signal_handler(t) PROVE Owned'
      BY <2>4, SameOwners DEF signal_handler
    <2>5. ASSUME NEW t \in Thread, NEW s \in Session, Dispatch(t, s) PROVE Owned'
      BY <2>5, DispatchOwned
    <2>6. ASSUME NEW s \in Session, Kernel(s) \/ Client(s) PROVE Owned'
      BY <2>6, EnvironmentOwned
    <2>7. CASE RaiseSignal
      BY <2>7, SameOwners DEF RaiseSignal
    <2>. QED BY <2>1, <2>2, <2>3, <2>4, <2>5, <2>6, <2>7 DEF Next, Up, Ended
  <1>3. IInv <=> TypeOK /\ Owned
    BY DEF IInv, Owned
  <1>. QED BY <1>1, <1>2, <1>3, TypeCorrect, PTL DEF Spec

\* However many threads run the io_service, an allocated session always has
\* exactly one owner: its outstanding operation, or one thread's callback.
THEOREM SessionsOwned == Spec => []Ownership
  <1>1. IInv => Ownership
    BY DEF IInv
  <1>. QED BY <1>1, Inductive, PTL

\* session.cc never uses a session after delete this.
THEOREM NoSessionUsedAfterFree == Spec => []NoUseAfterFree
  <1>1. IInv => NoUseAfterFree
    BY DEF IInv, Ownership, NoUseAfterFree
  <1>. QED BY <1>1, Inductive, PTL

\* server.cc always has one accept outstanding or one thread about to start it.
THEOREM AcceptorOwned == Spec => []OneAcceptor
  <1>1. IInv => OneAcceptor
    BY DEF IInv
  <1>. QED BY <1>1, Inductive, PTL

-----------------------------------------------------------------------------
(* The sessions implement Connection *)

\* Steps that leave every session's operation alone leave its phase alone.
LEMMA SamePhase ==
  ASSUME UNCHANGED heap, \A x \in heap : sess'[x].op = sess[x].op, heap \subseteq Session
  PROVE  UNCHANGED phase
  BY DEF phase

\* A step that changes the phase of s only.
LEMMA PhaseStep ==
  ASSUME NEW s \in Session, NEW to, heap' \ {s} = heap \ {s}, phase'[s] = to,
         \A x \in Session \ {s} : sess'[x] = sess[x]
  PROVE  phase' = [phase EXCEPT ![s] = to]
  BY DEF phase

LEMMA MainRefines ==
  ASSUME IInv, Main
  PROVE  C!Next \/ UNCHANGED phase
  <1>1. CASE main_start_accept
    <2>1. heap = {}
      BY <1>1 DEF main_start_accept, IInv, Placed, Running
    <2>2. PICK new \in Session :
             /\ heap' = heap \cup {new}
             /\ sess' = [sess EXCEPT ![new] = [NewSession EXCEPT !.op = "accept"]]
      BY <1>1 DEF main_start_accept, Listen
    <2>3. /\ sess'[new].op = "accept" /\ phase'[new] = "listening"
          /\ \A x \in Session \ {new} : sess'[x] = sess[x]
      BY <2>2 DEF IInv, TypeOK, NewSession, phase
    <2>4. \A x \in Session : phase[x] = "none"
      BY <2>1 DEF phase
    <2>5. phase' = [phase EXCEPT ![new] = "listening"]
      BY <2>2, <2>3, PhaseStep
    <2>. QED BY <2>4, <2>5 DEF C!Next, C!Wait, C!Becomes
  <1>2. CASE ~main_start_accept
    <2>1. UNCHANGED <<heap, sess>>
      BY <1>2 DEF Main, main_parse, main_construct, create_router, run, join, main_catch
    <2>. QED BY <2>1 DEF phase
  <1>. QED BY <1>1, <1>2

LEMMA ProceedRefines ==
  ASSUME IInv, NEW t \in Thread, Proceed(t)
  PROVE  C!Next \/ UNCHANGED phase
  <1>. DEFINE s == frame[t].s
  <1>1. CASE UNCHANGED <<heap, sess>>
    BY <1>1 DEF phase
  <1>2. CASE read(t)
    <2>1. UNCHANGED heap /\ s \in heap /\ s \in Session /\ sess[s].op = "none"
      BY <1>2 DEF read, proc, IInv, Placed, Ownership, Pending, Touches
    <2>. HIDE DEF s
    <2>2. sess'[s].op = "read" /\ \A x \in Session \ {s} : sess'[x] = sess[x]
      BY <1>2, <2>1 DEF read, BeginRead, IInv, TypeOK, SessionState, s
    <2>. QED BY <2>1, <2>2 DEF phase
  <1>3. CASE start_accept(t)
    <2>1. PICK new \in Session \ heap :
             /\ heap' = heap \cup {new}
             /\ sess' = [sess EXCEPT ![new] = [NewSession EXCEPT !.op = "accept"]]
      BY <1>3 DEF start_accept, Listen
    <2>2. /\ sess'[new].op = "accept" /\ phase'[new] = "listening"
          /\ \A x \in Session \ {new} : sess'[x] = sess[x]
      BY <2>1 DEF IInv, TypeOK, NewSession, phase
    <2>3. \A x \in Session : sess[x].op # "accept"
      BY <1>3 DEF start_accept, IInv, Placed, Running, OneAcceptor, Accepting, Rearming
    <2>4. phase[new] = "none" /\ \A x \in Session : phase[x] # "listening"
      BY <2>1, <2>3 DEF phase
    <2>5. phase' = [phase EXCEPT ![new] = "listening"]
      BY <2>1, <2>2, PhaseStep
    <2>. QED BY <2>4, <2>5 DEF C!Next, C!Wait, C!Becomes
  <1>4. CASE write(t)
    <2>1. UNCHANGED heap /\ s \in heap /\ s \in Session /\ sess[s].op = "none"
      BY <1>4 DEF write, proc, IInv, Placed, Ownership, Pending, Touches
    <2>. HIDE DEF s
    <2>2. sess'[s].op = "write" /\ \A x \in Session \ {s} : sess'[x] = sess[x]
      BY <1>4, <2>1, WriteBegins DEF IInv, s
    <2>3. phase[s] = "open" /\ phase'[s] = "replying"
      BY <2>1, <2>2 DEF phase
    <2>4. phase' = [phase EXCEPT ![s] = "replying"]
      BY <2>1, <2>2, <2>3, PhaseStep
    <2>. QED BY <2>1, <2>3, <2>4 DEF C!Next, C!Reply, C!Becomes
  <1>. QED BY <1>1, <1>2, <1>3, <1>4
           DEF Proceed, start, handle_valid_request, handle_error, write_return

LEMMA DispatchRefines ==
  ASSUME IInv, NEW t \in Thread, NEW s \in Session, Dispatch(t, s)
  PROVE  C!Next \/ UNCHANGED phase
  <1>0. s \in heap
    BY DEF Dispatch, handle_accept, handle_read, handle_success, handle_error,
           handle_invalid_request, handle_write, close, IInv, Ownership, Pending
  <1>1. ASSUME Free(s), sess[s].op = "accept"
        PROVE  C!Next
    <2>1. phase[s] = "listening" /\ phase'[s] = "none"
      BY <1>0, <1>1 DEF Free, phase
    <2>2. phase' = [phase EXCEPT ![s] = "none"]
      BY <1>1, <2>1, PhaseStep DEF Free, IInv, TypeOK
    <2>. QED BY <2>1, <2>2 DEF C!Next, C!Refuse, C!Becomes
  <1>2. ASSUME Free(s), sess[s].op = "write"
        PROVE  C!Next
    <2>1. phase[s] = "replying" /\ phase'[s] = "none"
      BY <1>0, <1>2 DEF Free, phase
    <2>2. phase' = [phase EXCEPT ![s] = "none"]
      BY <1>2, <2>1, PhaseStep DEF Free, IInv, TypeOK
    <2>. QED BY <2>1, <2>2 DEF C!Next, C!Close, C!Becomes
  <1>3. ASSUME UNCHANGED heap, sess' = [sess EXCEPT ![s].op = "none"], sess[s].op = "accept"
        PROVE  C!Next
    <2>1. sess'[s].op = "none" /\ \A x \in Session \ {s} : sess'[x] = sess[x]
      BY <1>3 DEF IInv, TypeOK, SessionState
    <2>2. phase[s] = "listening" /\ phase'[s] = "open"
      BY <1>0, <1>3, <2>1 DEF phase
    <2>3. phase' = [phase EXCEPT ![s] = "open"]
      BY <1>3, <2>1, <2>2, PhaseStep
    <2>. QED BY <2>2, <2>3 DEF C!Next, C!Accept, C!Becomes
  <1>4. ASSUME UNCHANGED heap, sess' = [sess EXCEPT ![s].op = "none"], sess[s].op = "read"
        PROVE  UNCHANGED phase
    <2>1. sess'[s].op = "none" /\ \A x \in Session \ {s} : sess'[x] = sess[x]
      BY <1>4 DEF IInv, TypeOK, SessionState
    <2>. QED BY <1>4, <2>1 DEF phase
  <1>5. CASE UNCHANGED <<heap, sess>>
    BY <1>5 DEF phase
  <1>. QED BY <1>1, <1>2, <1>3, <1>4, <1>5
           DEF Dispatch, handle_accept, handle_read, handle_success, handle_error,
                  handle_invalid_request, handle_write, close

\* Every step of the server is a step of Connection or leaves it alone: a client
\* that server.cc accepts is answered once by session.cc, then its slot is free.
THEOREM ConnectionImplemented == Spec => ImplementsConnection
  <1>1. Init => C!Init
    BY DEF Init, C!Init, phase
  <1>2. IInv /\ [Next]_vars => [C!Next]_phase
    <2> SUFFICES ASSUME IInv, [Next]_vars PROVE C!Next \/ UNCHANGED phase
      OBVIOUS
    <2>1. CASE UNCHANGED vars
      BY <2>1 DEF vars, phase
    <2>2. CASE Main
      BY <2>2, MainRefines
    <2>3. ASSUME NEW t \in Thread, Proceed(t) PROVE C!Next \/ UNCHANGED phase
      BY <2>3, ProceedRefines
    <2>4. ASSUME NEW t \in Thread, signal_handler(t) PROVE UNCHANGED phase
      BY <2>4 DEF signal_handler, phase
    <2>5. ASSUME NEW t \in Thread, NEW s \in Session, Dispatch(t, s)
          PROVE  C!Next \/ UNCHANGED phase
      BY <2>5, DispatchRefines
    <2>6. ASSUME NEW s \in Session, Kernel(s) \/ Client(s) PROVE UNCHANGED phase
      <3>1. UNCHANGED heap
        BY <2>6 DEF Kernel, Client, ReadReady, WriteMore, Connect, AcceptError,
                    ClientSends, ClientCloses, ClientResets, Env
      <3>2. \A x \in Session : sess'[x].op = sess[x].op
        BY <2>6, EnvironmentKeepsOps
      <3>. QED BY <3>1, <3>2, SamePhase DEF IInv, TypeOK
    <2>7. CASE RaiseSignal
      BY <2>7 DEF RaiseSignal, phase
    <2>. QED BY <2>1, <2>2, <2>3, <2>4, <2>5, <2>6, <2>7 DEF Next, Up, Ended
  <1>. QED BY <1>1, <1>2, Inductive, PTL DEF Spec, ImplementsConnection, C!Spec
=============================================================================
