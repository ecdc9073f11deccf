--------------------------------- MODULE Gdb ---------------------------------
(***************************************************************************)
(* The gdb server: bytes of the debugger arrive in pieces and raise SIGIO, *)
(* whose handler sets a flag; gdbserver_loop reads, handles at most one    *)
(* packet and runs the core, which comes back for the flag or at a         *)
(* breakpoint.  A packet is '$', a command, perhaps an argument, '#' and   *)
(* two digits; replies are whole.  The debugger waits for the reply to a   *)
(* packet before it sends the next one, and interrupts a core it believes  *)
(* to be running.                                                          *)
(***************************************************************************)
EXTENDS Naturals, Sequences

CONSTANTS
    BpAddrs,         \* addresses of breakpoints; "0" marks a free slot
    BpSlots,         \* GDB_FETCCH_BREAKPOINT_NUM
    MemReads,        \* memory the debugger reads: "ok", "zero" or "fault"
    RecvMax          \* size of the receive buffer

VARIABLES
    net, sock,       \* bytes under way to the emulator, and arrived
    sigio,           \* SIGIO is raised and its handler has not run
    has_message,     \* gdbserver_has_message
    receive_buf,     \* the first receive_buf_bytes bytes of it
    can_run,         \* cpu_can_run
    bps,             \* gdb_fetch_breakpoint
    replies,         \* under way to the debugger
    loop,            \* where gdbserver_loop is
    dbg              \* the debugger: its last request and what it waits for

gdbVars == <<net, sock, sigio, has_message, receive_buf, can_run, bps, replies, loop, dbg>>

Interrupt == "^C"
Commands == {<<c>> : c \in {"?", "g", "q", "H", "c", "k"}}
Resumes == {<<"c", "digit">>, <<"c", "digit", "digit">>}     \* continue at an address
Requests == Commands \cup ({"Z", "z"} \X (BpAddrs \cup {"watch"})) \cup ({"m"} \X MemReads) \cup Resumes
Packet(r) == <<"$">> \o r \o <<"#", "h", "h">>

NoRequest == [req |-> <<"?">>, wait |-> "none", running |-> FALSE, intr |-> FALSE, known |-> {}]

(* The debugger may have sent its first packet before SIGIO was switched on *)
GdbInit ==
    /\ net = <<>> /\ sigio = FALSE /\ has_message = TRUE
    /\ \/ sock = <<>> /\ dbg = NoRequest
       \/ sock = Packet(<<"?">>) /\ dbg = [NoRequest EXCEPT !.wait = "ack"]
    /\ receive_buf = <<>> /\ can_run = FALSE /\ bps = [i \in 1 .. BpSlots |-> "0"]
    /\ replies = <<>> /\ loop = "test"

-----------------------------------------------------------------------------
(* The network and the signal *)
Arrive ==
    /\ loop # "exit"
    /\ \E k \in 1 .. Len(net) : sock' = sock \o SubSeq(net, 1, k) /\ net' = SubSeq(net, k + 1, Len(net))
    /\ sigio' = TRUE
    /\ UNCHANGED <<has_message, receive_buf, can_run, bps, replies, loop, dbg>>

io_handler ==
    /\ sigio /\ loop # "exit"
    /\ sigio' = FALSE /\ has_message' = TRUE
    /\ UNCHANGED <<net, sock, receive_buf, can_run, bps, replies, loop, dbg>>

-----------------------------------------------------------------------------
(* gdbserver_read_message: the flag is cleared before the read *)
TestMessage ==
    /\ loop = "test"
    /\ loop' = IF has_message THEN "read" ELSE "handle"
    /\ has_message' = FALSE
    /\ UNCHANGED <<net, sock, sigio, receive_buf, can_run, bps, replies, dbg>>

ReadMessage ==
    /\ loop = "read"
    /\ LET room == RecvMax - Len(receive_buf)
           k == IF Len(sock) <= room THEN Len(sock) ELSE room
       IN /\ receive_buf' = receive_buf \o SubSeq(sock, 1, k)
          /\ sock' = SubSeq(sock, k + 1, Len(sock))
    /\ loop' = "test"
    /\ UNCHANGED <<net, sigio, has_message, can_run, bps, replies, dbg>>

(* gdbserver_handle_message: acknowledgements and interrupts are taken off first *)
Skipped(b) == CHOOSE k \in 0 .. Len(b) :
    /\ \A i \in 1 .. k : b[i] \in {"+", Interrupt}
    /\ k = Len(b) \/ b[k + 1] \notin {"+", Interrupt}

Interrupts(b) == {i \in 1 .. Skipped(b) : b[i] = Interrupt}
Stopped(b) == [i \in 1 .. Len(SelectSeq(SubSeq(b, 1, Skipped(b)), LAMBDA t : t = Interrupt)) |-> "S02"]

(* The length of the packet that b starts with, 0 if it is not complete *)
PacketSize(b) ==
    LET ends == {i \in 1 .. Len(b) : b[i] = "#"}
        end == CHOOSE i \in ends : \A j \in ends : i <= j
    IN IF ends = {} THEN 0 ELSE IF end + 2 > Len(b) THEN 0 ELSE end + 2

(* Mutant: the digits of the checksum stay in the buffer *)
MoveShort(b, n) == SubSeq(b, n - 1, Len(b))

(* The closing memmove: it moves n bytes, whatever is left *)
Moved(b, n) == [i \in 1 .. Len(b) - n |-> IF i <= n THEN b[i + n] ELSE b[i]]

FreeSlots == {i \in 1 .. BpSlots : bps[i] = "0"}
FirstFree == CHOOSE i \in FreeSlots : \A j \in FreeSlots : i <= j

insert_breakpoint(a) == IF FreeSlots = {} THEN bps ELSE [bps EXCEPT ![FirstFree] = a]
remove_breakpoint(a) == [i \in 1 .. BpSlots |-> IF bps[i] = a THEN "0" ELSE bps[i]]

(* payload_size <= 2: the core goes on where it is, at an address of one digit
   too; a longer one is refused *)
Continues(b) == b[2] = "c" /\ PacketSize(b) - 4 <= 2

(* Every request is acknowledged, then answered; a read that faults is answered
   inside the loop over its bytes and again after it *)
Answer(b) ==
    LET cmd == b[2]
        a == b[3]
    IN
    CASE cmd = "?" -> <<"+", "S05">>
      [] cmd \in {"g", "q"} -> <<"+", "data">>
      [] cmd = "m" -> (IF a = "zero" THEN <<"+", "E14">>
                       ELSE IF a = "fault" THEN <<"+", "E14", "+", "data">> ELSE <<"+", "data">>)
      [] cmd = "Z" -> <<"+", IF a # "watch" /\ FreeSlots # {} THEN "OK" ELSE "empty">>
      [] cmd = "z" -> <<"+", IF a # "watch" THEN "OK" ELSE "empty">>
      [] cmd = "c" -> <<"+", IF Continues(b) THEN "OK" ELSE "empty">>
      [] OTHER -> <<"+", "empty">>

(* What is left after them: nothing to act on yet, the end, or a packet *)
Unhandled(b) == SubSeq(b, Skipped(b) + 1, Len(b))
Framed(b) == b # <<>> => Head(b) = "$"
Kills(b) == PacketSize(b) > 0 /\ b[2] = "k"

HandleNothing ==
    /\ loop = "handle" /\ Framed(Unhandled(receive_buf)) /\ PacketSize(Unhandled(receive_buf)) = 0
    /\ receive_buf' = Unhandled(receive_buf)
    /\ replies' = replies \o Stopped(receive_buf)
    /\ can_run' = (can_run /\ Interrupts(receive_buf) = {})
    /\ loop' = IF can_run' THEN "exec" ELSE "test"
    /\ UNCHANGED <<net, sock, sigio, has_message, bps, dbg>>

HandleExit ==
    /\ loop = "handle" /\ (~Framed(Unhandled(receive_buf)) \/ Kills(Unhandled(receive_buf)))
    /\ loop' = "exit" /\ replies' = replies \o Stopped(receive_buf)
    /\ UNCHANGED <<net, sock, sigio, has_message, receive_buf, can_run, bps, dbg>>

HandlePacket ==
    /\ loop = "handle" /\ Framed(Unhandled(receive_buf))
    /\ PacketSize(Unhandled(receive_buf)) > 0 /\ ~Kills(Unhandled(receive_buf))
    /\ LET b == Unhandled(receive_buf)
       IN /\ receive_buf' = Moved(b, PacketSize(b))
          /\ replies' = replies \o Stopped(receive_buf) \o Answer(b)
          /\ can_run' = (Continues(b) \/ (can_run /\ Interrupts(receive_buf) = {}))
          /\ bps' = IF b[2] = "Z" /\ b[3] # "watch" THEN insert_breakpoint(b[3])
                    ELSE IF b[2] = "z" THEN remove_breakpoint(b[3]) ELSE bps
    /\ loop' = IF can_run' THEN "exec" ELSE "test"
    /\ UNCHANGED <<net, sock, sigio, has_message, dbg>>

(* exec_env looks at the flag and then at the breakpoints before each instruction *)
MessageStops ==
    /\ loop = "exec" /\ has_message
    /\ loop' = "test"
    /\ UNCHANGED <<net, sock, sigio, has_message, receive_buf, can_run, bps, replies, dbg>>

BreakpointStops ==
    /\ loop = "exec" /\ ~has_message
    /\ \E i \in 1 .. BpSlots : bps[i] # "0"
    /\ replies' = Append(replies, "S05") /\ can_run' = FALSE /\ loop' = "test"
    /\ UNCHANGED <<net, sock, sigio, has_message, receive_buf, bps, dbg>>

(* After an exit the emulator is started again, for a new debugger *)
Restart ==
    /\ loop = "exit"
    /\ net' = <<>> /\ sock' = <<>> /\ sigio' = FALSE /\ has_message' = TRUE
    /\ receive_buf' = <<>> /\ can_run' = FALSE /\ bps' = [i \in 1 .. BpSlots |-> "0"]
    /\ replies' = <<>> /\ loop' = "test" /\ dbg' = NoRequest

-----------------------------------------------------------------------------
(* The debugger *)
SendRequest ==
    /\ dbg.wait = "none" /\ ~dbg.running
    /\ \E r \in Requests :
        /\ net' = net \o Packet(r)
        /\ dbg' = [dbg EXCEPT !.req = r, !.wait = "ack",
                              !.known = IF r[1] = "z" THEN @ \ {r[2]} ELSE @]
    /\ UNCHANGED <<sock, sigio, has_message, receive_buf, can_run, bps, replies, loop>>

SendInterrupt ==
    /\ dbg.running /\ ~dbg.intr
    /\ net' = Append(net, Interrupt) /\ dbg' = [dbg EXCEPT !.intr = TRUE]
    /\ UNCHANGED <<sock, sigio, has_message, receive_buf, can_run, bps, replies, loop>>

(* A reply is acknowledged; one that comes instead of an acknowledgement, the
   answer to an interrupt that met a breakpoint, is dropped *)
Receive ==
    /\ replies # <<>>
    /\ replies' = Tail(replies)
    /\ LET t == Head(replies)
           answered == [dbg EXCEPT !.wait = "none", !.running = (dbg.req[1] = "c" /\ t # "empty"),
                                   !.known = IF dbg.req[1] = "Z" /\ t = "OK" THEN @ \cup {dbg.req[2]} ELSE @]
       IN \/ t = "+" /\ dbg' = [dbg EXCEPT !.wait = "reply"] /\ net' = net
          \/ t # "+" /\ dbg.wait = "reply" /\ dbg' = answered /\ net' = Append(net, "+")
          \/ /\ t # "+" /\ dbg.wait = "none" /\ dbg.running
             /\ dbg' = [dbg EXCEPT !.running = FALSE, !.intr = FALSE] /\ net' = Append(net, "+")
          \/ t # "+" /\ (dbg.wait = "ack" \/ (dbg.wait = "none" /\ ~dbg.running)) /\ UNCHANGED <<dbg, net>>
    /\ UNCHANGED <<sock, sigio, has_message, receive_buf, can_run, bps, loop>>

GdbNext ==
    \/ Arrive \/ io_handler \/ TestMessage \/ ReadMessage
    \/ HandleNothing \/ HandleExit \/ HandlePacket \/ MessageStops \/ BreakpointStops \/ Restart
    \/ SendRequest \/ SendInterrupt \/ Receive

GdbSpec == GdbInit /\ [][GdbNext]_gdbVars

-----------------------------------------------------------------------------
(* The buffer starts with something handle_message acts on *)
Actionable(b) ==
    \/ Interrupts(b) # {}
    \/ PacketSize(Unhandled(b)) > 0

Underway == net # <<>> \/ sock # <<>> \/ Actionable(receive_buf) \/ replies # <<>>

(* However its bytes are split, and whenever the signal comes, the server hears
   the debugger: it exits only when killed, bytes that have arrived are announced
   to the loop, the core never runs while the buffer holds something to act on,
   a debugger that waits has an answer coming, and between requests the
   breakpoints it believes in are those exec_env stops at *)
GdbHears ==
    /\ loop = "exit" => dbg.req = <<"k">>
    /\ sock # <<>> => sigio \/ has_message \/ loop = "read" \/ loop = "exit"
    /\ loop = "exec" /\ Actionable(receive_buf) => has_message
    /\ dbg.wait # "none" \/ dbg.intr => Underway \/ loop = "exit"
    /\ dbg.wait = "none" => {bps[i] : i \in 1 .. BpSlots} \ {"0"} = dbg.known
=============================================================================
