------------------------------ MODULE TextQueue ------------------------------
(***************************************************************************)
(* The two text queues of a connection, interface.c: what the server wants *)
(* to send, and the lines that its commands come from. A queue is a chain  *)
(* of blocks with a pointer to its last link. process_output() writes what *)
(* the socket takes, perhaps a part of a block; queue_write() makes room   *)
(* when there is more than tp_max_output by dropping blocks from the front *)
(* and putting a notice in their place. process_commands() runs a line for *)
(* each command of the quota, which update_quotas() refills with time; the *)
(* lines of a player whose foreground program runs wait, unless they are   *)
(* interface commands.                                                     *)
(*                                                                         *)
(* Characters are numbers in the order in which the server writes them; 0  *)
(* is a character of the notice.                                           *)
(*                                                                         *)
(* Left out: what bypasses the queues (goodbye_user(), answers to telnet   *)
(* options), STARTTLS, and the assembly of lines.                          *)
(***************************************************************************)
EXTENDS Integers, Sequences, FiniteSets, SequencesExt

CONSTANTS
    Blocks,                 \* addresses of text blocks
    NULL,
    tp_max_output,
    Notice,                 \* the length of flushed_message
    MaxLine,                \* bound on the length of what is written at once
    MaxText,                \* bound on the characters written
    tp_command_burst_size,
    tp_commands_per_time,
    tp_command_time,        \* the length of a slice
    MaxTurn,                \* bound on the time of a turn of the main loop
    MaxBack,                \* bound on how often the clock is set back
    MaxCredit,              \* bound on the quota that MCP messages give
    MaxInput                \* bound on lines that wait; 100 in the code

ASSUME QueueAssumption == /\ IsFiniteSet(Blocks) /\ NULL \notin Blocks /\ "head" \notin Blocks
                          /\ {tp_max_output, MaxLine, MaxText, MaxInput, MaxTurn, MaxBack, MaxCredit} \subseteq Nat
                          /\ Notice \in Nat \ {0}
                          /\ {tp_command_burst_size, tp_commands_per_time, tp_command_time} \subseteq Nat \ {0}

VARIABLES
    block,                  \* the blocks that are allocated
    queue,                  \* d->output: head, tail, lines
    output_size,
    booted,                 \* the socket has failed
    written,                \* characters written by the server
    wire,                   \* what has gone to the socket
    input,                  \* d->input: what kind of line each is
    blocked,                \* d->connected && PLAYER_BLOCK(d->player)
    quota,
    since,                  \* the time since last_slice
    back                    \* how often the clock was set back

output == <<block, queue, output_size, written>>
vars == <<output, booted, wire, input, blocked, quota, since, back>>

(* QUIT, WHO, @Q and the like; "#$#" lines that MCP takes, and those that  *)
(* it leaves to the game.                                                  *)
InterfaceCommands == {"command", "mcp", "#$#"}
Lines == InterfaceCommands \cup {"line", "blank"}

Links == Blocks \cup {NULL}
AtHead == "head"             \* the link d->output.head, as an address

TypeOK ==
    /\ DOMAIN block \subseteq Blocks
    /\ \A b \in DOMAIN block : block[b].text \in Seq(0 .. MaxText) /\ block[b].nxt \in Links
    /\ queue \in [head : Links, tail : Blocks \cup {AtHead}, lines : Nat]
    /\ output_size \in Nat /\ booted \in BOOLEAN /\ written \in 0 .. MaxText
    /\ wire \in Seq(0 .. MaxText)
    /\ input \in Seq(Lines) /\ Len(input) <= MaxInput /\ blocked \in BOOLEAN
    /\ quota \in 0 .. tp_command_burst_size + MaxCredit
    /\ since \in -(tp_command_time - 1) .. tp_command_time - 1 /\ back \in 0 .. MaxBack

-----------------------------------------------------------------------------
(* Chains. *)

(* The blocks from first on; one that came round again would go on to the  *)
(* number of blocks there are.                                             *)
Chain(blocks, first) ==
    LET next == [b \in Links |-> IF b \in DOMAIN blocks THEN blocks[b].nxt ELSE NULL]
        at[n \in 1 .. Cardinality(Blocks)] == IF n = 1 THEN first ELSE next[at[n - 1]]
    IN [i \in 1 .. Cardinality({n \in DOMAIN at : at[n] # NULL}) |-> at[i]]

Text(blocks, chain) == FlattenSeq([i \in 1 .. Len(chain) |-> blocks[chain[i]].text])

Size(blocks, chain) == Len(Text(blocks, chain))

Freed(blocks, S) == [b \in DOMAIN blocks \ S |-> blocks[b]]

(* q->tail names a link: that of the head, or that of a block. *)
Store(q, blocks, link, b) ==
    IF link = AtHead THEN [q |-> [q EXCEPT !.head = b], blocks |-> blocks]
    ELSE [q |-> q, blocks |-> [blocks EXCEPT ![link].nxt = b]]

-----------------------------------------------------------------------------
(* Output. *)

Unused(blocks) == CHOOSE b \in Blocks : b \notin DOMAIN blocks
Make(blocks, b, text, nxt) ==
    [x \in DOMAIN blocks \cup {b} |-> IF x = b THEN [text |-> text, nxt |-> nxt] ELSE blocks[x]]

(* add_to_queue() *)
AddToQueue(s, text) ==
    IF text = << >> THEN s
    ELSE LET b == Unused(s.blocks)
             stored == Store(s.q, Make(s.blocks, b, text, NULL), s.q.tail, b)
         IN [q |-> [stored.q EXCEPT !.tail = b, !.lines = @ + 1], blocks |-> stored.blocks]

(* How many blocks flush_queue() drops to get rid of n characters. *)
Dropped(blocks, chain, n) ==
    CHOOSE k \in 0 .. Len(chain) :
        /\ k = Len(chain) \/ Size(blocks, SubSeq(chain, 1, k)) >= n
        /\ \A j \in 0 .. k - 1 : Size(blocks, SubSeq(chain, 1, j)) < n

\* Slip: the tail is left where it was.
TailKept(q, b, nxt) == q.tail

\* Where the tail is after flush_queue() has put b in front.
TailAfter(q, b, nxt) == IF nxt = NULL THEN b ELSE q.tail

\* Slip: the notice is not counted.
FlushedSize(dropped) == dropped

(* What flush_queue() returns. *)
ReallyFlushed(dropped) == dropped - Notice

\* Slip: no notice when all is dropped.
NoticeOf(rest) == IF rest = NULL THEN << >> ELSE [n \in 1 .. Notice |-> 0]

NoticeText(rest) == [n \in 1 .. Notice |-> 0]

\* Slip: no room for the notice.
RoomForText(n) == n

Room(n) == n + Notice

(* flush_queue(): makes room for n characters and for the notice. *)
FlushQueue(s, n) ==
    LET chain == Chain(s.blocks, s.q.head)
        k == Dropped(s.blocks, chain, Room(n))
        rest == IF k = Len(chain) THEN NULL ELSE chain[k + 1]
        left == Freed(s.blocks, {chain[i] : i \in 1 .. k})
        b == Unused(left)
    IN [q |-> [head |-> b, tail |-> TailAfter(s.q, b, rest), lines |-> s.q.lines - k + 1],
        blocks |-> Make(left, b, NoticeText(rest), rest),
        flushed |-> ReallyFlushed(Size(s.blocks, SubSeq(chain, 1, k)))]

(* queue_write() *)
QueueWrite(n) ==
    /\ ~booted /\ written + n <= MaxText
    /\ Cardinality(DOMAIN block) + 2 <= Cardinality(Blocks)
    /\ LET s == [q |-> queue, blocks |-> block]
           space == tp_max_output - output_size - n
           made == IF space < 0 THEN FlushQueue(s, -space) ELSE [q |-> queue, blocks |-> block, flushed |-> 0]
           after == AddToQueue([q |-> made.q, blocks |-> made.blocks], [i \in 1 .. n |-> written + i])
       IN /\ queue' = after.q /\ block' = after.blocks
          /\ output_size' = output_size - made.flushed + n
    /\ written' = written + n
    /\ UNCHANGED <<booted, wire, input, blocked, quota, since, back>>

\* Slip: the block is written from its beginning again.
RestAgain(text, cnt) == text

\* What is left of a block of which cnt characters are written.
Rest(text, cnt) == SubSeq(text, cnt + 1, Len(text))

(* process_output(): whole blocks, and then perhaps a part of one, until   *)
(* the socket takes no more.                                               *)
ProcessOutput(whole, part) ==
    /\ ~booted /\ queue.lines # 0 /\ whole <= queue.lines
    /\ UNCHANGED <<booted, written, input, blocked, quota, since, back>>
    /\ LET chain == Chain(block, queue.head)
           next == chain[whole + 1]
           done == SubSeq(chain, 1, whole)
       IN /\ whole + part > 0
          /\ part > 0 => whole < Len(chain) /\ part < Len(block[next].text)
          /\ wire' = wire \o Text(block, done) \o IF part > 0 THEN SubSeq(block[next].text, 1, part) ELSE << >>
          /\ output_size' = output_size - Size(block, done) - part
          /\ queue' = IF whole = Len(chain) THEN [head |-> NULL, tail |-> AtHead, lines |-> 0]
                      ELSE [queue EXCEPT !.head = next, !.lines = @ - whole]
          /\ block' = LET left == Freed(block, {chain[i] : i \in 1 .. whole})
                      IN IF part > 0 THEN [left EXCEPT ![next].text = Rest(@, part)] ELSE left

(* An error other than EWOULDBLOCK: the caller sets d->booted. *)
OutputFails ==
    /\ ~booted /\ queue.lines # 0
    /\ booted' = TRUE
    /\ UNCHANGED <<output, wire, input, blocked, quota, since, back>>

-----------------------------------------------------------------------------
(* Input. *)

(* save_command(); select() does not look at a connection that is full. *)
Type(line) ==
    /\ ~booted /\ Len(input) < MaxInput
    /\ input' = Append(input, line)
    /\ UNCHANGED <<output, booted, wire, blocked, quota, since, back>>

\* C divides towards zero.
Slices(t) == IF t >= 0 THEN t \div tp_command_time ELSE -((-t) \div tp_command_time)

Capped(more) == IF more > tp_command_burst_size THEN tp_command_burst_size ELSE more

\* Slip: the slice starts anew each time.
SinceNow(t) == 0

\* What update_quotas() returns, seen from now.
SinceSlice(t) == t - Slices(t) * tp_command_time

(* A turn of the main loop, t after the last: update_quotas(). An          *)
(* interactive player gets eight times as much.                            *)
Turn(t, interactive) ==
    /\ LET slices == Slices(since + t)
           more == quota + slices * tp_commands_per_time * IF interactive THEN 8 ELSE 1
       IN quota' = IF slices <= 0 THEN quota ELSE Capped(more)
    /\ since' = SinceSlice(since + t)
    /\ back' = IF t < 0 THEN back + 1 ELSE back
    /\ back' <= MaxBack
    /\ UNCHANGED <<output, booted, wire, input, blocked>>

\* PLAYER_BLOCK is set or cleared: a foreground program starts, waits, ends.
Block == /\ ~booted /\ blocked' = ~blocked
         /\ UNCHANGED <<output, booted, wire, input, quota, since, back>>

(* What a line does to the quota: one less, unless it starts with "#$#";   *)
(* one more if MCP takes it.                                               *)
Charge(line) == CASE line = "mcp" -> 1 [] line = "#$#" -> 0 [] OTHER -> -1

(* process_commands() and do_command(). QUIT closes the connection. A line *)
(* that is held up stays where it is, though there is quota.               *)
ProcessCommand ==
    /\ ~booted /\ quota > 0 /\ input # << >>
    /\ blocked => input[1] \in InterfaceCommands
    /\ input' = Tail(input)
    /\ quota' = quota + Charge(input[1])
    /\ quota' <= tp_command_burst_size + MaxCredit
    /\ booted' \in IF input[1] = "command" THEN BOOLEAN ELSE {FALSE}
    /\ UNCHANGED <<output, wire, blocked, since, back>>

(* A blank line that is held up is eaten if no program waits for a READ    *)
(* event (read_event_notify()), and costs nothing.                         *)
EatBlank ==
    /\ ~booted /\ quota > 0 /\ input # << >>
    /\ blocked /\ input[1] = "blank"
    /\ input' = Tail(input)
    /\ UNCHANGED <<output, booted, wire, blocked, quota, since, back>>

-----------------------------------------------------------------------------
Init ==
    /\ block = << >> /\ queue = [head |-> NULL, tail |-> AtHead, lines |-> 0]
    /\ output_size = 0 /\ written = 0 /\ wire = << >> /\ booted = FALSE
    /\ input = << >> /\ blocked = FALSE /\ quota = tp_command_burst_size /\ since = 0 /\ back = 0

Send == \E whole \in 0 .. queue.lines, part \in 0 .. MaxLine + Notice : ProcessOutput(whole, part)

Next == \/ \E n \in 0 .. MaxLine : QueueWrite(n)
        \/ Send \/ OutputFails
        \/ \E line \in Lines : Type(line)
        \/ \E t \in -MaxTurn .. MaxTurn, interactive \in BOOLEAN : Turn(t, interactive)
        \/ Block \/ ProcessCommand \/ EatBlank

Spec == Init /\ [][Next]_vars

(* The socket takes something in the end, time passes, and the main loop   *)
(* looks at every connection.                                              *)
FairSpec == /\ Spec /\ WF_vars(Send) /\ WF_vars(ProcessCommand)
            /\ WF_vars(Turn(1, FALSE))

-----------------------------------------------------------------------------
(* Properties. *)

(* The chain ends where the tail pointer says, and the counts of blocks    *)
(* and characters are those of the chain, whatever was sent in part and    *)
(* dropped.                                                                *)
QueueAgrees == TypeOK /\
    LET chain == Chain(block, queue.head)
    IN /\ Len(chain) = queue.lines /\ DOMAIN block = {chain[i] : i \in 1 .. Len(chain)}
       /\ queue.tail = IF chain = << >> THEN AtHead ELSE chain[Len(chain)]
       /\ chain # << >> => block[chain[Len(chain)]].nxt = NULL
       /\ output_size = Size(block, chain)

(* The queue is within its limit, unless there is nothing in it but the    *)
(* notice and what was written last.                                       *)
SizeBound == output_size <= tp_max_output \/ queue.lines <= 2

(* What has been sent and what is still to be sent are the characters that *)
(* were written, in their order and none twice; and where some are missing *)
(* there is a whole notice, at the end, too.                               *)
NothingLostSilently ==
    LET text == wire \o Text(block, Chain(block, queue.head)) \o <<written + 1>>
        Before(i) == {0} \cup {j \in 1 .. i - 1 : text[j] # 0}
    IN ~booted => \A i \in 1 .. Len(text) : text[i] # 0 =>
           LET j == CHOOSE j \in Before(i) : \A k \in Before(i) : k <= j
               last == IF j = 0 THEN 0 ELSE text[j]
           IN text[i] = last + 1 \/ (text[i] > last /\ i - j > Notice)

(* What was written last arrives, or a notice that it was dropped, as long *)
(* as the connection holds and nothing else is written.                    *)
LastArrives ==
    written = MaxText ~> booted \/ (wire # << >> /\ wire[Len(wire)] \in {0, MaxText})

(* A line is run (or eaten) in the end, though the main loop may turn      *)
(* faster than the quota is made up, and the clock is set back now and     *)
(* then; unless a foreground program holds it up, which it cannot do to an *)
(* interface command.                                                      *)
HeldUp == blocked /\ Head(input) \notin InterfaceCommands
LineIsRun == \A n \in 1 .. MaxInput : Len(input) = n ~> Len(input) # n \/ booted \/ HeldUp
=============================================================================
