---------------------------- MODULE ConsoleOutput ----------------------------
(***************************************************************************)
(* Text printed to the console, and plugins that redirect it to a channel. *)
(*                                                                         *)
(* Whatever is printed goes through the console_print event; unless a      *)
(* handler stops it, it is added to the buffer of the redirector that      *)
(* PRINT_REDIRECTION holds by then, if any, and printed.  A plugin         *)
(* redirects with a `with redirect_print(channel)` block: entering stores  *)
(* the redirector, leaving gives the channel what the buffer holds and     *)
(* stores nothing.  There is one PRINT_REDIRECTION for all threads; blocks *)
(* nest, in one another and in the handlers of console_print; and the      *)
(* reply of a channel is plugin code, which may print, redirect and raise. *)
(*                                                                         *)
(* A text is a line that ends in a newline; each is printed once, so that  *)
(* it can be told where it went.                                           *)
(***************************************************************************)
EXTENDS ChatChannel, FiniteSets

CONSTANTS
  Threads,       \* Python threads
  Texts,         \* what is ever printed
  Words,         \* per text: its words, as in ChatChannel
  MaxBlocks,     \* bound: redirect_print blocks ever entered
  MaxFlushes,    \* bound: flushes in a block before it is left
  MaxDepth       \* bound: nested blocks, prints and flushes, per thread

ASSUME OutputAssumption ==
  /\ Limit \in Nat /\ MAX_MSG_LENGTH \in Nat
  /\ MaxBlocks \in Nat /\ MaxFlushes \in Nat
  /\ MaxDepth \in [Threads -> Nat]
  /\ \A text \in Texts : Words[text] \in Seq(Word)

\* Every block makes a redirector of its own.
Redirectors == 1 .. MaxBlocks
None == 0

VARIABLES
  PRINT_REDIRECTION, \* the redirector that gets what is printed, or None
  print_buffer,      \* per redirector: what it has got
  stack,             \* per thread: what it is inside of, innermost last
  blocks,            \* blocks entered so far
  printed,           \* texts printed so far
  replies,           \* history: per redirector, what it gave its channel, in order
  mine,              \* history: per text, the block it was printed in, once it is through
  overlapped,        \* history: redirectors another one came after, or beside, while open
  raised             \* history: redirectors whose block was left by an error

state == <<PRINT_REDIRECTION, print_buffer, blocks, printed>>
histories == <<replies, mine, overlapped, raised>>
vars == <<state, stack, histories>>

\* flush and exit wait for the reply of the channel.
Frame ==
  [does: {"block", "flush", "exit"}, of: Redirectors]
  \cup [does: {"print"}, of: Texts]

Top(t) == stack[t][Len(stack[t])]

Does(t, what) == stack[t] # <<>> /\ Top(t).does = what

Push(t, does, of) ==
  /\ Len(stack[t]) < MaxDepth[t]
  /\ stack' = [stack EXCEPT ![t] = Append(@, [does |-> does, of |-> of])]

Pop(t) == stack' = [stack EXCEPT ![t] = Front(@)]

Blocks(t) == {d \in DOMAIN stack[t] : stack[t][d].does \in {"block", "exit"}}

\* The redirectors of the blocks a thread is in.
OpenOn(t) == {stack[t][d].of : d \in Blocks(t)}

\* The block whose output a text printed by the thread is, if any.
BlockOf(t) ==
  IF Blocks(t) = {} THEN None
  ELSE LET f == stack[t][CHOOSE d \in Blocks(t) : \A e \in Blocks(t) : e <= d]
       IN IF f.does = "block" THEN f.of ELSE None

-----------------------------------------------------------------------------
ConsolePrint(t, text) ==
  /\ text \notin printed
  /\ printed' = printed \cup {text}
  /\ Push(t, "print", text)
  /\ UNCHANGED <<PRINT_REDIRECTION, print_buffer, blocks, histories>>

\* A handler of console_print stopped the text.
PrintStopped(t) ==
  /\ Does(t, "print")
  /\ Pop(t)
  /\ UNCHANGED <<state, histories>>

\* The redirector is the one there is when the handlers have returned.
PrintPasses(t) ==
  /\ Does(t, "print")
  /\ print_buffer' =
       IF PRINT_REDIRECTION = None THEN print_buffer
       ELSE [print_buffer EXCEPT ![PRINT_REDIRECTION] = Append(@, Top(t).of)]
  /\ mine' = [mine EXCEPT ![Top(t).of] = BlockOf(t)]
  /\ Pop(t)
  /\ UNCHANGED <<PRINT_REDIRECTION, blocks, printed, replies, overlapped, raised>>

\* Mutant: entering does not take over from another redirector.
EnterBlockIfNone(t) ==
  /\ blocks < MaxBlocks
  /\ blocks' = blocks + 1
  /\ PRINT_REDIRECTION' = IF PRINT_REDIRECTION = None THEN blocks' ELSE PRINT_REDIRECTION
  /\ Push(t, "block", blocks')
  /\ LET others == UNION {OpenOn(u) : u \in Threads \ {t}}
     IN overlapped' = overlapped \cup OpenOn(t) \cup others
                        \cup (IF others = {} THEN {} ELSE {blocks'})
  /\ UNCHANGED <<print_buffer, printed, replies, mine, raised>>

\* Mutant: the number of the redirector is counted up once more.
EnterBlockOffByOne(t) ==
  /\ blocks < MaxBlocks
  /\ blocks' = blocks + 1
  /\ PRINT_REDIRECTION' = blocks' + 1
  /\ Push(t, "block", blocks')
  /\ UNCHANGED <<print_buffer, printed, replies, mine, overlapped, raised>>

EnterBlock(t) ==
  /\ blocks < MaxBlocks
  /\ blocks' = blocks + 1
  /\ PRINT_REDIRECTION' = blocks'
  /\ Push(t, "block", blocks')
  /\ LET others == UNION {OpenOn(u) : u \in Threads \ {t}}
     IN overlapped' = overlapped \cup OpenOn(t) \cup others
                        \cup (IF others = {} THEN {} ELSE {blocks'})
  /\ UNCHANGED <<print_buffer, printed, replies, mine, raised>>

\* Mutant: what has been given to the channel stays in the buffer.
TakeCopy(r) ==
  /\ replies' = [replies EXCEPT ![r] = Append(@, print_buffer[r])]
  /\ UNCHANGED print_buffer

\* The buffer is emptied before the channel gets what was in it.
Take(r) ==
  /\ replies' = [replies EXCEPT ![r] = Append(@, print_buffer[r])]
  /\ print_buffer' = [print_buffer EXCEPT ![r] = <<>>]

\* A block may flush on its way.
Flush(t) ==
  /\ Does(t, "block")
  /\ Len(replies[Top(t).of]) < MaxFlushes
  /\ Take(Top(t).of)
  /\ Push(t, "flush", Top(t).of)
  /\ UNCHANGED <<PRINT_REDIRECTION, blocks, printed, mine, overlapped, raised>>

\* The channel's reply returns, or raises, which the block may catch.
FlushReturns(t) ==
  /\ Does(t, "flush")
  /\ Pop(t)
  /\ UNCHANGED <<state, histories>>

LeaveBlock(t) ==
  /\ Does(t, "block")
  /\ Take(Top(t).of)
  /\ stack' = [stack EXCEPT ![t][Len(stack[t])].does = "exit"]
  /\ UNCHANGED <<PRINT_REDIRECTION, blocks, printed, mine, overlapped, raised>>

\* Mutant: the comparison is inverted; a redirector of its own is left in place.
LeftBlockOfAnother(t) ==
  /\ Does(t, "exit")
  /\ PRINT_REDIRECTION' = IF PRINT_REDIRECTION = Top(t).of THEN PRINT_REDIRECTION ELSE None
  /\ Pop(t)
  /\ UNCHANGED <<print_buffer, blocks, printed, histories>>

LeftBlock(t) ==
  /\ Does(t, "exit")
  /\ PRINT_REDIRECTION' = None
  /\ Pop(t)
  /\ UNCHANGED <<print_buffer, blocks, printed, histories>>

LeaveRaises(t) ==
  /\ Does(t, "exit")
  /\ raised' = raised \cup {Top(t).of}
  /\ Pop(t)
  /\ UNCHANGED <<state, replies, mine, overlapped>>

-----------------------------------------------------------------------------
Init ==
  /\ PRINT_REDIRECTION = None
  /\ print_buffer = [r \in Redirectors |-> <<>>]
  /\ stack = [t \in Threads |-> <<>>]
  /\ blocks = 0
  /\ printed = {}
  /\ replies = [r \in Redirectors |-> <<>>]
  /\ mine = [text \in Texts |-> None]
  /\ overlapped = {} /\ raised = {}

Next ==
  \E t \in Threads :
    \/ \E text \in Texts : ConsolePrint(t, text)
    \/ PrintStopped(t) \/ PrintPasses(t)
    \/ EnterBlock(t) \/ Flush(t) \/ FlushReturns(t)
    \/ LeaveBlock(t) \/ LeftBlock(t) \/ LeaveRaises(t)

Spec == Init /\ [][Next]_vars

-----------------------------------------------------------------------------
(* The types of the variables. *)
TypeOK ==
  /\ PRINT_REDIRECTION \in Redirectors \cup {None}
  /\ print_buffer \in [Redirectors -> Seq(Texts)]
  /\ stack \in [Threads -> Seq(Frame)]
  /\ blocks \in 0 .. MaxBlocks
  /\ printed \subseteq Texts
  /\ replies \in [Redirectors -> Seq(Seq(Texts))]
  /\ mine \in [Texts -> Redirectors \cup {None}]
  /\ overlapped \subseteq Redirectors /\ raised \subseteq Redirectors

OpenBlocks == UNION {OpenOn(t) : t \in Threads}

\* What a redirector gave its channel, and when, and what it still has to give.
Batch(r, k) == IF k = 0 THEN print_buffer[r] ELSE replies[r][k]
Batches(r) == {0} \cup DOMAIN replies[r]

(* What is printed in a block reaches the channel of that block when it is    *)
(* left, also past handlers of console_print and a channel that print         *)
(* themselves: unless another block was entered in it or beside it.           *)
ReachesItsChannel ==
  \A text \in Texts :
    LET r == mine[text]
    IN r # None /\ r \notin overlapped =>
         \E k \in IF r \in OpenBlocks THEN Batches(r) ELSE DOMAIN replies[r] :
           text \in Range(Batch(r, k))

(* No text is given to two channels, or to one of them twice.                 *)
RedirectedOnce ==
  \A r, s \in Redirectors : \A j \in Batches(r), k \in Batches(s) :
    \A a \in DOMAIN Batch(r, j), b \in DOMAIN Batch(s, k) :
      Batch(r, j)[a] = Batch(s, k)[b] => r = s /\ j = k /\ a = b

(* Once all blocks are left the console is redirected no more, in whatever    *)
(* order threads left them: unless the reply of the last one raised, and then *)
(* texts are added to its buffer that no channel ever gets.                   *)
NoRedirectionLeft ==
  OpenBlocks = {} => PRINT_REDIRECTION \in raised \cup {None}

\* Every text ends in a newline, so that there is an empty line after the last.
Lines(texts) == Append([k \in DOMAIN texts |-> Words[texts[k]]], <<>>)

\* What the blocks that are open gave their channels last.
Given == {Last(replies[r]) : r \in {s \in OpenBlocks : replies[s] # <<>>}}

(* Splitting and joining what a channel is given loses and doubles no word;   *)
(* no message is too long but for one that could not be split any further,    *)
(* and but for the color it starts with.                                      *)
MessagesFit ==
  \A texts \in Given :
    LET messages == reply(Lines(texts))
        pieces == FlattenSeq([k \in DOMAIN messages |-> messages[k].pieces])
    IN /\ FlattenSeq(pieces) = FlattenSeq(Lines(texts))
       /\ \A m \in ToSet(messages) :
            MessageLength(m.pieces) <= MAX_MSG_LENGTH \/ Len(m.pieces) = 1
       /\ \A p \in ToSet(pieces) : Length(p) <= Limit \/ Len(p) = 1

(* Every word is shown in the color it would have, had the text not been      *)
(* split: a message starts with the color of what came before, however far    *)
(* back the last color tag is.                                                *)
ColorsCarry ==
  \A texts \in Given :
    LET messages == reply(Lines(texts))
    IN \A k \in DOMAIN messages :
         messages[k].color =
           LastColor(0, FlattenSeq([j \in 1 .. k - 1 |-> messages[j].pieces]))

=============================================================================
