------------------------- MODULE ConsoleOutputProofs -------------------------
(***************************************************************************)
(* What is proved of printing and redirecting, for any number of threads,  *)
(* texts and blocks and any nesting of them.                               *)
(*                                                                         *)
(* There is one PRINT_REDIRECTION for all.  OutputInv says whose it is:    *)
(*   Current     a block that nothing was entered in or beside is the last *)
(*               one of the only thread that is in any, and has it, up to  *)
(*               and with the reply at its end;                            *)
(*   Reaches     what was printed in such a block is with its channel, or  *)
(*               in its buffer while it is not being left;                 *)
(*   Redirected  it belongs to some block, or was left behind by an error; *)
(*   Fresh       a text the handlers have is in no buffer, and no two have *)
(*               the same.                                                 *)
(* There is one lemma on what a step does to the stack of a thread, one on *)
(* what it does to buffers and replies, and one per action that puts them  *)
(* together.                                                               *)
(*                                                                         *)
(* What a channel makes of what it is given comes last, as facts about the *)
(* functions of ChatChannel, which hold for all lines.                     *)
(***************************************************************************)
EXTENDS ConsoleOutput, FiniteSetTheorems, SequenceTheorems, TLAPS

(* A stack of calls, and what is done to its top.                             *)
LEMMA StackMoves ==
  ASSUME NEW S, NEW s \in Seq(S), NEW f \in S
  PROVE  /\ Append(s, f) \in Seq(S)
         /\ Len(s) + 1 \in DOMAIN Append(s, f) /\ Append(s, f)[Len(s) + 1] = f
         /\ \A d \in DOMAIN s : /\ d \in DOMAIN Append(s, f) /\ Append(s, f)[d] = s[d]
                                /\ d \in Nat /\ d < Len(s) + 1
         /\ \A d \in DOMAIN Append(s, f) : d \in DOMAIN s \/ d = Len(s) + 1
         /\ s # <<>> =>
              /\ Len(s) \in DOMAIN s /\ s[Len(s)] \in S
              /\ [s EXCEPT ![Len(s)] = f] \in Seq(S)
              /\ DOMAIN [s EXCEPT ![Len(s)] = f] = DOMAIN s
              /\ [s EXCEPT ![Len(s)] = f][Len(s)] = f
              /\ \A d \in DOMAIN s \ {Len(s)} : [s EXCEPT ![Len(s)] = f][d] = s[d]
              /\ Front(s) \in Seq(S)
              /\ \A d \in DOMAIN Front(s) : d \in DOMAIN s /\ Front(s)[d] = s[d] /\ d < Len(s)
              /\ \A d \in DOMAIN s : d \in DOMAIN Front(s) \/ d = Len(s)
<1>1. /\ Append(s, f) \in Seq(S)
      /\ Len(s) + 1 \in DOMAIN Append(s, f) /\ Append(s, f)[Len(s) + 1] = f
      /\ \A d \in DOMAIN s : /\ d \in DOMAIN Append(s, f) /\ Append(s, f)[d] = s[d]
                             /\ d \in Nat /\ d < Len(s) + 1
      /\ \A d \in DOMAIN Append(s, f) : d \in DOMAIN s \/ d = Len(s) + 1
  OBVIOUS
<1>2. ASSUME s # <<>>
      PROVE  /\ Len(s) \in DOMAIN s /\ s[Len(s)] \in S
             /\ [s EXCEPT ![Len(s)] = f] \in Seq(S)
             /\ DOMAIN [s EXCEPT ![Len(s)] = f] = DOMAIN s
             /\ [s EXCEPT ![Len(s)] = f][Len(s)] = f
             /\ \A d \in DOMAIN s \ {Len(s)} : [s EXCEPT ![Len(s)] = f][d] = s[d]
  <2>1. Len(s) \in DOMAIN s /\ s[Len(s)] \in S
    BY <1>2
  <2> QED
    BY <2>1, ExceptSeq
<1>3. ASSUME s # <<>>
      PROVE  /\ Front(s) \in Seq(S)
             /\ \A d \in DOMAIN Front(s) : d \in DOMAIN s /\ Front(s)[d] = s[d] /\ d < Len(s)
             /\ \A d \in DOMAIN s : d \in DOMAIN Front(s) \/ d = Len(s)
  BY <1>3 DEF Front
<1> QED
  BY <1>1, <1>2, <1>3

(* A call more on a thread.                                                   *)
LEMMA Pushed ==
  ASSUME TypeOK, NEW t \in Threads, NEW does, NEW of, [does |-> does, of |-> of] \in Frame,
         Push(t, does, of)
  PROVE  LET n == Len(stack[t]) + 1
         IN /\ stack' \in [Threads -> Seq(Frame)]
            /\ \A u \in Threads : \A d \in DOMAIN stack[u] :
                 /\ d \in DOMAIN stack'[u] /\ stack'[u][d] = stack[u][d]
                 /\ u = t => d < n
            /\ \A u \in Threads : \A d \in DOMAIN stack'[u] : d \in DOMAIN stack[u] \/ (u = t /\ d = n)
            /\ n \in DOMAIN stack'[t] /\ stack'[t][n].does = does /\ stack'[t][n].of = of
<1>1. PICK f \in Frame : f.does = does /\ f.of = of /\ stack' = [stack EXCEPT ![t] = Append(@, f)]
  BY DEF Push
<1>2. stack[t] \in Seq(Frame)
  BY DEF TypeOK
<1>3. stack'[t] = Append(stack[t], f) /\ \A u \in Threads \ {t} : stack'[u] = stack[u]
  BY <1>1 DEF TypeOK
<1>4. stack' \in [Threads -> Seq(Frame)]
  BY <1>1, <1>2, StackMoves DEF TypeOK
<1> QED
  BY <1>1, <1>2, <1>3, <1>4, StackMoves

(* The last call of a thread returns.                                         *)
LEMMA Popped ==
  ASSUME TypeOK, NEW t \in Threads, stack[t] # <<>>, Pop(t)
  PROVE  LET n == Len(stack[t])
         IN /\ stack' \in [Threads -> Seq(Frame)]
            /\ n \in DOMAIN stack[t] /\ stack[t][n] = Top(t)
            /\ \A u \in Threads : \A d \in DOMAIN stack'[u] :
                 /\ d \in DOMAIN stack[u] /\ stack'[u][d] = stack[u][d]
                 /\ u = t => d < n
            /\ \A u \in Threads : \A d \in DOMAIN stack[u] : d \in DOMAIN stack'[u] \/ (u = t /\ d = n)
<1>1. stack[t] \in Seq(Frame)
  BY DEF TypeOK
<1>2. PICK f \in Frame : f = stack[t][Len(stack[t])]
  BY <1>1
<1>3. stack'[t] = Front(stack[t]) /\ \A u \in Threads \ {t} : stack'[u] = stack[u]
  BY DEF Pop, TypeOK
<1>4. stack' \in [Threads -> Seq(Frame)]
  BY <1>1, <1>2, StackMoves DEF Pop, TypeOK
<1> QED
  BY <1>1, <1>2, <1>3, <1>4, StackMoves DEF Top

(* A block is being left: its channel has what it printed.                    *)
LEMMA Leaving ==
  ASSUME TypeOK, NEW t \in Threads, LeaveBlock(t)
  PROVE  LET n == Len(stack[t])
         IN /\ stack' \in [Threads -> Seq(Frame)]
            /\ n \in DOMAIN stack[t] /\ stack[t][n] = Top(t)
            /\ Top(t).does = "block" /\ Top(t).of \in Redirectors
            /\ \A u \in Threads : DOMAIN stack'[u] = DOMAIN stack[u]
            /\ \A u \in Threads : \A d \in DOMAIN stack[u] :
                 \/ stack'[u][d] = stack[u][d]
                 \/ /\ u = t /\ d = n
                    /\ stack'[u][d].does = "exit" /\ stack'[u][d].of = stack[u][d].of
<1> DEFINE s == stack[t]
           n == Len(s)
<1>1. s \in Seq(Frame) /\ s # <<>> /\ Top(t) = s[n] /\ s[n].does = "block"
  BY DEF TypeOK, LeaveBlock, Does, Top
<1>2. n \in DOMAIN s /\ s[n] \in Frame
  BY <1>1
<1>3. s[n] \in [does: {"block", "flush", "exit"}, of: Redirectors]
  BY <1>1, <1>2 DEF Frame
<1>4. PICK f \in Frame : f.does = "exit" /\ f.of = s[n].of /\ [s[n] EXCEPT !.does = "exit"] = f
  BY <1>3 DEF Frame
<1>5. stack' = [stack EXCEPT ![t] = [s EXCEPT ![n] = f]]
  BY <1>4 DEF LeaveBlock
<1>6. stack'[t] = [s EXCEPT ![n] = f] /\ \A u \in Threads \ {t} : stack'[u] = stack[u]
  BY <1>5 DEF TypeOK
<1>7. /\ [s EXCEPT ![n] = f] \in Seq(Frame) /\ DOMAIN [s EXCEPT ![n] = f] = DOMAIN s
      /\ [s EXCEPT ![n] = f][n] = f
      /\ \A d \in DOMAIN s \ {n} : [s EXCEPT ![n] = f][d] = s[d]
  BY <1>1, StackMoves
<1>8. stack' \in [Threads -> Seq(Frame)]
  BY <1>5, <1>7 DEF TypeOK
<1> HIDE DEF n
<1> QED
  BY <1>1, <1>2, <1>3, <1>4, <1>6, <1>7, <1>8 DEF n

-----------------------------------------------------------------------------
(***************************************************************************)
(* Where texts are.                                                        *)
(***************************************************************************)
\* A redirector has the text, or had it.
Placed(text) == \E r \in Redirectors : \E k \in Batches(r) : text \in Range(Batch(r, k))

\* The handlers of console_print have the text.
Printing(t, d) == d \in DOMAIN stack[t] /\ stack[t][d].does = "print"

\* A text goes from one print to one place.
Fresh ==
  /\ \A text \in Texts : Placed(text) => text \in printed
  /\ \A t \in Threads : \A d \in DOMAIN stack[t] : Printing(t, d) =>
       /\ stack[t][d].of \in printed
       /\ ~Placed(stack[t][d].of)
       /\ \A u \in Threads : \A e \in DOMAIN stack[u] :
            Printing(u, e) /\ stack[u][e].of = stack[t][d].of => u = t /\ e = d

(* The batches of a redirector.                                               *)
LEMMA BatchParts ==
  ASSUME TypeOK, NEW r \in Redirectors, NEW k \in Batches(r)
  PROVE  Batch(r, k) \in Seq(Texts) /\ k \in Nat
<1>1. print_buffer[r] \in Seq(Texts) /\ replies[r] \in Seq(Seq(Texts))
  BY DEF TypeOK
<1>2. \A j \in DOMAIN replies[r] : j \in Nat /\ replies[r][j] \in Seq(Texts) /\ j # 0
  BY <1>1
<1> QED
  BY <1>1, <1>2 DEF Batch, Batches

(* The channel gets what the buffer holds: no text comes to be in two places, *)
(* none is lost, and no other redirector has a hand in it.                    *)
LEMMA TakeMoves ==
  ASSUME TypeOK, NEW r \in Redirectors, Take(r)
  PROVE  /\ print_buffer' \in [Redirectors -> Seq(Texts)]
         /\ replies' \in [Redirectors -> Seq(Seq(Texts))]
         /\ \A s \in Redirectors : \A k \in Batches(s)' :
              LET j == IF s = r /\ k = Len(replies[r]) + 1 THEN 0 ELSE k
              IN \/ Batch(s, k)' = <<>>
                 \/ /\ j \in Batches(s) /\ Batch(s, k)' = Batch(s, j)
                    /\ s = r => k # 0
         /\ \A s \in Redirectors : \A k \in DOMAIN replies[s] :
              k \in DOMAIN replies'[s] /\ replies'[s][k] = replies[s][k]
         /\ \E k \in DOMAIN replies'[r] : replies'[r][k] = print_buffer[r]
         /\ \A s \in Redirectors \ {r} : print_buffer'[s] = print_buffer[s]
<1>1. /\ print_buffer[r] \in Seq(Texts) /\ replies[r] \in Seq(Seq(Texts))
      /\ \A s \in Redirectors : replies[s] \in Seq(Seq(Texts))
  BY DEF TypeOK
<1>2. /\ replies'[r] = Append(replies[r], print_buffer[r])
      /\ \A s \in Redirectors \ {r} : replies'[s] = replies[s]
      /\ print_buffer'[r] = <<>>
      /\ \A s \in Redirectors \ {r} : print_buffer'[s] = print_buffer[s]
  BY DEF Take, TypeOK
<1>3. PICK n \in Nat : /\ n = Len(replies[r]) /\ DOMAIN replies[r] = 1 .. n
                       /\ DOMAIN replies'[r] = 1 .. (n + 1)
                       /\ \A k \in 1 .. n : replies'[r][k] = replies[r][k]
                       /\ replies'[r][n + 1] = print_buffer[r]
  BY <1>1, <1>2
<1>4. \A s \in Redirectors \ {r} : \A k \in Batches(s)' : k \in Batches(s) /\ Batch(s, k)' = Batch(s, k)
  BY <1>2 DEF Batches, Batch
<1>5. ASSUME NEW k \in Batches(r)'
      PROVE  LET j == IF k = n + 1 THEN 0 ELSE k
             IN Batch(r, k)' = <<>> \/ (j \in Batches(r) /\ Batch(r, k)' = Batch(r, j) /\ k # 0)
  <2>1. k = 0 \/ k \in 1 .. n \/ k = n + 1
    BY <1>3 DEF Batches
  <2>2. CASE k = 0
    BY <1>2, <2>2 DEF Batch
  <2>3. CASE k \in 1 .. n
    BY <1>3, <2>3 DEF Batch, Batches
  <2>4. CASE k = n + 1
    BY <1>3, <2>4 DEF Batch, Batches
  <2> QED
    BY <2>1, <2>2, <2>3, <2>4
<1>6. /\ print_buffer' \in [Redirectors -> Seq(Texts)]
      /\ replies' \in [Redirectors -> Seq(Seq(Texts))]
  <2>1. <<>> \in Seq(Texts) /\ Append(replies[r], print_buffer[r]) \in Seq(Seq(Texts))
    BY <1>1
  <2> QED
    BY <2>1 DEF Take, TypeOK
<1>7. n + 1 \in 1 .. (n + 1) /\ 1 .. n \subseteq 1 .. (n + 1)
  BY <1>3
<1> QED
  BY <1>2, <1>3, <1>4, <1>5, <1>6, <1>7

(* No text is in two places after that either.                                *)
LEMMA TakeKeepsOnce ==
  ASSUME TypeOK, NEW r \in Redirectors, Take(r), RedirectedOnce
  PROVE  RedirectedOnce' /\ \A text : Placed(text)' => Placed(text)
<1> DEFINE Old(s, k) == IF s = r /\ k = Len(replies[r]) + 1 THEN 0 ELSE k
<1>1. \A s \in Redirectors : \A k \in Batches(s)' :
        \/ Batch(s, k)' = <<>>
        \/ /\ Old(s, k) \in Batches(s) /\ Batch(s, k)' = Batch(s, Old(s, k))
           /\ s = r => k # 0
  BY TakeMoves
<1>2. DOMAIN <<>> = {} /\ Range(<<>>) = {}
  BY DEF Range
<1>3. \A s \in Redirectors : \A j, k \in Batches(s)' :
        (s = r => j # 0 /\ k # 0) /\ Old(s, j) = Old(s, k) => j = k
  OBVIOUS
<1> HIDE DEF Old
<1>4. \A text : Placed(text)' => Placed(text)
  BY <1>1, <1>2 DEF Placed
<1>5. ASSUME NEW s \in Redirectors, NEW u \in Redirectors,
             NEW j \in Batches(s)', NEW k \in Batches(u)',
             NEW a \in DOMAIN Batch(s, j)', NEW b \in DOMAIN Batch(u, k)',
             Batch(s, j)'[a] = Batch(u, k)'[b]
      PROVE  s = u /\ j = k /\ a = b
  <2>1. /\ Old(s, j) \in Batches(s) /\ Batch(s, j)' = Batch(s, Old(s, j)) /\ (s = r => j # 0)
        /\ Old(u, k) \in Batches(u) /\ Batch(u, k)' = Batch(u, Old(u, k)) /\ (u = r => k # 0)
    BY <1>1, <1>2
  <2>2. s = u /\ Old(s, j) = Old(u, k) /\ a = b
    BY <1>5, <2>1 DEF RedirectedOnce
  <2> QED
    BY <1>3, <2>1, <2>2
<1>6. RedirectedOnce'
  BY <1>5 DEF RedirectedOnce
<1> QED
  BY <1>4, <1>6

(* A text that was nowhere gets to the current redirector.                    *)
LEMMA PassMoves ==
  ASSUME TypeOK, RedirectedOnce, NEW text \in Texts, ~Placed(text), UNCHANGED replies,
         print_buffer' = IF PRINT_REDIRECTION = None THEN print_buffer
                         ELSE [print_buffer EXCEPT ![PRINT_REDIRECTION] = Append(@, text)]
  PROVE  /\ print_buffer' \in [Redirectors -> Seq(Texts)]
         /\ RedirectedOnce'
         /\ \A x : Placed(x)' => Placed(x) \/ x = text
         /\ \A r \in Redirectors : Range(print_buffer[r]) \subseteq Range(print_buffer'[r])
         /\ PRINT_REDIRECTION # None => text \in Range(print_buffer'[PRINT_REDIRECTION])
<1>1. CASE PRINT_REDIRECTION = None
  <2>1. UNCHANGED <<print_buffer, replies>>
    BY <1>1
  <2> QED
    BY <1>1, <2>1 DEF TypeOK, RedirectedOnce, Placed, Batches, Batch
<1>2. CASE PRINT_REDIRECTION # None
  <2>1. PICK r \in Redirectors : r = PRINT_REDIRECTION
    BY <1>2 DEF TypeOK
  <2>2. PICK q \in Seq(Texts) : q = print_buffer[r]
    BY DEF TypeOK
  <2>3. /\ print_buffer'[r] = Append(q, text)
        /\ \A s \in Redirectors \ {r} : print_buffer'[s] = print_buffer[s]
        /\ print_buffer' \in [Redirectors -> Seq(Texts)]
    BY <1>2, <2>1, <2>2 DEF TypeOK
  <2>4. PICK n \in Nat : /\ DOMAIN q = 1 .. n /\ DOMAIN Append(q, text) = 1 .. (n + 1)
                         /\ \A a \in 1 .. n : Append(q, text)[a] = q[a]
                         /\ Append(q, text)[n + 1] = text
    BY <2>2
  <2>5. Range(Append(q, text)) = Range(q) \cup {text}
    BY <2>4 DEF Range
  <2>6. /\ \A s \in Redirectors : Batches(s)' = Batches(s)
        /\ 0 \in Batches(r) /\ Batch(r, 0) = q /\ Batch(r, 0)' = Append(q, text)
        /\ \A s \in Redirectors : \A k \in Batches(s) :
             s # r \/ k # 0 => Batch(s, k)' = Batch(s, k)
    BY <2>2, <2>3 DEF Batches, Batch
  <2>7. \A x : Placed(x)' => Placed(x) \/ x = text
    <3> SUFFICES ASSUME NEW x, NEW s \in Redirectors, NEW k \in Batches(s), x \in Range(Batch(s, k)')
                 PROVE  Placed(x) \/ x = text
      BY <2>6 DEF Placed
    <3>1. CASE s = r /\ k = 0
      <4>1. x \in Range(Batch(r, 0)) \/ x = text
        BY <2>5, <2>6, <3>1
      <4> QED
        BY <2>6, <4>1 DEF Placed
    <3>2. CASE s # r \/ k # 0
      <4>1. x \in Range(Batch(s, k))
        BY <2>6, <3>2
      <4> QED
        BY <4>1 DEF Placed
    <3> QED
      BY <3>1, <3>2
  <2>8. \A s \in Redirectors : \A k \in Batches(s) : \A a \in DOMAIN Batch(s, k)' :
          \/ s = r /\ k = 0 /\ a = n + 1 /\ Batch(s, k)'[a] = text
          \/ a \in DOMAIN Batch(s, k) /\ Batch(s, k)'[a] = Batch(s, k)[a]
    BY <2>4, <2>6
  <2>9. \A s \in Redirectors : \A k \in Batches(s) : \A a \in DOMAIN Batch(s, k) : Batch(s, k)[a] # text
    BY DEF Placed, Range
  <2>10. RedirectedOnce'
    <3> SUFFICES ASSUME NEW s \in Redirectors, NEW u \in Redirectors,
                        NEW j \in Batches(s), NEW k \in Batches(u),
                        NEW a \in DOMAIN Batch(s, j)', NEW b \in DOMAIN Batch(u, k)',
                        Batch(s, j)'[a] = Batch(u, k)'[b]
                 PROVE  s = u /\ j = k /\ a = b
      BY <2>6 DEF RedirectedOnce
    <3>1. \/ s = r /\ j = 0 /\ a = n + 1 /\ Batch(s, j)'[a] = text
          \/ a \in DOMAIN Batch(s, j) /\ Batch(s, j)'[a] = Batch(s, j)[a]
      BY <2>8
    <3>2. \/ u = r /\ k = 0 /\ b = n + 1 /\ Batch(u, k)'[b] = text
          \/ b \in DOMAIN Batch(u, k) /\ Batch(u, k)'[b] = Batch(u, k)[b]
      BY <2>8
    <3>3. /\ a \in DOMAIN Batch(s, j) => Batch(s, j)[a] # text
          /\ b \in DOMAIN Batch(u, k) => Batch(u, k)[b] # text
      BY <2>9
    <3>4. /\ a \in DOMAIN Batch(s, j) /\ b \in DOMAIN Batch(u, k)
          /\ Batch(s, j)[a] = Batch(u, k)[b]
          => s = u /\ j = k /\ a = b
      BY DEF RedirectedOnce
    <3> QED
      BY <3>1, <3>2, <3>3, <3>4
  <2>11. \A s \in Redirectors : Range(print_buffer[s]) \subseteq Range(print_buffer'[s])
    BY <2>2, <2>3, <2>5
  <2>12. text \in Range(print_buffer'[r])
    BY <2>3, <2>5
  <2> QED
    BY <2>1, <2>3, <2>7, <2>10, <2>11, <2>12
<1> QED
  BY <1>1, <1>2

(* A step that prints nothing new and passes nothing on.                      *)
LEMMA FreshStays ==
  ASSUME Fresh, UNCHANGED printed, \A text : Placed(text)' => Placed(text),
         \A t \in Threads : \A d : Printing(t, d)' =>
           Printing(t, d) /\ stack'[t][d].of = stack[t][d].of
  PROVE  Fresh'
<1>1. \A text \in Texts : Placed(text)' => text \in printed'
  BY DEF Fresh
<1>2. ASSUME NEW t \in Threads, NEW d \in DOMAIN stack'[t], Printing(t, d)',
             NEW x, x = stack'[t][d].of
      PROVE  /\ x \in printed'
             /\ ~Placed(x)'
             /\ \A u \in Threads : \A e \in DOMAIN stack'[u] :
                  Printing(u, e)' /\ stack'[u][e].of = x => u = t /\ e = d
  <2>1. d \in DOMAIN stack[t] /\ Printing(t, d) /\ x = stack[t][d].of
    BY <1>2 DEF Printing
  <2>2. /\ x \in printed /\ ~Placed(x)
        /\ \A u \in Threads : \A e \in DOMAIN stack[u] :
             Printing(u, e) /\ stack[u][e].of = x => u = t /\ e = d
    BY <2>1 DEF Fresh
  <2>3. ASSUME NEW u \in Threads, NEW e \in DOMAIN stack'[u], Printing(u, e)', stack'[u][e].of = x
        PROVE  u = t /\ e = d
    <3>1. e \in DOMAIN stack[u] /\ Printing(u, e) /\ stack[u][e].of = x
      BY <2>3 DEF Printing
    <3> QED
      BY <2>2, <3>1
  <2> QED
    BY <2>2, <2>3
<1> QED
  BY <1>1, <1>2 DEF Fresh

-----------------------------------------------------------------------------
(***************************************************************************)
(* Where what is printed goes.                                             *)
(***************************************************************************)
\* A block that nothing was entered in or beside is the last of the only thread that is
\* in one, and gets what is printed.
Current ==
  \A t \in Threads : \A d \in Blocks(t) :
    stack[t][d].of \notin overlapped =>
      /\ PRINT_REDIRECTION = stack[t][d].of
      /\ \A e \in Blocks(t) : e <= d
      /\ \A u \in Threads \ {t} : Blocks(u) = {}

\* A thread is in the block of the redirector, and not leaving it.
Entered(r) ==
  \E t \in Threads : \E d \in DOMAIN stack[t] :
    stack[t][d].does = "block" /\ stack[t][d].of = r

\* What was printed in such a block has got to its channel, or will when it is left.
Reaches ==
  \A text \in Texts :
    LET r == mine[text]
    IN r # None /\ r \notin overlapped =>
         \/ \E k \in DOMAIN replies[r] : text \in Range(replies[r][k])
         \/ text \in Range(print_buffer[r]) /\ Entered(r)

\* The current redirector is that of some block, unless its reply raised.
Redirected == PRINT_REDIRECTION \in OpenBlocks \cup raised \cup {None}

(* A step that enters no block and clears no redirection.                     *)
LEMMA CurrentStays ==
  ASSUME Current, UNCHANGED <<PRINT_REDIRECTION, overlapped>>,
         \A t \in Threads : \A d \in Blocks(t)' : d \in Blocks(t) /\ stack'[t][d].of = stack[t][d].of
  PROVE  Current'
  BY DEF Current

(* A text stays where it is going to.                                         *)
LEMMA ReachesStays ==
  ASSUME Reaches, TypeOK, overlapped \subseteq overlapped',
         \A r \in Redirectors \ overlapped' :
           /\ \A k \in DOMAIN replies[r] : k \in DOMAIN replies'[r] /\ replies'[r][k] = replies[r][k]
           /\ Entered(r) =>
                \/ Entered(r)' /\ Range(print_buffer[r]) \subseteq Range(print_buffer'[r])
                \/ \E k \in DOMAIN replies'[r] : replies'[r][k] = print_buffer[r],
         NEW text \in Texts, mine'[text] = mine[text], mine[text] \notin overlapped',
         mine[text] # None
  PROVE  \/ \E k \in DOMAIN replies'[mine[text]] : text \in Range(replies'[mine[text]][k])
         \/ text \in Range(print_buffer'[mine[text]]) /\ Entered(mine[text])'
<1>1. PICK r \in Redirectors : r = mine[text] /\ r \notin overlapped' /\ r \notin overlapped
  BY DEF TypeOK
<1>2. CASE \E k \in DOMAIN replies[r] : text \in Range(replies[r][k])
  BY <1>1, <1>2
<1>3. CASE text \in Range(print_buffer[r]) /\ Entered(r)
  BY <1>1, <1>3
<1> QED
  BY <1>1, <1>2, <1>3 DEF Reaches, None

(* Calls that are no blocks come and go without the blocks.                   *)
LEMMA BlocksStay ==
  ASSUME TypeOK, NEW t \in Threads,
         \/ \E does \in {"print", "flush"} : \E of :
              [does |-> does, of |-> of] \in Frame /\ Push(t, does, of)
         \/ stack[t] # <<>> /\ Top(t).does \in {"print", "flush"} /\ Pop(t)
  PROVE  /\ stack' \in [Threads -> Seq(Frame)]
         /\ \A u \in Threads : /\ Blocks(u)' = Blocks(u)
                               /\ \A d \in Blocks(u) : stack'[u][d] = stack[u][d]
         /\ OpenBlocks' = OpenBlocks
         /\ \A r : Entered(r) => Entered(r)'
<1> DEFINE Moves ==
             /\ stack' \in [Threads -> Seq(Frame)]
             /\ \A u \in Threads : \A d \in DOMAIN stack[u] :
                  \/ d \in DOMAIN stack'[u] /\ stack'[u][d] = stack[u][d]
                  \/ d \notin DOMAIN stack'[u] /\ stack[u][d].does \in {"print", "flush"}
             /\ \A u \in Threads : \A d \in DOMAIN stack'[u] :
                  d \in DOMAIN stack[u] \/ stack'[u][d].does \in {"print", "flush"}
<1>1. Moves
  <2>1. ASSUME NEW does \in {"print", "flush"}, NEW of, [does |-> does, of |-> of] \in Frame,
               Push(t, does, of)
        PROVE  Moves
    <3> DEFINE n == Len(stack[t]) + 1
    <3>1. /\ stack' \in [Threads -> Seq(Frame)]
          /\ \A u \in Threads : \A d \in DOMAIN stack[u] :
               d \in DOMAIN stack'[u] /\ stack'[u][d] = stack[u][d]
          /\ \A u \in Threads : \A d \in DOMAIN stack'[u] : d \in DOMAIN stack[u] \/ (u = t /\ d = n)
          /\ stack'[t][n].does = does
      BY <2>1, Pushed
    <3> HIDE DEF n
    <3> QED
      BY <3>1
  <2>2. ASSUME stack[t] # <<>>, Top(t).does \in {"print", "flush"}, Pop(t)
        PROVE  Moves
    <3> DEFINE n == Len(stack[t])
    <3>1. /\ stack' \in [Threads -> Seq(Frame)]
          /\ stack[t][n] = Top(t)
          /\ \A u \in Threads : \A d \in DOMAIN stack'[u] :
               /\ d \in DOMAIN stack[u] /\ stack'[u][d] = stack[u][d]
               /\ u = t => d < n
          /\ \A u \in Threads : \A d \in DOMAIN stack[u] : d \in DOMAIN stack'[u] \/ (u = t /\ d = n)
      BY <2>2, Popped
    <3> HIDE DEF n
    <3> QED
      BY <2>2, <3>1
  <2> HIDE DEF Moves
  <2> QED
    BY <2>1, <2>2
<1>2. \A u \in Threads : Blocks(u)' = Blocks(u) /\ \A d \in Blocks(u) : stack'[u][d] = stack[u][d]
  BY <1>1 DEF Blocks
<1>3. OpenBlocks' = OpenBlocks
  <2>1. \A u \in Threads : OpenOn(u)' = OpenOn(u)
    BY <1>2 DEF OpenOn
  <2> QED
    BY <2>1 DEF OpenBlocks
<1>4. \A r : Entered(r) => Entered(r)'
  BY <1>1 DEF Entered
<1> QED
  BY <1>1, <1>2, <1>3, <1>4

-----------------------------------------------------------------------------
(***************************************************************************)
(* The inductive invariant.                                                *)
(***************************************************************************)
OutputInv ==
  /\ TypeOK
  /\ Fresh
  /\ RedirectedOnce
  /\ Current
  /\ Reaches
  /\ Redirected

(* Initially nothing has been printed.                                        *)
LEMMA InitOutput == Init => OutputInv
<1> SUFFICES ASSUME Init
             PROVE  OutputInv
  OBVIOUS
<1> USE DEF Init
<1>1. /\ <<>> \in Seq(Texts) /\ <<>> \in Seq(Seq(Texts)) /\ <<>> \in Seq(Frame)
      /\ DOMAIN <<>> = {} /\ Range(<<>>) = {}
  BY DEF Range
<1>2. TypeOK
  BY <1>1, OutputAssumption DEF TypeOK
<1>3. \A r \in Redirectors : Batches(r) = {0} /\ Batch(r, 0) = <<>>
  BY <1>1 DEF Batches, Batch
<1>4. \A text : ~Placed(text)
  BY <1>1, <1>3 DEF Placed
<1>5. \A t \in Threads : DOMAIN stack[t] = {} /\ Blocks(t) = {}
  BY <1>1 DEF Blocks
<1>6. Fresh
  BY <1>4, <1>5 DEF Fresh
<1>7. RedirectedOnce
  BY <1>1, <1>3 DEF RedirectedOnce
<1>8. Current /\ Reaches /\ Redirected
  BY <1>5 DEF Current, Reaches, Redirected
<1> QED
  BY <1>2, <1>6, <1>7, <1>8 DEF OutputInv

(* A step that leaves the buffers, the current redirector and the histories   *)
(* alone keeps what is said of blocks and places, when the blocks stay.       *)
LEMMA QuietKeeps ==
  ASSUME OutputInv, UNCHANGED <<PRINT_REDIRECTION, print_buffer, blocks, replies, mine, overlapped, raised>>,
         stack' \in [Threads -> Seq(Frame)], printed' \subseteq Texts,
         \A u \in Threads : /\ Blocks(u)' = Blocks(u)
                            /\ \A d \in Blocks(u) : stack'[u][d] = stack[u][d],
         OpenBlocks' = OpenBlocks, \A r : Entered(r) => Entered(r)'
  PROVE  /\ TypeOK' /\ RedirectedOnce' /\ Current' /\ Reaches' /\ Redirected'
         /\ \A text : Placed(text)' <=> Placed(text)
<1>1. TypeOK'
  BY DEF OutputInv, TypeOK
<1>2. RedirectedOnce' /\ \A text : Placed(text)' <=> Placed(text)
  BY DEF OutputInv, RedirectedOnce, Placed, Batches, Batch
<1>3. Current'
  BY CurrentStays DEF OutputInv
<1>4. Reaches' /\ Redirected'
  BY DEF OutputInv, Reaches, Redirected
<1> QED
  BY <1>1, <1>2, <1>3, <1>4

(* A text is printed: its handlers get it.                                    *)
LEMMA PrintKeeps ==
  ASSUME OutputInv, NEW t \in Threads, NEW text \in Texts, ConsolePrint(t, text)
  PROVE  OutputInv'
<1> DEFINE n == Len(stack[t]) + 1
<1>1. TypeOK /\ Fresh
  BY DEF OutputInv
<1>2. /\ text \notin printed /\ printed' = printed \cup {text} /\ Push(t, "print", text)
      /\ UNCHANGED <<PRINT_REDIRECTION, print_buffer, blocks, replies, mine, overlapped, raised>>
  BY DEF ConsolePrint, histories
<1>3. [does |-> "print", of |-> text] \in Frame
  BY DEF Frame
<1>4. /\ stack' \in [Threads -> Seq(Frame)]
      /\ \A u \in Threads : \A d \in DOMAIN stack[u] :
           d \in DOMAIN stack'[u] /\ stack'[u][d] = stack[u][d]
      /\ \A u \in Threads : \A d \in DOMAIN stack'[u] : d \in DOMAIN stack[u] \/ (u = t /\ d = n)
      /\ n \in DOMAIN stack'[t] /\ stack'[t][n].does = "print" /\ stack'[t][n].of = text
  BY <1>1, <1>2, <1>3, Pushed
<1>5. /\ \A u \in Threads : /\ Blocks(u)' = Blocks(u)
                            /\ \A d \in Blocks(u) : stack'[u][d] = stack[u][d]
      /\ OpenBlocks' = OpenBlocks
      /\ \A r : Entered(r) => Entered(r)'
  BY <1>1, <1>2, <1>3, BlocksStay
<1>6. printed' \subseteq Texts
  BY <1>1, <1>2 DEF TypeOK
<1>7. /\ TypeOK' /\ RedirectedOnce' /\ Current' /\ Reaches' /\ Redirected'
      /\ \A x : Placed(x)' <=> Placed(x)
  BY <1>2, <1>4, <1>5, <1>6, QuietKeeps
<1> HIDE DEF n
<1>8. \A u \in Threads : \A d : Printing(u, d)' =>
        \/ Printing(u, d) /\ stack'[u][d].of = stack[u][d].of /\ stack[u][d].of # text
        \/ u = t /\ d = n /\ stack'[u][d].of = text
  BY <1>1, <1>2, <1>4 DEF Printing, Fresh
<1>9. \A x \in Texts : Placed(x)' => x \in printed'
  BY <1>1, <1>2, <1>7 DEF Fresh
<1>10. ~Placed(text)
  BY <1>1, <1>2 DEF Fresh
<1>11. ASSUME NEW u \in Threads, NEW d, Printing(u, d)', NEW x, x = stack'[u][d].of
       PROVE  /\ x \in printed' /\ ~Placed(x)'
              /\ \A v \in Threads : \A e : Printing(v, e)' /\ stack'[v][e].of = x => v = u /\ e = d
  <2>1. CASE Printing(u, d) /\ x = stack[u][d].of /\ x # text
    <3>1. /\ x \in printed /\ ~Placed(x)
          /\ \A v \in Threads : \A e : Printing(v, e) /\ stack[v][e].of = x => v = u /\ e = d
      BY <1>1, <2>1 DEF Fresh, Printing
    <3> QED
      BY <1>2, <1>7, <1>8, <2>1, <3>1
  <2>2. CASE u = t /\ d = n /\ x = text
    BY <1>2, <1>7, <1>8, <1>10, <2>2
  <2> QED
    BY <1>8, <1>11, <2>1, <2>2
<1>12. Fresh'
  BY <1>9, <1>11 DEF Fresh, Printing
<1> QED
  BY <1>7, <1>12 DEF OutputInv

(* Every set of numbers has a least one: the intervals below the numbers are  *)
(* finite sets, of which one has no other inside.                             *)
LEMMA LeastNumber ==
  ASSUME NEW T, T \subseteq Nat, T # {}
  PROVE  \E n \in T : \A m \in T : n <= m
<1> DEFINE below == {1 .. n : n \in T}
<1>1. below \subseteq FiniteSubsetsOf(Nat) /\ below # {}
  <2>1. \A n \in T : 1 .. n \in SUBSET Nat /\ IsFiniteSet(1 .. n)
    BY FS_Interval
  <2> QED
    BY <2>1 DEF FiniteSubsetsOf
<1>2. PICK x \in below : \A y \in below : <<y, x>> \notin StrictSubsetOrdering(Nat)
  <2>1. IsWellFoundedOn(StrictSubsetOrdering(Nat), FiniteSubsetsOf(Nat))
    BY FS_StrictSubsetOrderingWellFounded
  <2> QED
    BY <1>1, <2>1, WFMin
<1>3. PICK n \in T : x = 1 .. n
  OBVIOUS
<1>4. ASSUME NEW m \in T, m < n
      PROVE  FALSE
  <2>1. 1 .. m \in below /\ 1 .. m \subseteq 1 .. n /\ 1 .. m # 1 .. n
    <3>1. n \in 1 .. n /\ n \notin 1 .. m
      BY <1>4
    <3> QED
      BY <1>4, <3>1
  <2>2. <<1 .. m, x>> \in StrictSubsetOrdering(Nat)
    BY <1>1, <1>3, <2>1 DEF StrictSubsetOrdering
  <2> QED
    BY <1>2, <2>1, <2>2
<1> QED
  BY <1>4

(* Of the blocks of a thread one is the last.                                 *)
LEMMA LastBlock ==
  ASSUME TypeOK, NEW t \in Threads, Blocks(t) # {}
  PROVE  \E d \in Blocks(t) : \A e \in Blocks(t) : e <= d
<1> DEFINE b == Blocks(t)
<1>1. stack[t] \in Seq(Frame) /\ Len(stack[t]) \in Nat
  BY DEF TypeOK
<1>2. b \subseteq 1 .. Len(stack[t])
  BY <1>1 DEF Blocks
<1> HIDE DEF b
<1>3. \E d \in b : \A e \in b : e <= d
  <2> DEFINE T == {Len(stack[t]) - d : d \in b}
  <2>1. T \subseteq Nat /\ T # {}
    BY <1>1, <1>2 DEF b
  <2>2. PICK m \in T : \A k \in T : m <= k
    <3> HIDE DEF T
    <3> QED
      BY <2>1, LeastNumber
  <2>3. PICK d \in b : m = Len(stack[t]) - d
    BY <2>2
  <2>4. \A e \in b : Len(stack[t]) - d <= Len(stack[t]) - e
    BY <2>2, <2>3
  <2> QED
    BY <1>1, <1>2, <2>3, <2>4
<1> QED
  BY <1>3 DEF b

(* The handlers return, and the text gets to the current redirector.          *)
LEMMA PassKeeps ==
  ASSUME OutputInv, NEW t \in Threads, PrintPasses(t)
  PROVE  OutputInv'
<1> DEFINE n == Len(stack[t])
<1>1. TypeOK /\ Fresh /\ RedirectedOnce /\ Current /\ Reaches /\ Redirected
  BY DEF OutputInv
<1>2. PICK text \in Texts :
        /\ stack[t] # <<>> /\ Top(t).does = "print" /\ Top(t).of = text /\ Pop(t)
        /\ print_buffer' = IF PRINT_REDIRECTION = None THEN print_buffer
                           ELSE [print_buffer EXCEPT ![PRINT_REDIRECTION] = Append(@, text)]
        /\ mine' = [mine EXCEPT ![text] = BlockOf(t)]
        /\ UNCHANGED <<PRINT_REDIRECTION, blocks, printed, replies, overlapped, raised>>
  <2>1. stack[t] # <<>> /\ Top(t).does = "print"
    BY DEF PrintPasses, Does
  <2>2. Top(t) \in Frame
    BY <1>1, <2>1 DEF Top, TypeOK
  <2>3. Top(t).of \in Texts
    BY <2>1, <2>2 DEF Frame
  <2> QED
    BY <2>1, <2>3 DEF PrintPasses
<1>3. /\ stack' \in [Threads -> Seq(Frame)]
      /\ n \in DOMAIN stack[t] /\ stack[t][n] = Top(t)
      /\ \A u \in Threads : \A d \in DOMAIN stack'[u] :
           /\ d \in DOMAIN stack[u] /\ stack'[u][d] = stack[u][d]
           /\ u = t => d < n
  BY <1>1, <1>2, Popped
<1>4. /\ \A u \in Threads : /\ Blocks(u)' = Blocks(u)
                            /\ \A d \in Blocks(u) : stack'[u][d] = stack[u][d]
      /\ OpenBlocks' = OpenBlocks
      /\ \A r : Entered(r) => Entered(r)'
  BY <1>1, <1>2, BlocksStay
<1>5. text \in printed /\ ~Placed(text)
  BY <1>1, <1>2, <1>3 DEF Fresh, Printing
<1>6. /\ print_buffer' \in [Redirectors -> Seq(Texts)]
      /\ RedirectedOnce'
      /\ \A x : Placed(x)' => Placed(x) \/ x = text
      /\ \A r \in Redirectors : Range(print_buffer[r]) \subseteq Range(print_buffer'[r])
      /\ PRINT_REDIRECTION # None => text \in Range(print_buffer'[PRINT_REDIRECTION])
  BY <1>1, <1>2, <1>5, PassMoves
<1>7. n \in Nat /\ \A u \in Threads : \A d \in DOMAIN stack[u] : d \in Nat
  <2>1. \A u \in Threads : stack[u] \in Seq(Frame)
    BY <1>1 DEF TypeOK
  <2> QED
    BY <2>1
<1> HIDE DEF n
<1>8. BlockOf(t) # None => \E d \in Blocks(t) : /\ \A e \in Blocks(t) : e <= d
                                                /\ stack[t][d].does = "block"
                                                /\ BlockOf(t) = stack[t][d].of
                                                /\ BlockOf(t) \in Redirectors
  <2> SUFFICES ASSUME BlockOf(t) # None
               PROVE  \E d \in Blocks(t) : /\ \A e \in Blocks(t) : e <= d
                                           /\ stack[t][d].does = "block"
                                           /\ BlockOf(t) = stack[t][d].of
                                           /\ BlockOf(t) \in Redirectors
    OBVIOUS
  <2>1. PICK d : d = CHOOSE c \in Blocks(t) : \A e \in Blocks(t) : e <= c
    OBVIOUS
  <2>2. Blocks(t) # {} /\ stack[t][d].does = "block" /\ BlockOf(t) = stack[t][d].of
    BY <2>1 DEF BlockOf
  <2>3. \E c \in Blocks(t) : \A e \in Blocks(t) : e <= c
    BY <1>1, <2>2, LastBlock
  <2>4. d \in Blocks(t) /\ \A e \in Blocks(t) : e <= d
    BY <2>1, <2>3
  <2>5. stack[t][d] \in Frame
    BY <1>1, <2>4 DEF Blocks, TypeOK
  <2> QED
    BY <2>2, <2>4, <2>5 DEF Frame
<1>9. TypeOK'
  <2>1. BlockOf(t) \in Redirectors \cup {None}
    BY <1>8
  <2> QED
    BY <1>1, <1>2, <1>3, <1>6, <2>1 DEF TypeOK
<1>10. Fresh'
  <2>1. \A u \in Threads : \A d : Printing(u, d)' =>
          /\ Printing(u, d) /\ d \in DOMAIN stack[u]
          /\ stack'[u][d] = stack[u][d] /\ ~(u = t /\ d = n)
    BY <1>3, <1>7 DEF Printing
  <2>2. Printing(t, n) /\ stack[t][n].of = text
    BY <1>2, <1>3 DEF Printing
  <2>3. \A x \in Texts : Placed(x)' => x \in printed'
    BY <1>1, <1>2, <1>5, <1>6 DEF Fresh
  <2>4. ASSUME NEW u \in Threads, NEW d, Printing(u, d)', NEW x, x = stack'[u][d].of
        PROVE  /\ x \in printed' /\ ~Placed(x)'
               /\ \A v \in Threads : \A e : Printing(v, e)' /\ stack'[v][e].of = x => v = u /\ e = d
    <3>1. /\ Printing(u, d) /\ d \in DOMAIN stack[u] /\ x = stack[u][d].of
          /\ ~(u = t /\ d = n)
      BY <2>1, <2>4
    <3>2. /\ x \in printed /\ ~Placed(x)
          /\ \A v \in Threads : \A e : Printing(v, e) /\ stack[v][e].of = x => v = u /\ e = d
      BY <1>1, <3>1 DEF Fresh, Printing
    <3>3. x # text
      BY <2>2, <3>1, <3>2
    <3> QED
      BY <1>2, <1>6, <2>1, <3>2, <3>3
  <2> QED
    BY <2>3, <2>4 DEF Fresh, Printing
<1>11. Current' /\ Redirected'
  BY <1>1, <1>2, <1>4, CurrentStays DEF Redirected
<1>12. Reaches'
  <2> SUFFICES ASSUME NEW x \in Texts, NEW r, r = mine'[x], r # None, r \notin overlapped
               PROVE  \/ \E k \in DOMAIN replies[r] : x \in Range(replies[r][k])
                      \/ x \in Range(print_buffer'[r]) /\ Entered(r)'
    BY <1>2 DEF Reaches
  <2>1. CASE x = text
    <3>1. r = BlockOf(t)
      BY <1>1, <1>2, <2>1 DEF TypeOK
    <3>2. PICK d \in Blocks(t) : stack[t][d].does = "block" /\ r = stack[t][d].of
      BY <1>8, <3>1
    <3>3. PRINT_REDIRECTION = r
      BY <1>1, <3>2 DEF Current
    <3>4. Entered(r)'
      BY <1>4, <3>2 DEF Entered, Blocks
    <3> QED
      BY <1>6, <2>1, <3>3, <3>4
  <2>2. CASE x # text
    <3>1. mine[x] = r /\ r \in Redirectors
      BY <1>1, <1>2, <2>2 DEF TypeOK
    <3> QED
      BY <1>1, <1>4, <1>6, <3>1 DEF Reaches
  <2> QED
    BY <2>1, <2>2
<1> QED
  BY <1>6, <1>9, <1>10, <1>11, <1>12 DEF OutputInv

(* A handler stops the text, or a reply returns to the block that flushed.    *)
LEMMA ReturnsKeep ==
  ASSUME OutputInv, NEW t \in Threads, PrintStopped(t) \/ FlushReturns(t)
  PROVE  OutputInv'
<1>1. TypeOK /\ Fresh
  BY DEF OutputInv
<1>2. /\ stack[t] # <<>> /\ Top(t).does \in {"print", "flush"} /\ Pop(t)
      /\ UNCHANGED <<state, histories>>
  BY DEF PrintStopped, FlushReturns, Does
<1>3. /\ stack' \in [Threads -> Seq(Frame)]
      /\ \A u \in Threads : \A d \in DOMAIN stack'[u] :
           d \in DOMAIN stack[u] /\ stack'[u][d] = stack[u][d]
  BY <1>1, <1>2, Popped
<1>4. /\ \A u \in Threads : /\ Blocks(u)' = Blocks(u)
                            /\ \A d \in Blocks(u) : stack'[u][d] = stack[u][d]
      /\ OpenBlocks' = OpenBlocks
      /\ \A r : Entered(r) => Entered(r)'
  BY <1>1, <1>2, BlocksStay
<1>5. /\ TypeOK' /\ RedirectedOnce' /\ Current' /\ Reaches' /\ Redirected'
      /\ \A x : Placed(x)' <=> Placed(x)
  <2>1. printed' \subseteq Texts
    BY <1>1, <1>2 DEF TypeOK, state
  <2> QED
    BY <1>2, <1>3, <1>4, <2>1, QuietKeeps DEF state, histories
<1>6. Fresh'
  <2>1. \A u \in Threads : \A d : Printing(u, d)' => Printing(u, d) /\ stack'[u][d].of = stack[u][d].of
    BY <1>3 DEF Printing
  <2> QED
    BY <1>1, <1>2, <1>5, <2>1, FreshStays DEF state
<1> QED
  BY <1>5, <1>6 DEF OutputInv

(* A block is entered: its redirector takes over from every other.            *)
LEMMA EnterKeeps ==
  ASSUME OutputInv, NEW t \in Threads, EnterBlock(t)
  PROVE  OutputInv'
<1> DEFINE n == Len(stack[t]) + 1
           others == UNION {OpenOn(u) : u \in Threads \ {t}}
           b == blocks + 1
<1>1. TypeOK /\ Fresh /\ RedirectedOnce /\ Current /\ Reaches
  BY DEF OutputInv
<1>2. /\ b \in Redirectors /\ blocks' = b /\ PRINT_REDIRECTION' = b /\ blocks' \in 0 .. MaxBlocks
      /\ Push(t, "block", b)
      /\ overlapped' = overlapped \cup OpenOn(t) \cup others \cup (IF others = {} THEN {} ELSE {b})
      /\ UNCHANGED <<print_buffer, printed, replies, mine, raised>>
  BY <1>1, OutputAssumption DEF EnterBlock, TypeOK, Redirectors
<1>3. [does |-> "block", of |-> b] \in Frame
  BY <1>2 DEF Frame
<1>4. /\ stack' \in [Threads -> Seq(Frame)]
      /\ \A u \in Threads : \A d \in DOMAIN stack[u] :
           /\ d \in DOMAIN stack'[u] /\ stack'[u][d] = stack[u][d]
           /\ u = t => d < n
      /\ \A u \in Threads : \A d \in DOMAIN stack'[u] : d \in DOMAIN stack[u] \/ (u = t /\ d = n)
      /\ n \in DOMAIN stack'[t] /\ stack'[t][n].does = "block" /\ stack'[t][n].of = b
  BY <1>1, <1>2, <1>3, Pushed
<1>5. n \in Nat /\ \A u \in Threads : \A d \in DOMAIN stack[u] : d \in Nat
  <2>1. \A u \in Threads : stack[u] \in Seq(Frame)
    BY <1>1 DEF TypeOK
  <2> QED
    BY <2>1
<1> HIDE DEF n, b
<1>6. \A u \in Threads : /\ \A d \in Blocks(u) : d \in Blocks(u)' /\ stack'[u][d] = stack[u][d]
                         /\ \A d \in Blocks(u)' : d \in Blocks(u) \/ (u = t /\ d = n)
  BY <1>4 DEF Blocks
<1>7. /\ \A u \in Threads : \A d \in Blocks(u) : stack[u][d].of \in OpenOn(t) \cup others
      /\ OpenOn(t) \subseteq Redirectors /\ others \subseteq Redirectors
  <2>1. \A u \in Threads : \A d \in Blocks(u) : stack[u][d].of \in OpenOn(u)
    BY DEF OpenOn
  <2>2. \A u \in Threads : OpenOn(u) \subseteq Redirectors
    <3> SUFFICES ASSUME NEW u \in Threads, NEW d \in Blocks(u)
                 PROVE  stack[u][d].of \in Redirectors
      BY DEF OpenOn
    <3>1. stack[u][d] \in Frame /\ stack[u][d].does \in {"block", "exit"}
      BY <1>1 DEF Blocks, TypeOK
    <3> QED
      BY <3>1 DEF Frame
  <2> QED
    BY <2>1, <2>2
<1>8. TypeOK'
  BY <1>1, <1>2, <1>4, <1>7 DEF TypeOK
<1>9. RedirectedOnce' /\ \A x : Placed(x)' <=> Placed(x)
  BY <1>1, <1>2 DEF RedirectedOnce, Placed, Batches, Batch
<1>10. Fresh'
  <2>1. \A u \in Threads : \A d : Printing(u, d)' => Printing(u, d) /\ stack'[u][d].of = stack[u][d].of
    BY <1>4 DEF Printing
  <2> QED
    BY <1>1, <1>2, <1>9, <2>1, FreshStays
<1>11. Current'
  <2> SUFFICES ASSUME NEW u \in Threads, NEW d \in Blocks(u)', stack'[u][d].of \notin overlapped'
               PROVE  /\ b = stack'[u][d].of
                      /\ \A e \in Blocks(u)' : e <= d
                      /\ \A v \in Threads \ {u} : Blocks(v)' = {}
    BY <1>2 DEF Current
  <2>1. u = t /\ d = n
    BY <1>2, <1>6, <1>7
  <2>2. b = stack'[u][d].of
    BY <1>4, <2>1
  <2>3. others = {}
    BY <1>2, <2>2
  <2>4. \A v \in Threads \ {t} : Blocks(v) = {}
    <3>1. \A v \in Threads \ {t} : OpenOn(v) = {}
      BY <2>3
    <3>2. \A v \in Threads : \A e \in Blocks(v) : stack[v][e].of \in OpenOn(v)
      BY DEF OpenOn
    <3> QED
      BY <3>1, <3>2
  <2>5. \A e \in Blocks(t)' : e <= n
    <3>1. \A e \in Blocks(t) : e \in Nat /\ e < n
      BY <1>4, <1>5 DEF Blocks
    <3> QED
      BY <1>5, <1>6, <3>1
  <2> QED
    BY <1>6, <2>1, <2>2, <2>4, <2>5
<1>12. Reaches'
  <2>1. \A r : Entered(r) => Entered(r)'
    BY <1>4 DEF Entered
  <2> QED
    BY <1>1, <1>2, <2>1 DEF Reaches
<1>13. Redirected'
  <2>1. n \in Blocks(t)'
    BY <1>4 DEF Blocks
  <2>2. b \in OpenBlocks'
    BY <1>4, <2>1 DEF OpenBlocks, OpenOn
  <2> QED
    BY <1>2, <2>2 DEF Redirected
<1> QED
  BY <1>8, <1>9, <1>10, <1>11, <1>12, <1>13 DEF OutputInv

(* The block gives its channel what it printed so far.                        *)
LEMMA FlushKeeps ==
  ASSUME OutputInv, NEW t \in Threads, Flush(t)
  PROVE  OutputInv'
<1> DEFINE r == Top(t).of
           n == Len(stack[t]) + 1
<1>1. TypeOK /\ Fresh /\ RedirectedOnce /\ Current /\ Reaches /\ Redirected
  BY DEF OutputInv
<1>2. /\ Take(r) /\ Push(t, "flush", r)
      /\ UNCHANGED <<PRINT_REDIRECTION, blocks, printed, mine, overlapped, raised>>
      /\ stack[t] # <<>> /\ Top(t).does = "block"
  BY DEF Flush, Does
<1>3. r \in Redirectors
  <2>1. Top(t) \in Frame
    BY <1>1, <1>2 DEF Top, TypeOK
  <2> QED
    BY <1>2, <2>1 DEF Frame
<1> HIDE DEF r
<1>4. [does |-> "flush", of |-> r] \in Frame
  BY <1>3 DEF Frame
<1>5. /\ stack' \in [Threads -> Seq(Frame)]
      /\ \A u \in Threads : \A d \in DOMAIN stack'[u] :
           \/ d \in DOMAIN stack[u] /\ stack'[u][d] = stack[u][d]
           \/ stack'[u][d].does = "flush"
  <2>1. /\ stack' \in [Threads -> Seq(Frame)]
        /\ \A u \in Threads : \A d \in DOMAIN stack[u] : stack'[u][d] = stack[u][d]
        /\ \A u \in Threads : \A d \in DOMAIN stack'[u] : d \in DOMAIN stack[u] \/ (u = t /\ d = n)
        /\ stack'[t][n].does = "flush"
    BY <1>1, <1>2, <1>4, Pushed
  <2> HIDE DEF n
  <2> QED
    BY <2>1
<1>6. /\ \A u \in Threads : /\ Blocks(u)' = Blocks(u)
                            /\ \A d \in Blocks(u) : stack'[u][d] = stack[u][d]
      /\ OpenBlocks' = OpenBlocks
      /\ \A s : Entered(s) => Entered(s)'
  BY <1>1, <1>2, <1>4, BlocksStay
<1>7. /\ print_buffer' \in [Redirectors -> Seq(Texts)]
      /\ replies' \in [Redirectors -> Seq(Seq(Texts))]
      /\ \A s \in Redirectors : \A k \in DOMAIN replies[s] :
           k \in DOMAIN replies'[s] /\ replies'[s][k] = replies[s][k]
      /\ \E k \in DOMAIN replies'[r] : replies'[r][k] = print_buffer[r]
      /\ \A s \in Redirectors \ {r} : print_buffer'[s] = print_buffer[s]
  BY <1>1, <1>2, <1>3, TakeMoves
<1>8. RedirectedOnce' /\ \A x : Placed(x)' => Placed(x)
  BY <1>1, <1>2, <1>3, TakeKeepsOnce
<1>9. TypeOK'
  BY <1>1, <1>2, <1>5, <1>7 DEF TypeOK
<1>10. Fresh'
  <2>1. \A u \in Threads : \A d : Printing(u, d)' => Printing(u, d) /\ stack'[u][d].of = stack[u][d].of
    BY <1>5 DEF Printing
  <2> QED
    BY <1>1, <1>2, <1>8, <2>1, FreshStays
<1>11. Current' /\ Redirected'
  BY <1>1, <1>2, <1>6, CurrentStays DEF Redirected
<1>12. Reaches'
  <2>1. \A s \in Redirectors \ overlapped' :
          /\ \A k \in DOMAIN replies[s] : k \in DOMAIN replies'[s] /\ replies'[s][k] = replies[s][k]
          /\ Entered(s) =>
               \/ Entered(s)' /\ Range(print_buffer[s]) \subseteq Range(print_buffer'[s])
               \/ \E k \in DOMAIN replies'[s] : replies'[s][k] = print_buffer[s]
    BY <1>6, <1>7
  <2> QED
    BY <1>1, <1>2, <2>1, ReachesStays DEF Reaches
<1> QED
  BY <1>8, <1>9, <1>10, <1>11, <1>12 DEF OutputInv

(* The block ends, and gives its channel what it printed.                     *)
LEMMA LeaveKeeps ==
  ASSUME OutputInv, NEW t \in Threads, LeaveBlock(t)
  PROVE  OutputInv'
<1> DEFINE r == Top(t).of
           n == Len(stack[t])
<1>1. TypeOK /\ Fresh /\ RedirectedOnce /\ Current /\ Reaches /\ Redirected
  BY DEF OutputInv
<1>2. /\ Take(r)
      /\ UNCHANGED <<PRINT_REDIRECTION, blocks, printed, mine, overlapped, raised>>
  BY DEF LeaveBlock
<1>3. /\ stack' \in [Threads -> Seq(Frame)]
      /\ n \in DOMAIN stack[t] /\ stack[t][n] = Top(t)
      /\ Top(t).does = "block" /\ r \in Redirectors
      /\ \A u \in Threads : DOMAIN stack'[u] = DOMAIN stack[u]
      /\ \A u \in Threads : \A d \in DOMAIN stack[u] :
           \/ stack'[u][d] = stack[u][d]
           \/ /\ u = t /\ d = n
              /\ stack'[u][d].does = "exit" /\ stack'[u][d].of = stack[u][d].of
  BY <1>1, Leaving
<1> HIDE DEF n
<1>4. \A u \in Threads : /\ Blocks(u)' = Blocks(u)
                         /\ \A d \in Blocks(u) : stack'[u][d].of = stack[u][d].of
  BY <1>3 DEF Blocks
<1>5. \A s : Entered(s) => Entered(s)' \/ s = r
  BY <1>3 DEF Entered
<1> HIDE DEF r
<1>6. OpenBlocks' = OpenBlocks
  <2>1. \A u \in Threads : OpenOn(u)' = OpenOn(u)
    BY <1>4 DEF OpenOn
  <2> QED
    BY <2>1 DEF OpenBlocks
<1>7. /\ print_buffer' \in [Redirectors -> Seq(Texts)]
      /\ replies' \in [Redirectors -> Seq(Seq(Texts))]
      /\ \A s \in Redirectors : \A k \in DOMAIN replies[s] :
           k \in DOMAIN replies'[s] /\ replies'[s][k] = replies[s][k]
      /\ \E k \in DOMAIN replies'[r] : replies'[r][k] = print_buffer[r]
      /\ \A s \in Redirectors \ {r} : print_buffer'[s] = print_buffer[s]
  BY <1>1, <1>2, <1>3, TakeMoves
<1>8. RedirectedOnce' /\ \A x : Placed(x)' => Placed(x)
  BY <1>1, <1>2, <1>3, TakeKeepsOnce
<1>9. TypeOK'
  BY <1>1, <1>2, <1>3, <1>7 DEF TypeOK
<1>10. Fresh'
  <2>1. \A u \in Threads : \A d : Printing(u, d)' => Printing(u, d) /\ stack'[u][d].of = stack[u][d].of
    BY <1>3 DEF Printing
  <2> QED
    BY <1>1, <1>2, <1>8, <2>1, FreshStays
<1>11. Current' /\ Redirected'
  BY <1>1, <1>2, <1>4, <1>6, CurrentStays DEF Redirected
<1>12. Reaches'
  <2>1. \A s \in Redirectors \ overlapped' :
          /\ \A k \in DOMAIN replies[s] : k \in DOMAIN replies'[s] /\ replies'[s][k] = replies[s][k]
          /\ Entered(s) =>
               \/ Entered(s)' /\ Range(print_buffer[s]) \subseteq Range(print_buffer'[s])
               \/ \E k \in DOMAIN replies'[s] : replies'[s][k] = print_buffer[s]
    BY <1>5, <1>7
  <2> QED
    BY <1>1, <1>2, <2>1, ReachesStays DEF Reaches
<1> QED
  BY <1>8, <1>9, <1>10, <1>11, <1>12 DEF OutputInv

(* The reply of the channel has returned, and nothing is redirected any more; *)
(* or it has raised, and everything still is.                                 *)
LEMMA LeftKeeps ==
  ASSUME OutputInv, NEW t \in Threads, LeftBlock(t) \/ LeaveRaises(t)
  PROVE  OutputInv'
<1> DEFINE n == Len(stack[t])
           r == Top(t).of
<1>1. TypeOK /\ Fresh /\ RedirectedOnce /\ Current /\ Reaches /\ Redirected
  BY DEF OutputInv
<1>2. /\ stack[t] # <<>> /\ Top(t).does = "exit" /\ Pop(t)
      /\ UNCHANGED <<print_buffer, blocks, printed, replies, mine, overlapped>>
      /\ \/ PRINT_REDIRECTION' = None /\ UNCHANGED raised
         \/ UNCHANGED PRINT_REDIRECTION /\ raised' = raised \cup {r}
  BY DEF LeftBlock, LeaveRaises, Does, state, histories
<1>3. /\ stack' \in [Threads -> Seq(Frame)]
      /\ n \in DOMAIN stack[t] /\ stack[t][n] = Top(t)
      /\ \A u \in Threads : \A d \in DOMAIN stack'[u] :
           /\ d \in DOMAIN stack[u] /\ stack'[u][d] = stack[u][d]
           /\ u = t => d < n
      /\ \A u \in Threads : \A d \in DOMAIN stack[u] : d \in DOMAIN stack'[u] \/ (u = t /\ d = n)
  BY <1>1, <1>2, Popped
<1>4. r \in Redirectors
  <2>1. Top(t) \in Frame
    BY <1>1, <1>3 DEF TypeOK
  <2> QED
    BY <1>2, <2>1 DEF Frame
<1>5. n \in Nat /\ \A u \in Threads : \A d \in DOMAIN stack[u] : d \in Nat
  <2>1. \A u \in Threads : stack[u] \in Seq(Frame)
    BY <1>1 DEF TypeOK
  <2> QED
    BY <2>1
<1> HIDE DEF n
<1>6. /\ n \in Blocks(t) /\ stack[t][n].of = r
      /\ \A u \in Threads : \A d \in Blocks(u)' :
           /\ d \in Blocks(u) /\ stack'[u][d].of = stack[u][d].of
           /\ u = t => d < n
      /\ \A u \in Threads : \A d \in Blocks(u) : d \in Blocks(u)' \/ (u = t /\ d = n)
  BY <1>2, <1>3 DEF Blocks
<1>7. \A s : Entered(s) => Entered(s)'
  BY <1>2, <1>3 DEF Entered
<1> HIDE DEF r
<1>8. TypeOK'
  BY <1>1, <1>2, <1>3, <1>4 DEF TypeOK
<1>9. RedirectedOnce' /\ \A x : Placed(x)' => Placed(x)
  BY <1>1, <1>2 DEF RedirectedOnce, Placed, Batches, Batch
<1>10. Fresh'
  <2>1. \A u \in Threads : \A d : Printing(u, d)' => Printing(u, d) /\ stack'[u][d].of = stack[u][d].of
    BY <1>3 DEF Printing
  <2> QED
    BY <1>1, <1>2, <1>9, <2>1, FreshStays
<1>11. Current'
  <2> SUFFICES ASSUME NEW u \in Threads, NEW d \in Blocks(u)', stack'[u][d].of \notin overlapped
               PROVE  FALSE
    BY <1>2 DEF Current
  <2>1. /\ d \in Blocks(u) /\ stack[u][d].of \notin overlapped
        /\ u = t => d < n
    BY <1>6
  <2>2. /\ \A e \in Blocks(u) : e <= d
        /\ \A v \in Threads \ {u} : Blocks(v) = {}
    BY <1>1, <2>1 DEF Current
  <2>3. d \in Nat
    BY <1>5, <2>1 DEF Blocks
  <2> QED
    BY <1>5, <1>6, <2>1, <2>2, <2>3
<1>12. Reaches'
  BY <1>1, <1>2, <1>7 DEF Reaches
<1>13. Redirected'
  <2>1. ASSUME NEW s \in OpenBlocks
        PROVE  s \in OpenBlocks' \/ s = r
    <3>1. PICK u \in Threads : s \in OpenOn(u)
      BY DEF OpenBlocks
    <3>2. PICK d \in Blocks(u) : s = stack[u][d].of
      BY <3>1 DEF OpenOn
    <3>3. CASE u = t /\ d = n
      BY <1>6, <3>2, <3>3
    <3>4. CASE d \in Blocks(u)'
      <4>1. s = stack'[u][d].of
        BY <1>6, <3>2, <3>4
      <4>2. s \in OpenOn(u)'
        BY <3>4, <4>1 DEF OpenOn
      <4> QED
        BY <4>2 DEF OpenBlocks
    <3> QED
      BY <1>6, <3>3, <3>4
  <2> QED
    BY <1>1, <1>2, <2>1 DEF Redirected
<1> QED
  BY <1>8, <1>9, <1>10, <1>11, <1>12, <1>13 DEF OutputInv

(* Every step keeps the invariant.                                            *)
LEMMA NextKeepsOutput == OutputInv /\ [Next]_vars => OutputInv'
<1> SUFFICES ASSUME OutputInv, [Next]_vars
             PROVE  OutputInv'
  OBVIOUS
<1>1. ASSUME NEW t \in Threads,
             \/ \E text \in Texts : ConsolePrint(t, text)
             \/ PrintStopped(t) \/ PrintPasses(t)
             \/ EnterBlock(t) \/ Flush(t) \/ FlushReturns(t)
             \/ LeaveBlock(t) \/ LeftBlock(t) \/ LeaveRaises(t)
      PROVE  OutputInv'
  BY <1>1, PrintKeeps, ReturnsKeep, PassKeeps, EnterKeeps, FlushKeeps, LeaveKeeps, LeftKeeps
<1>2. CASE UNCHANGED vars
  <2>1. UNCHANGED <<PRINT_REDIRECTION, print_buffer, blocks, printed, stack, replies, mine,
                    overlapped, raised>>
    BY <1>2 DEF vars, state, histories
  <2>2. /\ \A u \in Threads : Blocks(u)' = Blocks(u)
        /\ OpenBlocks' = OpenBlocks
        /\ \A r : Entered(r) => Entered(r)'
    BY <2>1 DEF Blocks, OpenBlocks, OpenOn, Entered
  <2>3. stack' \in [Threads -> Seq(Frame)] /\ printed' \subseteq Texts
    BY <2>1 DEF OutputInv, TypeOK
  <2>4. /\ TypeOK' /\ RedirectedOnce' /\ Current' /\ Reaches' /\ Redirected'
        /\ \A x : Placed(x)' <=> Placed(x)
    BY <2>1, <2>2, <2>3, QuietKeeps
  <2>5. Fresh'
    <3>1. \A u \in Threads : \A d : Printing(u, d)' => Printing(u, d) /\ stack'[u][d].of = stack[u][d].of
      BY <2>1 DEF Printing
    <3> QED
      BY <2>1, <2>4, <3>1, FreshStays DEF OutputInv
  <2> QED
    BY <2>4, <2>5 DEF OutputInv
<1> QED
  BY <1>1, <1>2 DEF Next

(* The invariant holds of everything that is ever printed.                    *)
LEMMA OutputKept == Spec => []OutputInv
<1>1. Init => OutputInv
  BY InitOutput
<1>2. OutputInv /\ [Next]_vars => OutputInv'
  BY NextKeepsOutput
<1> QED
  BY <1>1, <1>2, PTL DEF Spec

(* The variables have their types.                                            *)
THEOREM OutputTypeOK == Spec => []TypeOK
<1>1. OutputInv => TypeOK
  BY DEF OutputInv
<1> QED
  BY <1>1, OutputKept, PTL

(* What is printed in a block that no other was entered in or beside has got  *)
(* to the channel of the block once it is left, whatever handlers of          *)
(* console_print and replies print, redirect and raise meanwhile              *)
(* (handlers.rs: handle_console_print, PrintRedirector).                      *)
THEOREM PrintedIsReplied == Spec => []ReachesItsChannel
<1>1. OutputInv => ReachesItsChannel
  <2> SUFFICES ASSUME OutputInv, NEW text \in Texts, NEW r, r = mine[text],
                      r # None, r \notin overlapped
               PROVE  \E k \in IF r \in OpenBlocks THEN Batches(r) ELSE DOMAIN replies[r] :
                        text \in Range(Batch(r, k))
    BY DEF ReachesItsChannel
  <2>1. r \in Redirectors /\ replies[r] \in Seq(Seq(Texts))
    BY DEF OutputInv, TypeOK
  <2>2. CASE \E k \in DOMAIN replies[r] : text \in Range(replies[r][k])
    <3>1. PICK k \in DOMAIN replies[r] : text \in Range(replies[r][k])
      BY <2>2
    <3>2. k # 0
      BY <2>1
    <3>3. k \in Batches(r) /\ Batch(r, k) = replies[r][k]
      BY <3>2 DEF Batches, Batch
    <3> QED
      BY <3>1, <3>3
  <2>3. CASE text \in Range(print_buffer[r]) /\ Entered(r)
    <3>1. r \in OpenBlocks
      BY <2>3 DEF Entered, OpenBlocks, OpenOn, Blocks
    <3>2. 0 \in Batches(r) /\ Batch(r, 0) = print_buffer[r]
      BY DEF Batches, Batch
    <3> QED
      BY <2>3, <3>1, <3>2
  <2> QED
    BY <2>2, <2>3 DEF OutputInv, Reaches
<1> QED
  BY <1>1, OutputKept, PTL

(* Whatever a redirector gives its channel, and however blocks of all threads *)
(* take the redirection from one another, no text gets to a channel twice or  *)
(* to two channels (handlers.rs: PrintRedirector::flush).                     *)
THEOREM NothingTwice == Spec => []RedirectedOnce
<1>1. OutputInv => RedirectedOnce
  BY DEF OutputInv
<1> QED
  BY <1>1, OutputKept, PTL

(* When no thread is in a block any more the console is redirected only where *)
(* the reply of a channel raised (handlers.rs: PrintRedirector::__exit__).    *)
THEOREM OnlyErrorsLeaveRedirections == Spec => []NoRedirectionLeft
<1>1. OutputInv => NoRedirectionLeft
  BY DEF OutputInv, Redirected, NoRedirectionLeft
<1> QED
  BY <1>1, OutputKept, PTL

-----------------------------------------------------------------------------
(***************************************************************************)
(* Recursion and induction, as facts about sets of numbers and sequences.  *)
(***************************************************************************)

(* What holds of 0 and goes from each number to the next holds up to n.       *)
LEMMA CountingUp ==
  ASSUME NEW n \in Nat, NEW P, 0 \in P, \A k \in 1 .. n : k - 1 \in P => k \in P
  PROVE  \A k \in 0 .. n : k \in P
<1> DEFINE T == {k \in 0 .. n : k \notin P}
<1> SUFFICES ASSUME T # {}
             PROVE  FALSE
  OBVIOUS
<1>1. PICK m \in T : \A k \in T : m <= k
  <2>1. T \subseteq Nat
    OBVIOUS
  <2> HIDE DEF T
  <2> QED
    BY <2>1, LeastNumber
<1>2. m \in 1 .. n /\ m - 1 \in 0 .. n /\ ~(m <= m - 1)
  BY <1>1
<1>3. m - 1 \in P
  BY <1>1, <1>2
<1> QED
  BY <1>1, <1>2, <1>3

(* What holds of the empty sequence and stays true when an element is added   *)
(* at the end holds of all sequences.                                         *)
LEMMA AddingOn ==
  ASSUME NEW S, NEW P, <<>> \in P, \A s \in Seq(S), x \in S : s \in P => Append(s, x) \in P
  PROVE  \A s \in Seq(S) : s \in P
<1> SUFFICES ASSUME NEW s \in Seq(S)
             PROVE  s \in P
  OBVIOUS
<1> DEFINE Q == {k \in 0 .. Len(s) : SubSeq(s, 1, k) \in P}
<1>1. Len(s) \in Nat
  OBVIOUS
<1>2. 0 \in Q
  <2>1. SubSeq(s, 1, 0) = <<>>
    BY SubSeqEmpty
  <2>2. 0 \in 0 .. Len(s)
    BY <1>1
  <2>3. SubSeq(s, 1, 0) \in P
    BY <2>1, Zenon
  <2> QED
    BY <2>2, <2>3
<1>3. ASSUME NEW k \in 1 .. Len(s), k - 1 \in Q
      PROVE  k \in Q
  <2>1. /\ SubSeq(s, 1, k - 1) \in Seq(S) /\ s[k] \in S
        /\ SubSeq(s, 1, k) = Append(SubSeq(s, 1, k - 1), s[k])
    <3>1. 1 \in Int /\ k - 1 \in Int /\ \A i \in 1 .. k - 1 : s[i] \in S
      BY <1>1
    <3>2. SubSeq(s, 1, k - 1) \in Seq(S) /\ s[k] \in S
      BY <3>1, SubSeqProperties
    <3>3. SubSeq(s, 1, k) = SubSeq(s, 1, k - 1) \o <<s[k]>>
      BY <1>1, SubSeqRecursiveSecond
    <3> QED
      BY <3>2, <3>3, AppendIsConcat
  <2>2. SubSeq(s, 1, k - 1) \in P /\ k \in 0 .. Len(s)
    BY <1>3
  <2>3. Append(SubSeq(s, 1, k - 1), s[k]) \in P
    BY <2>1, <2>2
  <2> QED
    BY <2>1, <2>2, <2>3
<1>4. \A k \in 0 .. Len(s) : k \in Q
  <2> HIDE DEF Q
  <2> QED
    BY <1>1, <1>2, <1>3, CountingUp
<1>5. SubSeq(s, 1, Len(s)) \in P
  BY <1>1, <1>4
<1> QED
  BY <1>5, SubSeqFull

Steps(n, V) == [1 .. n -> [V -> V]]

Values(n, V, b, G) ==
  {f \in [0 .. n -> V] : f[0] = b /\ \A k \in 1 .. n : f[k] = G[k][f[k - 1]]}

(* A recursive function is defined: each value is made from the one before.   *)
LEMMA Recursion ==
  ASSUME NEW n \in Nat, NEW V, NEW b \in V, NEW G \in Steps(n, V)
  PROVE  Values(n, V, b, G) # {}
<1> DEFINE Fits(f, m) == /\ f \in [0 .. m -> V] /\ f[0] = b
                         /\ \A k \in 1 .. m : f[k] = G[k][f[k - 1]]
           P == {m \in 0 .. n : \E f : Fits(f, m)}
<1>0. \A k \in 1 .. n : \A x \in V : G[k][x] \in V
  BY DEF Steps
<1>1. 0 \in P
  <2>1. PICK f : f = [k \in 0 .. 0 |-> b]
    OBVIOUS
  <2>2. Fits(f, 0)
    BY <2>1
  <2>3. 0 \in 0 .. n
    OBVIOUS
  <2> QED
    BY <2>2, <2>3
<1>2. ASSUME NEW m \in 1 .. n, m - 1 \in P
      PROVE  m \in P
  <2>1. PICK g : Fits(g, m - 1)
    BY <1>2
  <2>2. PICK f : f = [k \in 0 .. m |-> IF k < m THEN g[k] ELSE G[m][g[m - 1]]]
    OBVIOUS
  <2>3. m - 1 \in 0 .. m - 1 /\ \A k \in 0 .. m : k < m => k \in 0 .. m - 1
    OBVIOUS
  <2>4. /\ \A k \in 0 .. m - 1 : f[k] = g[k] /\ f[k] \in V
        /\ f[m] = G[m][g[m - 1]] /\ f[m] \in V
    <3>1. \A k \in 0 .. m - 1 : k \in 0 .. m /\ k < m
      OBVIOUS
    <3>2. m \in 0 .. m /\ ~(m < m) /\ g[m - 1] \in V
      BY <2>1, <2>3
    <3> QED
      BY <1>0, <2>1, <2>2, <3>1, <3>2
  <2>5. f \in [0 .. m -> V]
    <3>1. \A k \in 0 .. m : f[k] \in V
      BY <2>3, <2>4
    <3> QED
      BY <2>2, <3>1
  <2>6. ASSUME NEW k \in 1 .. m
        PROVE  f[k] = G[k][f[k - 1]]
    <3>1. k - 1 \in 0 .. m - 1
      OBVIOUS
    <3>2. CASE k = m
      BY <2>4, <3>1, <3>2
    <3>3. CASE k # m
      <4>1. k \in 1 .. m - 1 /\ k \in 0 .. m - 1
        BY <3>3
      <4> QED
        BY <2>1, <2>4, <3>1, <4>1
    <3> QED
      BY <3>2, <3>3
  <2>7. f[0] = b
    <3>1. 0 \in 0 .. m - 1
      OBVIOUS
    <3> QED
      BY <2>1, <2>4, <3>1
  <2>8. Fits(f, m) /\ m \in 0 .. n
    BY <2>5, <2>6, <2>7
  <2> HIDE DEF Fits
  <2> QED
    BY <2>8
<1>3. \A m \in 0 .. n : m \in P
  <2> HIDE DEF P
  <2> QED
    BY <1>1, <1>2, CountingUp
<1>4. PICK f : Fits(f, n)
  BY <1>3
<1> QED
  BY <1>4 DEF Values

-----------------------------------------------------------------------------
(***************************************************************************)
(* Sequences of sequences, one after the other.                            *)
(***************************************************************************)

(* FlattenSeq adds one sequence after the other.                              *)
LEMMA FlattenSteps ==
  ASSUME NEW T, NEW s \in Seq(Seq(T))
  PROVE  \E f \in [0 .. Len(s) -> Seq(T)] :
           /\ f[0] = <<>> /\ FlattenSeq(s) = f[Len(s)]
           /\ \A k \in 1 .. Len(s) : f[k] = f[k - 1] \o s[k]
<1> DEFINE n == Len(s)
           Value(g, i) == IF i = 1 THEN s[i] ELSE g[i - 1] \o s[i]
           Fits(g) == g = [i \in 1 .. n |-> Value(g, i)]
<1>1. n \in Nat /\ <<>> \in Seq(T) /\ \A k \in 1 .. n : s[k] \in Seq(T)
  OBVIOUS
<1>2. CASE n = 0
  <2>1. FlattenSeq(s) = <<>>
    <3>1. s = <<>>
      BY <1>2
    <3> QED
      BY <1>2, <3>1 DEF FlattenSeq
  <2>2. PICK f : f = [k \in 0 .. 0 |-> <<>>]
    OBVIOUS
  <2>3. f \in [0 .. n -> Seq(T)] /\ f[0] = <<>> /\ \A k \in 1 .. n : FALSE
    BY <1>1, <1>2, <2>2
  <2> QED
    BY <1>2, <2>1, <2>3
<1>3. CASE n # 0
  <2>1. PICK g : Fits(g) /\ FlattenSeq(s) = g[n]
    <3> DEFINE G == [k \in 1 .. n |-> [x \in Seq(T) |-> x \o s[k]]]
    <3>1. G \in [1 .. n -> [Seq(T) -> Seq(T)]]
      <4>1. \A k \in 1 .. n : \A x \in Seq(T) : x \o s[k] \in Seq(T)
        BY <1>1, ConcatProperties
      <4> QED
        BY <4>1
    <3>2. PICK f \in [0 .. n -> Seq(T)] :
            f[0] = <<>> /\ \A k \in 1 .. n : f[k] = G[k][f[k - 1]]
      <4> DEFINE V == Seq(T)
                 e == <<>>
      <4>1. n \in Nat /\ e \in V /\ G \in Steps(n, V)
        BY <1>1, <3>1 DEF Steps
      <4> HIDE DEF G, n, V, e
      <4>2. Values(n, V, e, G) # {}
        BY <4>1, Recursion
      <4> QED
        BY <4>2 DEF Values, V, e
    <3>3. ASSUME NEW k \in 1 .. n
          PROVE  f[k] = f[k - 1] \o s[k]
      <4>1. k - 1 \in 0 .. n
        OBVIOUS
      <4>2. f[k - 1] \in Seq(T)
        BY <4>1
      <4>3. G[k][f[k - 1]] = f[k - 1] \o s[k]
        BY <4>2
      <4> QED
        BY <3>2, <4>3
    <3>4. PICK h : h = [k \in 1 .. n |-> f[k]]
      OBVIOUS
    <3>5. ASSUME NEW k \in 1 .. n
          PROVE  h[k] = Value(h, k)
      <4>1. CASE k = 1
        <5>1. f[1] = f[0] \o s[1]
          <6>1. f[k] = f[k - 1] \o s[k]
            BY <3>3, Zenon
          <6>2. k - 1 = 0
            BY <4>1
          <6> QED
            BY <4>1, <6>1, <6>2
        <5> QED
          BY <1>1, <3>2, <3>4, <4>1, <5>1, ConcatEmptySeq
      <4>2. CASE k # 1
        <5>1. k - 1 \in 1 .. n
          BY <4>2
        <5> QED
          BY <3>3, <3>4, <4>2, <5>1
      <4> QED
        BY <4>1, <4>2
    <3>6. Fits(h)
      <4> HIDE DEF Value
      <4> QED
        BY <3>4, <3>5
    <3>7. PICK g : g = CHOOSE x : Fits(x)
      OBVIOUS
    <3>8. Fits(g)
      <4> HIDE DEF Fits
      <4> QED
        BY <3>6, <3>7
    <3>9. FlattenSeq(s) = g[n]
      BY <1>3, <3>7 DEF FlattenSeq
    <3> QED
      BY <3>8, <3>9
  <2>2. \A k \in 1 .. n : g[k] = Value(g, k)
    <3> HIDE DEF Value
    <3> QED
      BY <2>1
  <2>3. \A k \in 1 .. n : g[k] \in Seq(T)
    <3> DEFINE P == {0} \cup {k \in 1 .. n : g[k] \in Seq(T)}
    <3>1. ASSUME NEW k \in 1 .. n, k - 1 \in P
          PROVE  k \in P
      <4>1. CASE k = 1
        BY <1>1, <2>2, <4>1
      <4>2. CASE k # 1
        <5>1. k - 1 # 0 /\ g[k - 1] \in Seq(T)
          BY <3>1, <4>2
        <5>2. g[k] = g[k - 1] \o s[k]
          BY <2>2, <4>2
        <5>3. g[k] \in Seq(T)
          BY <1>1, <5>1, <5>2, ConcatProperties
        <5> QED
          BY <5>3
      <4> QED
        BY <4>1, <4>2
    <3>2. 0 \in P
      OBVIOUS
    <3>3. \A k \in 0 .. n : k \in P
      <4> HIDE DEF P, n
      <4> QED
        BY <1>1, <3>1, <3>2, CountingUp
    <3> QED
      BY <3>3
  <2>4. PICK f : f = [k \in 0 .. n |-> IF k = 0 THEN <<>> ELSE g[k]]
    OBVIOUS
  <2>5. /\ f[0] = <<>> /\ \A k \in 1 .. n : f[k] = g[k]
        /\ f \in [0 .. n -> Seq(T)]
    <3>1. 0 \in 0 .. n /\ \A k \in 1 .. n : k \in 0 .. n /\ k # 0
      BY <1>1
    <3>2. \A k \in 0 .. n : k = 0 \/ k \in 1 .. n
      BY <1>1
    <3> HIDE DEF n
    <3> QED
      BY <1>1, <2>3, <2>4, <3>1, <3>2
  <2>6. ASSUME NEW k \in 1 .. n
        PROVE  f[k] = f[k - 1] \o s[k]
    <3>1. CASE k = 1
      <4>1. f[1] = s[1]
        BY <2>2, <2>5, <3>1
      <4> QED
        BY <1>1, <2>5, <3>1, <4>1, ConcatEmptySeq
    <3>2. CASE k # 1
      <4>1. k - 1 \in 1 .. n
        BY <3>2
      <4> QED
        BY <2>2, <2>5, <3>2, <4>1
    <3> QED
      BY <3>1, <3>2
  <2>7. n \in 1 .. n
    BY <1>1, <1>3
  <2> QED
    BY <2>1, <2>5, <2>6, <2>7
<1> QED
  BY <1>2, <1>3

LEMMA FlattenEmpty == FlattenSeq(<<>>) = <<>>
BY DEF FlattenSeq

LEMMA FlattenAppend ==
  ASSUME NEW T, NEW s \in Seq(Seq(T)), NEW x \in Seq(T)
  PROVE  /\ FlattenSeq(s) \in Seq(T)
         /\ FlattenSeq(Append(s, x)) = FlattenSeq(s) \o x
<1> DEFINE n == Len(s)
           r == Append(s, x)
<1>1. /\ n \in Nat /\ r \in Seq(Seq(T)) /\ Len(r) = n + 1 /\ r[n + 1] = x
      /\ \A k \in 1 .. n : r[k] = s[k]
  OBVIOUS
<1>2. PICK f \in [0 .. n -> Seq(T)] :
        /\ f[0] = <<>> /\ FlattenSeq(s) = f[n]
        /\ \A k \in 1 .. n : f[k] = f[k - 1] \o s[k]
  BY FlattenSteps
<1>3. PICK g \in [0 .. Len(r) -> Seq(T)] :
        /\ g[0] = <<>> /\ FlattenSeq(r) = g[Len(r)]
        /\ \A k \in 1 .. Len(r) : g[k] = g[k - 1] \o r[k]
  <2> HIDE DEF r
  <2> QED
    BY <1>1, FlattenSteps
<1> HIDE DEF r, n
<1>4. \A k \in 0 .. n : g[k] = f[k]
  <2> DEFINE P == {k \in 0 .. n : g[k] = f[k]}
  <2>1. 0 \in P
    BY <1>1, <1>2, <1>3
  <2>2. ASSUME NEW k \in 1 .. n, k - 1 \in P
        PROVE  k \in P
    <3>1. k \in 0 .. n /\ k \in 1 .. Len(r)
      BY <1>1
    <3>2. g[k] = g[k - 1] \o r[k]
      BY <1>3, <3>1, Zenon
    <3>3. f[k] = f[k - 1] \o s[k]
      BY <1>2, Zenon
    <3>4. g[k - 1] = f[k - 1] /\ r[k] = s[k]
      BY <1>1, <2>2
    <3> QED
      BY <3>1, <3>2, <3>3, <3>4
  <2>3. \A k \in 0 .. n : k \in P
    <3> HIDE DEF P
    <3> QED
      BY <1>1, <2>1, <2>2, CountingUp
  <2> QED
    BY <2>3
<1>5. FlattenSeq(s) \in Seq(T)
  <2>1. n \in 0 .. n
    BY <1>1
  <2> QED
    BY <1>2, <2>1
<1>6. FlattenSeq(r) = FlattenSeq(s) \o x
  <2>1. n + 1 \in 1 .. Len(r) /\ n \in 0 .. n /\ (n + 1) - 1 = n
    BY <1>1
  <2>2. g[n + 1] = g[(n + 1) - 1] \o r[n + 1]
    BY <1>3, <2>1, Zenon
  <2>3. g[n + 1] = g[n] \o x
    BY <1>1, <2>1, <2>2
  <2> QED
    BY <1>1, <1>2, <1>3, <1>4, <2>1, <2>3
<1> QED
  BY <1>5, <1>6 DEF r

LEMMA FlattenConcat ==
  ASSUME NEW T, NEW s \in Seq(Seq(T)), NEW r \in Seq(Seq(T))
  PROVE  FlattenSeq(s \o r) = FlattenSeq(s) \o FlattenSeq(r)
<1> DEFINE P == {q \in Seq(Seq(T)) : FlattenSeq(s \o q) = FlattenSeq(s) \o FlattenSeq(q)}
<1>1. \A q \in Seq(Seq(T)) : FlattenSeq(q) \in Seq(T)
  <2>1. <<>> \in Seq(T)
    OBVIOUS
  <2> QED
    BY <2>1, FlattenAppend
<1>2. <<>> \in P
  <2>1. s \o <<>> = s
    BY ConcatEmptySeq
  <2>2. FlattenSeq(s) \o FlattenSeq(<<>>) = FlattenSeq(s)
    BY <1>1, FlattenEmpty, ConcatEmptySeq
  <2>3. <<>> \in Seq(Seq(T))
    OBVIOUS
  <2> QED
    BY <2>1, <2>2, <2>3
<1>3. ASSUME NEW q \in Seq(Seq(T)), NEW x \in Seq(T), q \in P
      PROVE  Append(q, x) \in P
  <2>1. s \o q \in Seq(Seq(T)) /\ Append(q, x) \in Seq(Seq(T))
    BY ConcatProperties, AppendProperties
  <2>2. s \o Append(q, x) = Append(s \o q, x)
    <3>1. <<x>> \in Seq(Seq(T)) /\ Append(q, x) = q \o <<x>> /\ Append(s \o q, x) = (s \o q) \o <<x>>
      BY <2>1, AppendIsConcat
    <3> QED
      BY <3>1, ConcatAssociative
  <2>3. FlattenSeq(Append(s \o q, x)) = FlattenSeq(s \o q) \o x
    BY <2>1, FlattenAppend
  <2>4. FlattenSeq(Append(q, x)) = FlattenSeq(q) \o x
    BY FlattenAppend
  <2>5. FlattenSeq(s \o q) = FlattenSeq(s) \o FlattenSeq(q)
    BY <1>3
  <2>6. (FlattenSeq(s) \o FlattenSeq(q)) \o x = FlattenSeq(s) \o (FlattenSeq(q) \o x)
    <3>1. FlattenSeq(s) \in Seq(T) /\ FlattenSeq(q) \in Seq(T)
      BY <1>1
    <3>2. \A a, b, c \in Seq(T) : (a \o b) \o c = a \o (b \o c)
      BY ConcatAssociative
    <3> QED
      BY <3>1, <3>2
  <2> QED
    BY <2>1, <2>2, <2>3, <2>4, <2>5, <2>6
<1>4. \A q \in Seq(Seq(T)) : q \in P
  <2> DEFINE S == Seq(T)
  <2>1. \A q \in Seq(S), x \in S : q \in P => Append(q, x) \in P
    BY <1>3
  <2> HIDE DEF P, S
  <2>2. \A q \in Seq(S) : q \in P
    BY <1>2, <2>1, AddingOn
  <2> QED
    BY <2>2 DEF S
<1> QED
  BY <1>4

-----------------------------------------------------------------------------
(***************************************************************************)
(* Splitting and joining.                                                  *)
(***************************************************************************)

\* An item that joins the groups before it.
Joined(before, x, groups) ==
  IF before # <<>> /\ Append(Last(before), x) \in groups
  THEN Append(Front(before), Append(Last(before), x))
  ELSE Append(before, <<x>>)

\* Groups that are right, or have nothing that could be taken off.
Grouped(S, groups) == {v \in Seq(Seq(S)) : \A g \in Range(v) : g \in groups \/ Len(g) = 1}

LEMMA RangeAppend ==
  ASSUME NEW S, NEW s \in Seq(S), NEW x \in S
  PROVE  Range(Append(s, x)) = Range(s) \cup {x}
<1>1. /\ DOMAIN Append(s, x) = DOMAIN s \cup {Len(s) + 1}
      /\ \A k \in DOMAIN s : Append(s, x)[k] = s[k]
      /\ Append(s, x)[Len(s) + 1] = x
  OBVIOUS
<1> QED
  BY <1>1 DEF Range

(* The groups stay in order, and the item comes at the end.                   *)
LEMMA JoinedParts ==
  ASSUME NEW S, NEW groups, NEW v \in Grouped(S, groups), NEW x \in S
  PROVE  /\ Joined(v, x, groups) \in Grouped(S, groups)
         /\ FlattenSeq(Joined(v, x, groups)) = Append(FlattenSeq(v), x)
<1>1. v \in Seq(Seq(S)) /\ <<x>> \in Seq(S) /\ Len(<<x>>) = 1
  BY DEF Grouped
<1>2. CASE v # <<>> /\ Append(Last(v), x) \in groups
  <2>1. PICK f \in Seq(Seq(S)), l \in Seq(S) : v = Append(f, l)
    BY <1>1, <1>2, SequenceEmptyOrAppend
  <2>2. Last(v) = l /\ Front(v) = f
    <3>1. Len(v) = Len(f) + 1 /\ Len(f) \in Nat /\ v[Len(f) + 1] = l /\ \A k \in 1 .. Len(f) : v[k] = f[k]
      BY <2>1
    <3>2. Last(v) = l
      BY <3>1 DEF Last
    <3>3. Front(v) \in Seq(Seq(S)) /\ Len(Front(v)) = Len(f) /\ \A k \in 1 .. Len(f) : Front(v)[k] = f[k]
      BY <1>1, <3>1 DEF Front
    <3>4. Front(v) = f
      BY <3>3, SeqEqual
    <3> QED
      BY <3>2, <3>4
  <2>3. Append(l, x) \in Seq(S) /\ Append(l, x) \in groups
    BY <1>2, <2>2, AppendProperties
  <2>4. Joined(v, x, groups) = Append(f, Append(l, x))
    BY <1>2, <2>2 DEF Joined
  <2>5. Append(f, Append(l, x)) \in Grouped(S, groups)
    <3>1. Append(f, Append(l, x)) \in Seq(Seq(S))
      BY <2>3, AppendProperties
    <3>2. /\ Range(Append(f, Append(l, x))) = Range(f) \cup {Append(l, x)}
          /\ Range(Append(f, l)) = Range(f) \cup {l}
      <4> DEFINE T == Seq(S)
                 y == Append(l, x)
      <4>1. f \in Seq(T) /\ l \in T /\ y \in T
        BY <2>3
      <4> HIDE DEF T, y
      <4>2. Range(Append(f, y)) = Range(f) \cup {y} /\ Range(Append(f, l)) = Range(f) \cup {l}
        BY <4>1, RangeAppend
      <4> QED
        BY <4>2 DEF y
    <3> QED
      BY <2>1, <2>3, <3>1, <3>2 DEF Grouped
  <2>6. FlattenSeq(Append(f, Append(l, x))) = Append(FlattenSeq(v), x)
    <3>1. FlattenSeq(f) \in Seq(S) /\ FlattenSeq(v) = FlattenSeq(f) \o l
      BY <2>1, FlattenAppend
    <3>2. FlattenSeq(Append(f, Append(l, x))) = FlattenSeq(f) \o Append(l, x)
      BY <2>3, FlattenAppend
    <3>3. \A a \in Seq(S) : a \o Append(l, x) = Append(a \o l, x)
      <4>1. \A a \in Seq(S) : (a \o l) \o <<x>> = a \o (l \o <<x>>)
        BY <1>1, ConcatAssociative
      <4>2. \A a \in Seq(S) : a \o l \in Seq(S)
        BY ConcatProperties
      <4>3. \A a \in Seq(S) : Append(a, x) = a \o <<x>>
        BY AppendIsConcat
      <4> QED
        BY <4>1, <4>2, <4>3
    <3> QED
      BY <3>1, <3>2, <3>3
  <2> QED
    BY <2>4, <2>5, <2>6
<1>3. CASE ~(v # <<>> /\ Append(Last(v), x) \in groups)
  <2>1. Joined(v, x, groups) = Append(v, <<x>>)
    BY <1>3 DEF Joined
  <2>2. Append(v, <<x>>) \in Grouped(S, groups)
    <3>1. Append(v, <<x>>) \in Seq(Seq(S)) /\ Range(Append(v, <<x>>)) = Range(v) \cup {<<x>>}
      <4> DEFINE T == Seq(S)
                 y == <<x>>
      <4>1. v \in Seq(T) /\ y \in T
        BY <1>1
      <4> HIDE DEF T, y
      <4>2. Append(v, y) \in Seq(T) /\ Range(Append(v, y)) = Range(v) \cup {y}
        BY <4>1, AppendProperties, RangeAppend
      <4> QED
        BY <4>2 DEF T, y
    <3> QED
      BY <1>1, <3>1 DEF Grouped
  <2>3. FlattenSeq(v) \in Seq(S) /\ FlattenSeq(Append(v, <<x>>)) = FlattenSeq(v) \o <<x>>
    BY <1>1, FlattenAppend
  <2>4. \A a \in Seq(S) : Append(a, x) = a \o <<x>>
    BY AppendIsConcat
  <2> QED
    BY <2>1, <2>2, <2>3, <2>4
<1> QED
  BY <1>2, <1>3

(* Packing keeps every item, once and in order, and no group is wrong but for *)
(* one of a single item.                                                      *)
LEMMA PackedParts ==
  ASSUME NEW S, NEW items \in Seq(S), NEW groups
  PROVE  /\ Packed(items, groups) \in Grouped(S, groups)
         /\ FlattenSeq(Packed(items, groups)) = items
<1> DEFINE n == Len(items)
           Value(g, k) == IF k = 0 THEN <<>> ELSE Joined(g[k - 1], items[k], groups)
           Fits(g) == g = [k \in 0 .. n |-> Value(g, k)]
           V == Grouped(S, groups)
<1>1. n \in Nat /\ <<>> \in V /\ \A k \in 1 .. n : items[k] \in S
  BY DEF Grouped, Range
<1>2. \A v \in V, x \in S :
        Joined(v, x, groups) \in V /\ FlattenSeq(Joined(v, x, groups)) = Append(FlattenSeq(v), x)
  BY JoinedParts
<1> HIDE DEF V
<1>3. PICK f \in [0 .. n -> V] :
        f[0] = <<>> /\ \A k \in 1 .. n : f[k] = Joined(f[k - 1], items[k], groups)
  <2> DEFINE G == [k \in 1 .. n |-> [x \in V |-> Joined(x, items[k], groups)]]
             e == <<>>
  <2>1. n \in Nat /\ e \in V /\ G \in Steps(n, V)
    BY <1>1, <1>2 DEF Steps
  <2>2. PICK f \in [0 .. n -> V] : f[0] = e /\ \A k \in 1 .. n : f[k] = G[k][f[k - 1]]
    <3> HIDE DEF G, n, e
    <3>1. Values(n, V, e, G) # {}
      BY <2>1, Recursion
    <3> QED
      BY <3>1 DEF Values
  <2>3. ASSUME NEW k \in 1 .. n
        PROVE  f[k] = Joined(f[k - 1], items[k], groups)
    <3>1. k - 1 \in 0 .. n
      BY <1>1
    <3>2. f[k - 1] \in V
      BY <3>1
    <3>3. f[k] = G[k][f[k - 1]]
      BY <2>2, Zenon
    <3> QED
      BY <3>2, <3>3
  <2> QED
    BY <2>2, <2>3
<1>4. PICK g : Fits(g) /\ Packed(items, groups) = g[n]
  <2>1. Fits(f)
    <3>1. \A k \in 0 .. n : k = 0 \/ k \in 1 .. n
      BY <1>1
    <3>2. \A k \in 0 .. n : f[k] = Value(f, k)
      BY <1>3, <3>1
    <3> HIDE DEF Value
    <3> QED
      BY <3>2
  <2>2. PICK g : g = CHOOSE x : Fits(x)
    OBVIOUS
  <2>3. Fits(g)
    <3> HIDE DEF Fits
    <3> QED
      BY <2>1, <2>2
  <2>4. Packed(items, groups) = g[n]
    BY <2>2 DEF Packed, Joined
  <2> QED
    BY <2>3, <2>4
<1>5. /\ g[0] = <<>>
      /\ \A k \in 1 .. n : g[k] = Joined(g[k - 1], items[k], groups)
  <2>1. \A k \in 0 .. n : g[k] = Value(g, k)
    <3> HIDE DEF Value
    <3> QED
      BY <1>4
  <2>2. 0 \in 0 .. n /\ \A k \in 1 .. n : k \in 0 .. n /\ k # 0
    BY <1>1
  <2> QED
    BY <2>1, <2>2
<1> DEFINE P == {k \in 0 .. n : g[k] \in V /\ FlattenSeq(g[k]) = SubSeq(items, 1, k)}
<1>6. 0 \in P
  <2>1. FlattenSeq(g[0]) = <<>> /\ g[0] \in V
    BY <1>1, <1>5, FlattenEmpty
  <2>2. SubSeq(items, 1, 0) = <<>>
    BY SubSeqEmpty
  <2>3. 0 \in 0 .. n
    BY <1>1
  <2> QED
    BY <2>1, <2>2, <2>3
<1>7. ASSUME NEW k \in 1 .. n, k - 1 \in P
      PROVE  k \in P
  <2>1. g[k - 1] \in V /\ FlattenSeq(g[k - 1]) = SubSeq(items, 1, k - 1) /\ k \in 0 .. n
    BY <1>7
  <2>2. g[k] = Joined(g[k - 1], items[k], groups) /\ items[k] \in S
    BY <1>1, <1>5
  <2>3. g[k] \in V /\ FlattenSeq(g[k]) = Append(SubSeq(items, 1, k - 1), items[k])
    BY <1>2, <2>1, <2>2
  <2>4. SubSeq(items, 1, k) = Append(SubSeq(items, 1, k - 1), items[k])
    <3>1. SubSeq(items, 1, k) = SubSeq(items, 1, k - 1) \o <<items[k]>>
      BY <1>1, SubSeqRecursiveSecond
    <3>2. SubSeq(items, 1, k - 1) \in Seq(S)
      <4>1. 1 \in Int /\ k - 1 \in Int /\ \A i \in 1 .. k - 1 : items[i] \in S
        BY <1>1
      <4> QED
        BY <4>1, SubSeqProperties
    <3> QED
      BY <2>2, <3>1, <3>2, AppendIsConcat
  <2> QED
    BY <2>1, <2>3, <2>4
<1>8. \A k \in 0 .. n : k \in P
  <2> HIDE DEF P, n
  <2> QED
    BY <1>1, <1>6, <1>7, CountingUp
<1>9. n \in P
  <2> HIDE DEF P
  <2> QED
    BY <1>1, <1>8
<1> QED
  BY <1>4, <1>9, SubSeqFull DEF V

(* A line keeps its words when it is split, and no piece is too long but for  *)
(* one of a single word.                                                      *)
LEMMA SplitParts ==
  ASSUME NEW line \in Seq(Word)
  PROVE  /\ SplitLine(line) \in Grouped(Word, Piece)
         /\ FlattenSeq(SplitLine(line)) = line
<1>1. CASE Length(line) <= Limit
  <2>1. SplitLine(line) = <<line>> /\ line \in Piece
    BY <1>1 DEF SplitLine, Piece
  <2>2. <<line>> \in Grouped(Word, Piece)
    <3>1. <<line>> \in Seq(Seq(Word)) /\ Range(<<line>>) = {line}
      BY DEF Range
    <3> QED
      BY <2>1, <3>1 DEF Grouped
  <2>3. FlattenSeq(<<line>>) = line
    <3>1. <<>> \in Seq(Seq(Word)) /\ Append(<<>>, line) = <<line>>
      OBVIOUS
    <3>2. FlattenSeq(Append(<<>>, line)) = FlattenSeq(<<>>) \o line
      BY <3>1, FlattenAppend
    <3>3. <<>> \o line = line
      BY ConcatEmptySeq
    <3> QED
      BY <3>1, <3>2, <3>3, FlattenEmpty
  <2> QED
    BY <2>1, <2>2, <2>3
<1>2. CASE ~(Length(line) <= Limit)
  BY <1>2, PackedParts DEF SplitLine
<1> QED
  BY <1>1, <1>2

(* Groups that are right, after groups that are.                              *)
LEMMA GroupedConcat ==
  ASSUME NEW S, NEW groups, NEW v \in Grouped(S, groups), NEW w \in Grouped(S, groups)
  PROVE  v \o w \in Grouped(S, groups)
<1>1. v \in Seq(Seq(S)) /\ w \in Seq(Seq(S))
  BY DEF Grouped
<1>2. v \o w \in Seq(Seq(S))
  BY <1>1, ConcatProperties
<1>3. \A g \in Range(v \o w) : g \in Range(v) \/ g \in Range(w)
  <2> DEFINE T == Seq(S)
  <2>1. v \in Seq(T) /\ w \in Seq(T)
    BY <1>1
  <2> HIDE DEF T
  <2>2. /\ Len(v) \in Nat /\ Len(w) \in Nat /\ DOMAIN v = 1 .. Len(v) /\ DOMAIN w = 1 .. Len(w)
        /\ DOMAIN (v \o w) = 1 .. Len(v) + Len(w)
        /\ \A k \in 1 .. Len(v) + Len(w) :
             (v \o w)[k] = IF k <= Len(v) THEN v[k] ELSE w[k - Len(v)]
    BY <2>1
  <2>3. ASSUME NEW k \in 1 .. Len(v) + Len(w)
        PROVE  (v \o w)[k] \in Range(v) \cup Range(w)
    <3>1. CASE k <= Len(v)
      <4>1. k \in 1 .. Len(v)
        BY <2>2, <3>1
      <4> QED
        BY <2>2, <3>1, <4>1 DEF Range
    <3>2. CASE ~(k <= Len(v))
      <4>1. k - Len(v) \in 1 .. Len(w)
        BY <2>2, <3>2
      <4> QED
        BY <2>2, <3>2, <4>1 DEF Range
    <3> QED
      BY <3>1, <3>2
  <2> QED
    BY <2>2, <2>3 DEF Range
<1> QED
  BY <1>2, <1>3 DEF Grouped

(* So do all lines.                                                           *)
LEMMA LinesParts ==
  ASSUME NEW lines \in Seq(Seq(Word))
  PROVE  /\ split_long_lines(lines) \in Grouped(Word, Piece)
         /\ FlattenSeq(split_long_lines(lines)) = FlattenSeq(lines)
<1> DEFINE Split(q) == [k \in DOMAIN q |-> SplitLine(q[k])]
           P == {q \in Seq(Seq(Word)) : /\ split_long_lines(q) \in Grouped(Word, Piece)
                                        /\ FlattenSeq(split_long_lines(q)) = FlattenSeq(q)}
<1>1. <<>> \in P
  <2>1. Split(<<>>) = <<>>
    OBVIOUS
  <2>2. split_long_lines(<<>>) = <<>>
    BY <2>1, FlattenEmpty DEF split_long_lines
  <2>3. <<>> \in Seq(Seq(Word)) /\ Range(<<>>) = {}
    BY DEF Range
  <2> QED
    BY <2>2, <2>3 DEF Grouped
<1>2. ASSUME NEW q \in Seq(Seq(Word)), NEW x \in Seq(Word), q \in P
      PROVE  Append(q, x) \in P
  <2>1. SplitLine(x) \in Grouped(Word, Piece) /\ FlattenSeq(SplitLine(x)) = x
    BY SplitParts
  <2>2. /\ split_long_lines(q) \in Grouped(Word, Piece)
        /\ FlattenSeq(split_long_lines(q)) = FlattenSeq(q)
    BY <1>2
  <2>3. split_long_lines(Append(q, x)) = split_long_lines(q) \o SplitLine(x)
    <3>1. Split(q) \in Seq(Seq(Seq(Word))) /\ SplitLine(x) \in Seq(Seq(Word))
      <4>1. \A k \in DOMAIN q : SplitLine(q[k]) \in Seq(Seq(Word))
        <5>1. \A k \in DOMAIN q : q[k] \in Seq(Word)
          OBVIOUS
        <5> QED
          BY <5>1, SplitParts DEF Grouped
      <4> DEFINE T == Seq(Seq(Word))
      <4>2. Split(q) \in Seq(T)
        <5>1. Split(q) \in [1 .. Len(q) -> T] /\ Len(q) \in Nat
          BY <4>1
        <5> HIDE DEF T
        <5> QED
          BY <5>1
      <4> QED
        BY <2>1, <4>2 DEF Grouped
    <3>2. Split(Append(q, x)) = Append(Split(q), SplitLine(x))
      <4> DEFINE r == Append(q, x)
      <4>1. /\ Len(q) \in Nat /\ r \in Seq(Seq(Word)) /\ Len(r) = Len(q) + 1 /\ r[Len(q) + 1] = x
            /\ DOMAIN r = 1 .. Len(q) + 1 /\ DOMAIN q = 1 .. Len(q)
            /\ \A k \in 1 .. Len(q) : r[k] = q[k]
        OBVIOUS
      <4> HIDE DEF r
      <4>2. Len(Split(q)) = Len(q)
        BY <4>1
      <4>3. Append(Split(q), SplitLine(x)) =
              [k \in 1 .. Len(q) + 1 |-> IF k = Len(q) + 1 THEN SplitLine(x) ELSE Split(q)[k]]
        BY <3>1, <4>2
      <4>4. ASSUME NEW k \in 1 .. Len(q) + 1
            PROVE  SplitLine(r[k]) = IF k = Len(q) + 1 THEN SplitLine(x) ELSE Split(q)[k]
        <5>1. k = Len(q) + 1 \/ k \in 1 .. Len(q)
          BY <4>1
        <5> QED
          BY <4>1, <5>1
      <4>5. Split(r) = Append(Split(q), SplitLine(x))
        BY <4>1, <4>3, <4>4
      <4> QED
        BY <4>5 DEF r
    <3>3. FlattenSeq(Split(Append(q, x))) = FlattenSeq(Split(q)) \o SplitLine(x)
      <4> DEFINE T == Seq(Word)
                 s == Split(q)
                 y == SplitLine(x)
      <4>1. s \in Seq(Seq(T)) /\ y \in Seq(T)
        BY <3>1
      <4> HIDE DEF T, s, y
      <4>2. FlattenSeq(Append(s, y)) = FlattenSeq(s) \o y
        BY <4>1, FlattenAppend
      <4> QED
        BY <3>2, <4>2 DEF s, y
    <3> QED
      BY <3>3 DEF split_long_lines
  <2>4. split_long_lines(Append(q, x)) \in Grouped(Word, Piece)
    BY <2>1, <2>2, <2>3, GroupedConcat
  <2>5. FlattenSeq(split_long_lines(Append(q, x))) = FlattenSeq(Append(q, x))
    <3>1. split_long_lines(q) \in Seq(Seq(Word)) /\ SplitLine(x) \in Seq(Seq(Word))
      BY <2>1, <2>2 DEF Grouped
    <3>2. FlattenSeq(split_long_lines(q) \o SplitLine(x)) =
            FlattenSeq(split_long_lines(q)) \o FlattenSeq(SplitLine(x))
      BY <3>1, FlattenConcat
    <3>3. FlattenSeq(Append(q, x)) = FlattenSeq(q) \o x
      BY FlattenAppend
    <3> QED
      BY <2>1, <2>2, <2>3, <3>2, <3>3
  <2>6. Append(q, x) \in Seq(Seq(Word))
    BY AppendProperties
  <2> QED
    BY <2>4, <2>5, <2>6
<1>3. \A q \in Seq(Seq(Word)) : q \in P
  <2> DEFINE S == Seq(Word)
  <2>1. \A q \in Seq(S), x \in S : q \in P => Append(q, x) \in P
    BY <1>2
  <2> HIDE DEF P, S
  <2>2. \A q \in Seq(S) : q \in P
    BY <1>1, <2>1, AddingOn
  <2> QED
    BY <2>2 DEF S
<1> QED
  BY <1>3

-----------------------------------------------------------------------------
(***************************************************************************)
(* Colors.                                                                 *)
(***************************************************************************)

LEMMA GreatestNumber ==
  ASSUME NEW n \in Nat, NEW T, T \subseteq 1 .. n, T # {}
  PROVE  Max(T) \in T /\ \A m \in T : m <= Max(T)
<1> DEFINE below == {n - k : k \in T}
<1>1. PICK l \in below : \A m \in below : l <= m
  <2>1. \A k \in T : n - k \in Nat
    OBVIOUS
  <2>2. below \subseteq Nat /\ below # {}
    BY <2>1
  <2> HIDE DEF below
  <2> QED
    BY <2>2, LeastNumber
<1>2. PICK k \in T : l = n - k
  OBVIOUS
<1>3. \A m \in T : k >= m
  <2> TAKE m \in T
  <2>1. n - m \in below
    OBVIOUS
  <2>2. l <= n - m
    BY <1>1, <2>1
  <2> QED
    BY <1>2, <2>2
<1>4. Max(T) \in T /\ \A m \in T : Max(T) >= m
  BY <1>3 DEF Max
<1> QED
  BY <1>4

TaggedWords(words) == {k \in DOMAIN words : words[k].color # NoColor}

ColorOf(color, words) ==
  IF TaggedWords(words) = {} THEN color ELSE words[Max(TaggedWords(words))].color

(* The last tag is one of the words, and the last one.                        *)
LEMMA TaggedParts ==
  ASSUME NEW w \in Seq(Word), TaggedWords(w) # {}
  PROVE  /\ Max(TaggedWords(w)) \in DOMAIN w /\ w[Max(TaggedWords(w))].color # NoColor
         /\ \A k \in TaggedWords(w) : k <= Max(TaggedWords(w))
<1>1. Len(w) \in Nat /\ TaggedWords(w) \subseteq 1 .. Len(w)
  BY DEF TaggedWords
<1>2. Max(TaggedWords(w)) \in TaggedWords(w) /\ \A k \in TaggedWords(w) : k <= Max(TaggedWords(w))
  BY <1>1, GreatestNumber
<1> QED
  BY <1>2 DEF TaggedWords

(* The color at the end of a text is that at the end of its second half, when *)
(* this starts in the color at the end of the first.                          *)
LEMMA ColorConcat ==
  ASSUME NEW c, NEW u \in Seq(Word), NEW w \in Seq(Word)
  PROVE  ColorOf(c, u \o w) = ColorOf(ColorOf(c, u), w)
<1> DEFINE n == Len(u)
           uw == u \o w
<1>1. /\ n \in Nat /\ Len(w) \in Nat /\ uw \in Seq(Word) /\ Len(uw) = n + Len(w)
      /\ DOMAIN u = 1 .. n /\ DOMAIN w = 1 .. Len(w) /\ DOMAIN uw = 1 .. n + Len(w)
      /\ \A k \in 1 .. n : uw[k] = u[k]
      /\ \A k \in 1 .. Len(w) : uw[n + k] = w[k]
  <2>1. \A k \in 1 .. n + Len(w) : uw[k] = IF k <= n THEN u[k] ELSE w[k - n]
    BY ConcatProperties
  <2>2. n \in Nat /\ Len(w) \in Nat
    OBVIOUS
  <2>3. \A k \in 1 .. n : k <= n /\ k \in 1 .. n + Len(w)
    BY <2>2
  <2>4. \A k \in 1 .. Len(w) : ~(n + k <= n) /\ (n + k) - n = k /\ n + k \in 1 .. n + Len(w)
    BY <2>2
  <2>5. \A k \in 1 .. Len(w) : uw[n + k] = w[k]
    <3> HIDE DEF uw, n
    <3> QED
      BY <2>1, <2>4
  <2>6. uw \in Seq(Word) /\ Len(uw) = n + Len(w)
    BY ConcatProperties
  <2> QED
    BY <2>1, <2>2, <2>3, <2>5, <2>6
<1> HIDE DEF n, uw
<1>2. CASE TaggedWords(w) # {}
  <2> DEFINE m == Max(TaggedWords(w))
             M == Max(TaggedWords(uw))
  <2>1. m \in 1 .. Len(w) /\ w[m].color # NoColor /\ \A k \in TaggedWords(w) : k <= m
    BY <1>1, <1>2, TaggedParts
  <2>2. n + m \in TaggedWords(uw)
    BY <1>1, <2>1 DEF TaggedWords
  <2>3. M \in 1 .. n + Len(w) /\ uw[M].color # NoColor /\ n + m <= M
    BY <1>1, <2>2, TaggedParts
  <2> HIDE DEF m, M
  <2>4. M - n \in 1 .. Len(w)
    BY <1>1, <2>1, <2>3
  <2>5. M - n \in TaggedWords(w)
    <3>1. n + (M - n) = M
      BY <1>1, <2>3
    <3>2. uw[n + (M - n)] = w[M - n]
      BY <1>1, <2>4
    <3> QED
      BY <1>1, <2>3, <2>4, <3>1, <3>2 DEF TaggedWords
  <2>6. M = n + m
    <3>1. M - n <= m
      BY <2>1, <2>5
    <3> QED
      BY <1>1, <2>1, <2>3, <3>1
  <2>7. uw[M] = w[m]
    BY <1>1, <2>1, <2>6
  <2> QED
    BY <1>2, <2>2, <2>7 DEF ColorOf, m, M, uw
<1>3. CASE TaggedWords(w) = {}
  <2>1. TaggedWords(uw) = TaggedWords(u)
    <3>1. ASSUME NEW k \in TaggedWords(uw)
          PROVE  k \in TaggedWords(u)
      <4>1. k \in 1 .. n + Len(w) /\ uw[k].color # NoColor
        BY <1>1 DEF TaggedWords
      <4>2. CASE k \in 1 .. n
        BY <1>1, <4>1, <4>2 DEF TaggedWords
      <4>3. CASE k \notin 1 .. n
        <5>1. k - n \in 1 .. Len(w) /\ n + (k - n) = k
          BY <1>1, <4>1, <4>3
        <5>2. uw[n + (k - n)] = w[k - n]
          BY <1>1, <5>1
        <5>3. k - n \in TaggedWords(w)
          BY <1>1, <4>1, <5>1, <5>2 DEF TaggedWords
        <5> QED
          BY <1>3, <5>3
      <4> QED
        BY <4>2, <4>3
    <3>2. ASSUME NEW k \in TaggedWords(u)
          PROVE  k \in TaggedWords(uw)
      <4>1. k \in 1 .. n /\ u[k].color # NoColor
        BY <1>1 DEF TaggedWords
      <4>2. k \in 1 .. n + Len(w)
        BY <1>1, <4>1
      <4> QED
        BY <1>1, <4>1, <4>2 DEF TaggedWords
    <3> QED
      BY <3>1, <3>2
  <2>2. TaggedWords(u) # {} => uw[Max(TaggedWords(u))] = u[Max(TaggedWords(u))]
    BY <1>1, TaggedParts
  <2> QED
    BY <1>3, <2>1, <2>2 DEF ColorOf, uw
<1> QED
  BY <1>2, <1>3

LEMMA LastColorParts ==
  ASSUME NEW c \in Nat, NEW p \in Seq(Seq(Word))
  PROVE  /\ LastColor(c, p) \in Nat
         /\ LastColor(c, p) = ColorOf(c, FlattenSeq(p))
<1>1. LastColor(c, p) = ColorOf(c, FlattenSeq(p))
  BY DEF LastColor, ColorOf, TaggedWords
<1>2. FlattenSeq(p) \in Seq(Word)
  <2>1. <<>> \in Seq(Word)
    OBVIOUS
  <2> QED
    BY <2>1, FlattenAppend
<1>3. ColorOf(c, FlattenSeq(p)) \in Nat
  <2> DEFINE w == FlattenSeq(p)
  <2>1. \A k \in DOMAIN w : w[k].color \in Nat
    <3>1. \A k \in DOMAIN w : w[k] \in Word
      BY <1>2
    <3> QED
      BY <3>1 DEF Word
  <2> HIDE DEF w
  <2>2. w \in Seq(Word)
    BY <1>2 DEF w
  <2> QED
    BY <2>1, <2>2, TaggedParts DEF ColorOf, w
<1> QED
  BY <1>1, <1>3

LEMMA LastColorConcat ==
  ASSUME NEW c \in Nat, NEW p \in Seq(Seq(Word)), NEW q \in Seq(Seq(Word))
  PROVE  LastColor(c, p \o q) = LastColor(LastColor(c, p), q)
<1>1. p \o q \in Seq(Seq(Word)) /\ FlattenSeq(p) \in Seq(Word) /\ FlattenSeq(q) \in Seq(Word)
  <2>1. <<>> \in Seq(Word)
    OBVIOUS
  <2> QED
    BY <2>1, FlattenAppend, ConcatProperties
<1>2. FlattenSeq(p \o q) = FlattenSeq(p) \o FlattenSeq(q)
  BY FlattenConcat
<1>3. LastColor(c, p \o q) = ColorOf(c, FlattenSeq(p) \o FlattenSeq(q))
  BY <1>1, <1>2, LastColorParts
<1>4. LastColor(c, p) \in Nat /\ LastColor(c, p) = ColorOf(c, FlattenSeq(p))
  BY LastColorParts
<1>5. LastColor(LastColor(c, p), q) = ColorOf(ColorOf(c, FlattenSeq(p)), FlattenSeq(q))
  BY <1>4, LastColorParts
<1> QED
  BY <1>1, <1>3, <1>5, ColorConcat

(* A message starts with the color at the end of all that came before it.     *)
LEMMA ColoredParts ==
  ASSUME NEW joined \in Seq(Seq(Seq(Word)))
  PROVE  /\ DOMAIN WithColors(joined) = DOMAIN joined
         /\ \A k \in DOMAIN joined :
              /\ WithColors(joined)[k].pieces = joined[k]
              /\ WithColors(joined)[k].color =
                   LastColor(NoColor, FlattenSeq([j \in 1 .. k - 1 |-> joined[j]]))
<1> DEFINE n == Len(joined)
           Value(g, k) == IF k = 1 THEN NoColor ELSE LastColor(g[k - 1], joined[k - 1])
           Fits(g) == g = [k \in 1 .. n |-> Value(g, k)]
           Before(k) == [j \in 1 .. k |-> joined[j]]
<1>1. n \in Nat /\ DOMAIN joined = 1 .. n /\ \A k \in 1 .. n : joined[k] \in Seq(Seq(Word))
  <2> DEFINE T == Seq(Seq(Word))
  <2>1. joined \in Seq(T)
    OBVIOUS
  <2> HIDE DEF T
  <2>2. n \in Nat /\ DOMAIN joined = 1 .. n /\ \A k \in 1 .. n : joined[k] \in T
    BY <2>1
  <2> QED
    BY <2>2 DEF T
<1> HIDE DEF n
<1>2. NoColor \in Nat
  BY DEF NoColor
<1>3. PICK f \in [0 .. n -> Nat] :
        f[0] = NoColor /\ \A k \in 1 .. n : f[k] = Value(f, k)
  <2> DEFINE G == [k \in 1 .. n |-> [x \in Nat |->
                     IF k = 1 THEN NoColor ELSE LastColor(x, joined[k - 1])]]
             V == Nat
             e == NoColor
  <2>1. e \in V /\ G \in Steps(n, V)
    <3>1. ASSUME NEW k \in 1 .. n, NEW x \in Nat, k # 1
          PROVE  LastColor(x, joined[k - 1]) \in Nat
      <4>1. k - 1 \in 1 .. n
        BY <1>1, <3>1
      <4> QED
        BY <1>1, <4>1, LastColorParts
    <3> QED
      BY <1>2, <3>1 DEF Steps
  <2>2. Values(n, V, e, G) # {}
    <3> HIDE DEF V, e, G
    <3> QED
      BY <1>1, <2>1, Recursion
  <2>3. PICK f \in [0 .. n -> Nat] : f[0] = NoColor /\ \A k \in 1 .. n : f[k] = G[k][f[k - 1]]
    <3> HIDE DEF G
    <3> QED
      BY <2>2 DEF Values
  <2>4. ASSUME NEW k \in 1 .. n
        PROVE  f[k] = Value(f, k)
    <3>1. k - 1 \in 0 .. n
      BY <1>1
    <3>2. f[k - 1] \in Nat
      BY <3>1
    <3>3. f[k] = G[k][f[k - 1]]
      BY <2>3, Zenon
    <3> QED
      BY <3>2, <3>3
  <2> QED
    BY <2>3, <2>4
<1>4. PICK g : Fits(g) /\ WithColors(joined) = [k \in DOMAIN joined |-> [color |-> g[k], pieces |-> joined[k]]]
  <2>1. PICK h : h = [k \in 1 .. n |-> f[k]]
    OBVIOUS
  <2>2. Fits(h)
    <3>1. ASSUME NEW k \in 1 .. n
          PROVE  f[k] = Value(h, k)
      <4>1. CASE k = 1
        BY <1>3, <4>1
      <4>2. CASE k # 1
        <5>1. k - 1 \in 1 .. n
          BY <1>1, <4>2
        <5>2. h[k - 1] = f[k - 1]
          BY <2>1, <5>1
        <5> QED
          BY <1>3, <4>2, <5>2
      <4> QED
        BY <4>1, <4>2
    <3> HIDE DEF Value
    <3> QED
      BY <2>1, <3>1
  <2>3. PICK g : g = CHOOSE x : Fits(x)
    OBVIOUS
  <2>4. Fits(g)
    <3> HIDE DEF Fits
    <3> QED
      BY <2>2, <2>3
  <2>5. WithColors(joined) = [k \in DOMAIN joined |-> [color |-> g[k], pieces |-> joined[k]]]
    BY <2>3 DEF WithColors, n
  <2> QED
    BY <2>4, <2>5
<1>5. \A k \in 1 .. n : g[k] = Value(g, k)
  <2> HIDE DEF Value
  <2> QED
    BY <1>4
<1>6. FlattenSeq(Before(0)) = <<>>
  <2>1. Before(0) = <<>>
    OBVIOUS
  <2> QED
    BY <2>1, FlattenEmpty
<1>7. ASSUME NEW k \in 1 .. n
      PROVE  /\ FlattenSeq(Before(k - 1)) \in Seq(Seq(Word))
             /\ FlattenSeq(Before(k)) = FlattenSeq(Before(k - 1)) \o joined[k]
  <2> DEFINE T == Seq(Seq(Word))
             b == Before(k - 1)
  <2>1. b \in Seq(T)
    <3>1. \A j \in 1 .. k - 1 : joined[j] \in T
      BY <1>1
    <3>2. b \in [1 .. k - 1 -> T] /\ k - 1 \in Nat
      BY <3>1
    <3> HIDE DEF T, b
    <3> QED
      BY <3>2
  <2>2. Before(k) = Append(b, joined[k])
    <3>1. Len(b) = k - 1
      BY <1>1
    <3>2. Append(b, joined[k]) = [j \in 1 .. k |-> IF j = k THEN joined[k] ELSE b[j]]
      <4>1. Append(b, joined[k]) = [j \in 1 .. (k - 1) + 1 |-> IF j = (k - 1) + 1 THEN joined[k] ELSE b[j]]
        BY <2>1, <3>1
      <4>2. (k - 1) + 1 = k
        BY <1>1
      <4> QED
        BY <4>1, <4>2, Zenon
    <3>3. \A j \in 1 .. k : j = k \/ j \in 1 .. k - 1
      BY <1>1
    <3> QED
      BY <3>2, <3>3
  <2>3. joined[k] \in T
    BY <1>1
  <2>4. FlattenSeq(b) \in T /\ FlattenSeq(Append(b, joined[k])) = FlattenSeq(b) \o joined[k]
    <3> DEFINE R == Seq(Word)
    <3>1. b \in Seq(Seq(R)) /\ joined[k] \in Seq(R)
      BY <2>1, <2>3
    <3> HIDE DEF R, b
    <3>2. FlattenSeq(b) \in Seq(R) /\ FlattenSeq(Append(b, joined[k])) = FlattenSeq(b) \o joined[k]
      BY <3>1, FlattenAppend
    <3> QED
      BY <3>2 DEF R
  <2> QED
    BY <2>2, <2>4
<1> DEFINE P == {k \in 0 .. n : k = 0 \/ g[k] = LastColor(NoColor, FlattenSeq(Before(k - 1)))}
<1>8. ASSUME NEW k \in 1 .. n, k - 1 \in P
      PROVE  k \in P
  <2>1. CASE k = 1
    <3>1. g[k] = NoColor
      BY <1>5, <2>1
    <3>2. LastColor(NoColor, <<>>) = NoColor
      BY FlattenEmpty DEF LastColor
    <3>3. k - 1 = 0
      BY <2>1
    <3> QED
      BY <1>1, <1>6, <3>1, <3>2, <3>3
  <2>2. CASE k # 1
    <3> DEFINE m == k - 1
    <3>1. m \in 1 .. n /\ m # 0
      BY <1>1, <2>2
    <3>2. g[m] = LastColor(NoColor, FlattenSeq(Before(m - 1)))
      BY <1>8, <3>1
    <3>3. g[k] = LastColor(g[m], joined[m])
      BY <1>5, <2>2
    <3> HIDE DEF m, Before
    <3>4. /\ FlattenSeq(Before(m - 1)) \in Seq(Seq(Word)) /\ joined[m] \in Seq(Seq(Word))
          /\ FlattenSeq(Before(m)) = FlattenSeq(Before(m - 1)) \o joined[m]
      BY <1>1, <1>7, <3>1
    <3>5. g[k] = LastColor(NoColor, FlattenSeq(Before(m)))
      BY <1>2, <3>2, <3>3, <3>4, LastColorConcat
    <3> QED
      BY <1>1, <3>5 DEF m
  <2> QED
    BY <2>1, <2>2
<1>9. \A k \in 0 .. n : k \in P
  <2>1. 0 \in P
    BY <1>1
  <2> HIDE DEF P
  <2> QED
    BY <1>1, <1>8, <2>1, CountingUp
<1>10. \A k \in 1 .. n : g[k] = LastColor(NoColor, FlattenSeq(Before(k - 1)))
  <2>1. \A k \in 1 .. n : k \in 0 .. n /\ k # 0
    BY <1>1
  <2> QED
    BY <1>9, <2>1
<1>11. WithColors(joined) = [k \in 1 .. n |-> [color |-> g[k], pieces |-> joined[k]]]
  BY <1>1, <1>4
<1>12. /\ DOMAIN WithColors(joined) = 1 .. n
       /\ \A k \in 1 .. n : /\ WithColors(joined)[k].pieces = joined[k]
                           /\ WithColors(joined)[k].color = g[k]
  BY <1>11
<1> HIDE DEF Fits, P, Value
<1> QED
  BY <1>1, <1>10, <1>12

(* A channel makes messages of the lines it is given: no word is lost, what   *)
(* is too long is a single piece, or a single word, and each starts in the    *)
(* color that was reached.                                                    *)
LEMMA Replied ==
  ASSUME NEW lines \in Seq(Seq(Word))
  PROVE  LET messages == reply(lines)
             joined == JoinPieces(split_long_lines(lines))
         IN /\ joined \in Grouped(Seq(Word), Message)
            /\ split_long_lines(lines) \in Grouped(Word, Piece)
            /\ FlattenSeq(joined) = split_long_lines(lines)
            /\ DOMAIN messages = DOMAIN joined
            /\ \A k \in DOMAIN joined :
                 /\ messages[k].pieces = joined[k]
                 /\ messages[k].color = LastColor(NoColor, FlattenSeq([j \in 1 .. k - 1 |-> joined[j]]))
<1> DEFINE joined == JoinPieces(split_long_lines(lines))
<1>1. split_long_lines(lines) \in Grouped(Word, Piece)
  BY LinesParts
<1>2. split_long_lines(lines) \in Seq(Seq(Word))
  BY <1>1 DEF Grouped
<1>3. joined \in Grouped(Seq(Word), Message) /\ FlattenSeq(joined) = split_long_lines(lines)
  BY <1>2, PackedParts DEF JoinPieces
<1>4. joined \in Seq(Seq(Seq(Word)))
  BY <1>3 DEF Grouped
<1>5. reply(lines) = WithColors(joined)
  BY DEF reply
<1> HIDE DEF joined
<1>6. /\ DOMAIN WithColors(joined) = DOMAIN joined
      /\ \A k \in DOMAIN joined :
           /\ WithColors(joined)[k].pieces = joined[k]
           /\ WithColors(joined)[k].color =
                LastColor(NoColor, FlattenSeq([j \in 1 .. k - 1 |-> joined[j]]))
  BY <1>4, ColoredParts
<1> QED
  BY <1>1, <1>3, <1>5, <1>6 DEF joined

(* What a channel is given are texts, and their lines are made of words.      *)
LEMMA GivenLines ==
  ASSUME TypeOK, NEW texts \in Given
  PROVE  Lines(texts) \in Seq(Seq(Word))
<1>1. texts \in Seq(Texts)
  <2>1. OpenBlocks \subseteq Redirectors
    <3>1. \A t \in Threads : \A d \in Blocks(t) : stack[t][d].of \in Redirectors
      BY DEF TypeOK, Blocks, Frame
    <3> QED
      BY <3>1 DEF OpenBlocks, OpenOn
  <2>2. PICK r \in OpenBlocks : replies[r] # <<>> /\ texts = Last(replies[r])
    BY DEF Given
  <2>3. replies[r] \in Seq(Seq(Texts))
    BY <2>1, <2>2 DEF TypeOK
  <2> DEFINE T == Seq(Texts)
  <2>4. replies[r] \in Seq(T)
    BY <2>3
  <2> HIDE DEF T
  <2>5. replies[r][Len(replies[r])] \in T
    BY <2>2, <2>4
  <2> QED
    BY <2>2, <2>5 DEF Last, T
<1>2. \A k \in DOMAIN texts : Words[texts[k]] \in Seq(Word)
  BY <1>1, OutputAssumption
<1>3. [k \in DOMAIN texts |-> Words[texts[k]]] \in Seq(Seq(Word))
  <2> DEFINE T == Seq(Word)
             w == [k \in DOMAIN texts |-> Words[texts[k]]]
  <2>1. w \in [1 .. Len(texts) -> T] /\ Len(texts) \in Nat
    BY <1>1, <1>2
  <2> HIDE DEF T, w
  <2>2. w \in Seq(T)
    BY <2>1
  <2> QED
    BY <2>2 DEF T, w
<1>4. <<>> \in Seq(Word)
  OBVIOUS
<1> QED
  BY <1>3, <1>4, AppendProperties DEF Lines

(* However long the words a channel is given are and whatever the limits of   *)
(* a line and of a message, splitting and joining loses and doubles none; no  *)
(* message is too long but for one of a single piece, and no piece but for    *)
(* one of a single word (channels.rs: split_long_lines, ChatChannel::reply).  *)
THEOREM MessagesAlwaysFit == Spec => []MessagesFit
<1>1. ASSUME TypeOK, NEW texts \in Given
      PROVE  LET messages == reply(Lines(texts))
                 pieces == FlattenSeq([k \in DOMAIN messages |-> messages[k].pieces])
             IN /\ FlattenSeq(pieces) = FlattenSeq(Lines(texts))
                /\ \A m \in ToSet(messages) :
                     MessageLength(m.pieces) <= MAX_MSG_LENGTH \/ Len(m.pieces) = 1
                /\ \A p \in ToSet(pieces) : Length(p) <= Limit \/ Len(p) = 1
  <2> DEFINE lines == Lines(texts)
             messages == reply(lines)
             split == split_long_lines(lines)
             joined == JoinPieces(split)
             pieces == FlattenSeq([k \in DOMAIN messages |-> messages[k].pieces])
  <2>1. lines \in Seq(Seq(Word))
    BY <1>1, GivenLines
  <2> HIDE DEF lines
  <2>2. /\ joined \in Grouped(Seq(Word), Message) /\ split \in Grouped(Word, Piece)
        /\ FlattenSeq(joined) = split
        /\ DOMAIN messages = DOMAIN joined
        /\ \A k \in DOMAIN joined : messages[k].pieces = joined[k]
    BY <2>1, Replied
  <2>3. FlattenSeq(split) = FlattenSeq(lines)
    BY <2>1, LinesParts
  <2> HIDE DEF messages, split, joined
  <2>4. pieces = split
    <3>1. joined = [k \in DOMAIN joined |-> joined[k]]
      BY <2>2 DEF Grouped
    <3>2. [k \in DOMAIN messages |-> messages[k].pieces] = [k \in DOMAIN joined |-> joined[k]]
      BY <2>2
    <3> QED
      BY <2>2, <3>1, <3>2
  <2>5. ASSUME NEW m \in ToSet(messages)
        PROVE  MessageLength(m.pieces) <= MAX_MSG_LENGTH \/ Len(m.pieces) = 1
    <3>1. m.pieces \in Range(joined)
      BY <2>2 DEF ToSet, Range
    <3>2. m.pieces \in Message \/ Len(m.pieces) = 1
      BY <2>2, <3>1 DEF Grouped
    <3> QED
      BY <3>2 DEF Message
  <2>6. ASSUME NEW p \in ToSet(pieces)
        PROVE  Length(p) <= Limit \/ Len(p) = 1
    <3>1. p \in Range(split)
      BY <2>4 DEF ToSet, Range
    <3>2. p \in Piece \/ Len(p) = 1
      BY <2>2, <3>1 DEF Grouped
    <3> QED
      BY <3>2 DEF Piece
  <2> QED
    BY <2>3, <2>4, <2>5, <2>6 DEF messages, lines
<1>2. TypeOK => MessagesFit
  BY <1>1 DEF MessagesFit
<1> QED
  BY <1>2, OutputTypeOK, PTL

(* However a text is cut into messages, each starts in the color reached by   *)
(* all of those before it (channels.rs: ChatChannel::reply, last_color).      *)
THEOREM ColorsAlwaysCarry == Spec => []ColorsCarry
<1>1. ASSUME TypeOK, NEW texts \in Given
      PROVE  LET messages == reply(Lines(texts))
             IN \A k \in DOMAIN messages :
                  messages[k].color =
                    LastColor(0, FlattenSeq([j \in 1 .. k - 1 |-> messages[j].pieces]))
  <2> DEFINE lines == Lines(texts)
             messages == reply(lines)
             joined == JoinPieces(split_long_lines(lines))
  <2>1. lines \in Seq(Seq(Word))
    BY <1>1, GivenLines
  <2> HIDE DEF lines
  <2>2. /\ joined \in Grouped(Seq(Word), Message)
        /\ DOMAIN messages = DOMAIN joined
        /\ \A k \in DOMAIN joined :
             /\ messages[k].pieces = joined[k]
             /\ messages[k].color = LastColor(NoColor, FlattenSeq([j \in 1 .. k - 1 |-> joined[j]]))
    BY <2>1, Replied
  <2> HIDE DEF messages, joined
  <2>3. DOMAIN joined = 1 .. Len(joined) /\ Len(joined) \in Nat
    <3> DEFINE T == Seq(Seq(Word))
    <3>1. joined \in Seq(T)
      BY <2>2 DEF Grouped
    <3> HIDE DEF T
    <3> QED
      BY <3>1
  <2>4. ASSUME NEW k \in DOMAIN messages
        PROVE  messages[k].color =
                 LastColor(0, FlattenSeq([j \in 1 .. k - 1 |-> messages[j].pieces]))
    <3>1. k \in DOMAIN joined /\ \A j \in 1 .. k - 1 : j \in DOMAIN joined
      BY <2>2, <2>3, <2>4
    <3>2. [j \in 1 .. k - 1 |-> messages[j].pieces] = [j \in 1 .. k - 1 |-> joined[j]]
      BY <2>2, <3>1
    <3> QED
      BY <2>2, <3>1, <3>2 DEF NoColor
  <2> QED
    BY <2>4 DEF messages, lines
<1>2. TypeOK => ColorsCarry
  BY <1>1 DEF ColorsCarry
<1> QED
  BY <1>2, OutputTypeOK, PTL

=============================================================================
