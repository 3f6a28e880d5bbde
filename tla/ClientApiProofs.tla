--------------------------- MODULE ClientApiProofs ---------------------------
(***************************************************************************)
(* What ClientProperties states, for every number of threads, calls,       *)
(* handlers and slots.                                                     *)
(***************************************************************************)
EXTENDS ClientProperties, FiniteSetTheorems, SequenceTheorems, TLAPS

(***************************************************************************)
(* What a step does to the stacks                                          *)
(***************************************************************************)

\* The n innermost frames of a are replaced by fs.
Shape(a, fs, n) ==
  /\ fs \in Seq(Frames) /\ n \in 0..Len(stack[a])
  /\ stack' = [stack EXCEPT ![a] = fs \o SubSeq(stack[a], n + 1, Len(stack[a]))]

\* The stacks are sequences of frames.
StackOK == stack \in [Actors -> Seq(Frames)]

LEMMA StackLen ==
  ASSUME StackOK, NEW a \in Actors
  PROVE  /\ stack[a] \in Seq(Frames) /\ Len(stack[a]) \in Nat
         /\ DOMAIN stack[a] = 1..Len(stack[a])
         /\ \A i \in DOMAIN stack[a] : stack[a][i] \in Frames
         /\ stack[a] = <<>> <=> Len(stack[a]) = 0
         /\ stack[a] # <<>> => Head(stack[a]) = stack[a][1]
  <1>1. stack[a] \in Seq(Frames)
    BY DEF StackOK
  <1> QED BY <1>1, LenProperties, ElementOfSeq, EmptySeq, HeadTailProperties

\* The new frames come first, the others keep their order; the stacks of the
\* other actors stay.
LEMMA ShapeFacts ==
  ASSUME StackOK, NEW a \in Actors, NEW fs, NEW n, Shape(a, fs, n)
  PROVE  /\ StackOK' /\ n \in Nat /\ n <= Len(stack[a])
         /\ Len(stack[a]) \in Nat /\ Len(fs) \in Nat /\ DOMAIN fs = 1..Len(fs)
         /\ DOMAIN stack[a] = 1..Len(stack[a])
         /\ Len(stack'[a]) = Len(fs) + Len(stack[a]) - n
         /\ DOMAIN stack'[a] = 1..Len(stack'[a])
         /\ \A i \in DOMAIN fs : fs[i] \in Frames /\ stack'[a][i] = fs[i]
         /\ \A i \in DOMAIN stack'[a] :
              i > Len(fs) => /\ i - Len(fs) + n \in DOMAIN stack[a]
                             /\ stack'[a][i] = stack[a][i - Len(fs) + n]
         /\ \A i \in DOMAIN stack[a] :
              i > n => /\ i - n + Len(fs) \in DOMAIN stack'[a]
                       /\ stack'[a][i - n + Len(fs)] = stack[a][i]
         /\ \A b \in Actors \ {a} : stack'[b] = stack[b]
  <1> DEFINE s == stack[a]
             rest == SubSeq(s, n + 1, Len(s))
  <1>1. /\ s \in Seq(Frames) /\ fs \in Seq(Frames)
        /\ Len(s) \in Nat /\ Len(fs) \in Nat /\ n \in 0..Len(s)
        /\ DOMAIN s = 1..Len(s) /\ DOMAIN fs = 1..Len(fs)
    BY LenProperties DEF Shape, StackOK
  <1>2. /\ rest \in Seq(Frames)
        /\ Len(rest) = Len(s) - n
        /\ \A i \in 1..(Len(s) - n) : rest[i] = s[n + i]
    <2>1. /\ n + 1 \in Int /\ Len(s) \in Int
          /\ n + 1 <= Len(s) + 1
      BY <1>1
    <2>2. \A i \in (n + 1)..Len(s) : i \in DOMAIN s
      BY <1>1
    <2> QED BY <1>1, <2>1, <2>2, SubSeqProperties
  <1>3. /\ stack'[a] = fs \o rest
        /\ \A b \in Actors \ {a} : stack'[b] = stack[b]
    BY DEF Shape, StackOK
  <1>a. stack' = [stack EXCEPT ![a] = fs \o rest]
    BY DEF Shape
  <1> HIDE DEF s, rest
  <1>4. /\ fs \o rest \in Seq(Frames)
        /\ Len(fs \o rest) = Len(fs) + Len(rest)
        /\ \A i \in 1..(Len(fs) + Len(rest)) :
             (fs \o rest)[i] = IF i <= Len(fs) THEN fs[i] ELSE rest[i - Len(fs)]
    BY <1>1, <1>2, ConcatProperties
  <1>5. StackOK'
    BY <1>a, <1>4 DEF StackOK
  <1>6. DOMAIN stack'[a] = 1..Len(stack'[a])
    BY <1>3, <1>4, LenProperties
  <1>7. \A i \in DOMAIN fs : fs[i] \in Frames /\ stack'[a][i] = fs[i]
    BY <1>1, <1>3, <1>4, ElementOfSeq
  <1>8. ASSUME NEW i \in DOMAIN stack'[a], i > Len(fs)
        PROVE  /\ i - Len(fs) + n \in DOMAIN s
               /\ stack'[a][i] = s[i - Len(fs) + n]
    <2>1. /\ i \in 1..(Len(fs) + Len(rest)) /\ ~(i <= Len(fs))
          /\ i - Len(fs) \in 1..(Len(s) - n)
          /\ n + (i - Len(fs)) = i - Len(fs) + n
      BY <1>1, <1>2, <1>3, <1>4, <1>6, <1>8
    <2>2. stack'[a][i] = rest[i - Len(fs)]
      BY <1>3, <1>4, <2>1
    <2> QED BY <1>1, <1>2, <2>1, <2>2
  <1>9. ASSUME NEW i \in DOMAIN s, i > n
        PROVE  /\ i - n + Len(fs) \in DOMAIN stack'[a]
               /\ stack'[a][i - n + Len(fs)] = s[i]
    <2> DEFINE j == i - n + Len(fs)
    <2>1. /\ j \in 1..(Len(fs) + Len(rest)) /\ ~(j <= Len(fs))
          /\ j - Len(fs) = i - n
          /\ i - n \in 1..(Len(s) - n)
          /\ n + (i - n) = i
      BY <1>1, <1>2, <1>9
    <2> HIDE DEF j
    <2>2. stack'[a][j] = rest[i - n]
      BY <1>3, <1>4, <2>1
    <2>3. stack'[a][j] = s[i]
      BY <1>2, <2>1, <2>2
    <2>4. j \in DOMAIN stack'[a]
      BY <1>3, <1>4, <1>6, <2>1
    <2> QED BY <2>3, <2>4 DEF j
  <1>10. n \in Nat /\ n <= Len(s) /\ Len(stack'[a]) = Len(fs) + Len(s) - n
    BY <1>1, <1>2, <1>3, <1>4
  <1> USE DEF s
  <1>11. \A i \in DOMAIN stack'[a] :
           i > Len(fs) => /\ i - Len(fs) + n \in DOMAIN stack[a]
                          /\ stack'[a][i] = stack[a][i - Len(fs) + n]
    BY ONLY <1>8
  <1>12. \A i \in DOMAIN stack[a] :
           i > n => /\ i - n + Len(fs) \in DOMAIN stack'[a]
                    /\ stack'[a][i - n + Len(fs)] = stack[a][i]
    BY ONLY <1>9
  <1> QED BY <1>1, <1>3, <1>5, <1>6, <1>7, <1>10, <1>11, <1>12

LEMMA ShapeLen ==
  ASSUME StackOK, NEW a \in Actors, NEW fs, NEW n, Shape(a, fs, n)
  PROVE  /\ Len(stack'[a]) = Len(fs) + Len(stack[a]) - n
         /\ Len(fs) \in Nat /\ Len(stack[a]) \in Nat
  BY ShapeFacts

\* The three ways in which the actions write it
LEMMA Shapes ==
  ASSUME StackOK, NEW a \in Actors, NEW f \in Frames
  PROVE  /\ Enter(a, f) => Shape(a, <<f>>, 0)
         /\ stack[a] # <<>> /\ Goto(a, f) => Shape(a, <<f>>, 1)
         /\ stack[a] # <<>> /\ Return(a) => Shape(a, <<>>, 1)
  <1>1. /\ stack[a] \in Seq(Frames) /\ Len(stack[a]) \in Nat
        /\ <<f>> \in Seq(Frames) /\ <<>> \in Seq(Frames)
    BY StackLen
  <1>2. SubSeq(stack[a], 1, Len(stack[a])) = stack[a]
    BY <1>1
  <1>3. ASSUME stack[a] # <<>>
        PROVE  /\ SubSeq(stack[a], 2, Len(stack[a])) = Tail(stack[a])
               /\ 1 <= Len(stack[a])
               /\ <<>> \o Tail(stack[a]) = Tail(stack[a])
    <2>1. 1 <= Len(stack[a])
      BY <1>1, <1>3, EmptySeq
    <2>2. Tail(stack[a]) \in Seq(Frames)
      BY <1>1, <1>3, HeadTailProperties
    <2> QED BY <1>1, <1>3, <2>1, <2>2, HeadTailProperties, ConcatEmptySeq
  <1>4. ASSUME Enter(a, f) PROVE Shape(a, <<f>>, 0)
    <2>1. 0 \in 0..Len(stack[a]) /\ 0 + 1 = 1
      BY <1>1
    <2>2. stack' = [stack EXCEPT ![a] = <<f>> \o SubSeq(stack[a], 0 + 1, Len(stack[a]))]
      BY <1>2, <1>4, <2>1 DEF Enter
    <2> QED BY <1>1, <2>1, <2>2 DEF Shape
  <1>5. ASSUME stack[a] # <<>>
        PROVE  /\ Goto(a, f) => Shape(a, <<f>>, 1)
               /\ Return(a) => Shape(a, <<>>, 1)
    <2>1. 1 \in 0..Len(stack[a]) /\ 1 + 1 = 2
      BY <1>1, <1>3, <1>5
    <2>2. SubSeq(stack[a], 1 + 1, Len(stack[a])) = Tail(stack[a])
      BY <1>3, <1>5, <2>1
    <2>3. ASSUME Goto(a, f) PROVE Shape(a, <<f>>, 1)
      <3>1. stack' = [stack EXCEPT ![a] = <<f>> \o SubSeq(stack[a], 1 + 1, Len(stack[a]))]
        BY <2>2, <2>3, Zenon DEF Goto
      <3> QED BY <1>1, <2>1, <3>1, Zenon DEF Shape
    <2>4. ASSUME Return(a) PROVE Shape(a, <<>>, 1)
      <3>1. stack' = [stack EXCEPT ![a] = <<>> \o SubSeq(stack[a], 1 + 1, Len(stack[a]))]
        BY <1>3, <1>5, <2>2, <2>4, Zenon DEF Return
      <3> QED BY <1>1, <2>1, <3>1, Zenon DEF Shape
    <2> QED BY <2>3, <2>4
  <1> QED BY <1>4, <1>5

LEMMA PairOfFrames ==
  ASSUME NEW f \in Frames, NEW g \in Frames
  PROVE  <<f>> \o <<g>> = <<f, g>> /\ <<f, g>> \in Seq(Frames)
  <1> DEFINE c == <<f>> \o <<g>>
             d == <<f, g>>
  <1>1. /\ <<f>> \in Seq(Frames) /\ <<g>> \in Seq(Frames) /\ d \in Seq(Frames)
        /\ Len(<<f>>) = 1 /\ Len(<<g>>) = 1 /\ Len(d) = 2
        /\ <<f>>[1] = f /\ <<g>>[1] = g /\ d[1] = f /\ d[2] = g
    OBVIOUS
  <1>2. /\ Len(c) = 2 /\ c \in Seq(Frames) /\ c[1] = f /\ c[2] = g
    BY <1>1, ConcatProperties
  <1> HIDE DEF c, d
  <1>3. \A i \in 1..Len(c) : c[i] = d[i]
    BY <1>1, <1>2
  <1>4. c = d
    BY <1>1, <1>2, <1>3, SeqEqual
  <1> QED BY <1>1, <1>4 DEF c, d

\* On an empty stack the new frames are all.
LEMMA EmptyBelow ==
  ASSUME NEW a \in Actors, NEW fs \in Seq(Frames), stack[a] = <<>>,
         stack' = [stack EXCEPT ![a] = fs]
  PROVE  Shape(a, fs, 0)
  <1>1. /\ SubSeq(stack[a], 0 + 1, Len(stack[a])) = <<>>
        /\ Len(stack[a]) = 0 /\ 0 \in 0..Len(stack[a])
    OBVIOUS
  <1>2. fs \o <<>> = fs
    BY ConcatEmptySeq
  <1>3. fs \o SubSeq(stack[a], 0 + 1, Len(stack[a])) = fs
    BY <1>1, <1>2, Zenon
  <1> QED BY <1>1, <1>3, Zenon DEF Shape

LEMMA OnlyFrame ==
  ASSUME StackOK, NEW a \in Actors, NEW fs \in Seq(Frames), Len(stack[a]) = 1,
         stack' = [stack EXCEPT ![a] = fs]
  PROVE  Shape(a, fs, 1)
  <1>1. SubSeq(stack[a], 1 + 1, Len(stack[a])) = <<>> /\ 1 \in 0..Len(stack[a])
    <2>1. stack[a] \in Seq(Frames)
      BY StackLen
    <2>2. 1 + 1 = 2 /\ 2 > 1
      OBVIOUS
    <2> QED BY <2>1, <2>2, SubSeqEmpty
  <1>2. fs \o <<>> = fs
    BY ConcatEmptySeq
  <1>3. fs \o SubSeq(stack[a], 1 + 1, Len(stack[a])) = fs
    BY <1>1, <1>2, Zenon
  <1> QED BY <1>1, <1>3, Zenon DEF Shape

\* What the innermost frame is, when the actor is in a function
LEMMA Top ==
  ASSUME StackOK, NEW a \in Actors, At(a) # "idle"
  PROVE  /\ stack[a] # <<>> /\ 1 \in DOMAIN stack[a] /\ stack[a][1] \in Frames
         /\ At(a) = stack[a][1].at /\ Arg(a) = stack[a][1].x
  <1>1. stack[a] # <<>> /\ At(a) = Head(stack[a]).at
    BY DEF At
  <1>2. Len(stack[a]) \in Nat /\ Len(stack[a]) # 0
    BY <1>1, StackLen
  <1> QED BY <1>1, <1>2, StackLen DEF Arg

\* An actor that is idle has no frame.
LEMMA IdleStack ==
  ASSUME StackOK, NEW a \in Actors, At(a) = "idle"
  PROVE  stack[a] = <<>>
  <1> SUFFICES ASSUME stack[a] # <<>> PROVE FALSE
    OBVIOUS
  <1>1. Len(stack[a]) \in Nat /\ Len(stack[a]) # 0 /\ Head(stack[a]) = stack[a][1]
    BY StackLen
  <1>2. stack[a][1] \in Frames /\ stack[a][1].at = "idle"
    BY <1>1, StackLen DEF At
  <1> QED BY <1>2 DEF Frames, Sending, Ending

\* What the argument of a frame is
LEMMA FrameArg ==
  ASSUME NEW f \in Frames
  PROVE  /\ f = F(f.at, f.x)
         /\ f.at \in Sending \cup Ending => f.x \in Calls
         /\ f.at \in {"deliver", "queueEvent", "drop"} => f.x \in Messages
         /\ f.at = "drop" => f.x.kind = "resp"
         /\ f.at = "sweep" => f.x \subseteq CallItems
         /\ f.at = "handler" => f.x \in Handlers
         /\ f.at = "switch" => f.x \in {"connect", "disconnect"}
  BY DEF Frames, Sending, Ending, F

\* The frames that the actions make
LEMMA FrameMade ==
  /\ \A at \in Sending \cup Ending, r \in Calls : F(at, r) \in Frames
  /\ \A at \in {"deliver", "queueEvent"}, m \in Messages : F(at, m) \in Frames
  /\ \A m \in Messages : m.kind = "resp" => F("drop", m) \in Frames
  /\ \A I \in SUBSET CallItems : F("sweep", I) \in Frames
  /\ \A h \in Handlers : F("handler", h) \in Frames
  /\ \A op \in {"connect", "disconnect"} : F("switch", op) \in Frames
  /\ \A at \in {"walk", "polling", "exit", "join", "destroy"} : F(at, None) \in Frames
  BY DEF Frames, F

\* The client is told inside the call, or through pending_ev_queue.
LEMMA TellFrame ==
  ASSUME NEW m \in Messages
  PROVE  /\ Tell(m) \in Frames /\ Tell(m).x = m
         /\ Tell(m).at = IF Polling THEN "queueEvent" ELSE "deliver"
  <1>1. Tell(m) = F(IF Polling THEN "queueEvent" ELSE "deliver", m)
    BY DEF Tell
  <1> QED BY <1>1, FrameMade DEF F

LEMMA MessageMade ==
  /\ \A k \in {"resp", "sent"}, v \in Nat \cup {None} : Item(k, v) \in Messages
  /\ \A e \in NetEvents \cup {"PUSH"} : Item("net", e) \in Messages
  /\ \A w \in CallItems : Told(w) \in Messages
  /\ \A w \in CallItems : w.kind = "resp" => w \in Messages /\ Told(w) = w
  BY DEF Messages, CallItems, Item, Told


(***************************************************************************)
(* What each action does to the stack of its actor                         *)
(***************************************************************************)

\* The calls of the application
LEMMA CallMoves ==
  ASSUME TypeOK, NEW a \in Actors
  PROVE  /\ \A r \in Calls : Allocate(a, r) =>
              UNCHANGED stack \/ Shape(a, <<F("send", r)>>, 0)
         /\ Poll(a) => Shape(a, <<F("polling", None)>>, 0)
         /\ \A op \in DOMAIN Switches : Switch(a, op) =>
              /\ stack[a] = <<>>
              /\ Polling => Shape(a, <<F("polling", None), F("switch", op)>>, 0)
              /\ ~Polling => Shape(a, <<F("switch", op)>>, 0)
         /\ Cleanup(a) => stack[a] = <<>> /\ Shape(a, <<F("join", None)>>, 0)
  <1> USE FrameMade DEF TypeOK
  <1>0. StackOK
    BY DEF StackOK
  <1>1. ASSUME NEW r \in Calls, Allocate(a, r)
        PROVE  UNCHANGED stack \/ Shape(a, <<F("send", r)>>, 0)
    <2>1. F("send", r) \in Frames
      BY DEF Sending
    <2>2. UNCHANGED stack \/ Enter(a, F("send", r))
      BY <1>1 DEF Allocate
    <2> QED BY <1>0, <2>1, <2>2, Shapes
  <1>2. ASSUME Poll(a) PROVE Shape(a, <<F("polling", None)>>, 0)
    BY <1>0, <1>2, Shapes DEF Poll
  <1>3. ASSUME NEW op \in DOMAIN Switches, Switch(a, op)
        PROVE  /\ stack[a] = <<>>
               /\ Polling => Shape(a, <<F("polling", None), F("switch", op)>>, 0)
               /\ ~Polling => Shape(a, <<F("switch", op)>>, 0)
    <2>1. stack[a] = <<>>
      BY <1>0, <1>3, IdleStack DEF Switch
    <2>2. F("switch", op) \in Frames /\ F("polling", None) \in Frames
      BY DEF Switches
    <2>3. ASSUME Polling
          PROVE Shape(a, <<F("polling", None), F("switch", op)>>, 0)
      <3>1. stack' = [stack EXCEPT ![a] = <<F("polling", None), F("switch", op)>>]
        BY <1>3, <2>3 DEF Switch
      <3>2. <<F("polling", None), F("switch", op)>> \in Seq(Frames)
        BY <2>2
      <3> QED BY <2>1, <3>1, <3>2, EmptyBelow
    <2>4. ASSUME ~Polling PROVE Shape(a, <<F("switch", op)>>, 0)
      BY <1>0, <1>3, <2>2, <2>4, Shapes DEF Switch
    <2> QED BY <2>1, <2>3, <2>4
  <1>4. ASSUME Cleanup(a)
        PROVE  stack[a] = <<>> /\ Shape(a, <<F("join", None)>>, 0)
    <2>1. stack[a] = <<>>
      BY <1>0, <1>4, IdleStack DEF Cleanup
    <2>2. stack' = [stack EXCEPT ![a] = <<F("join", None)>>]
      BY <1>4 DEF Cleanup, Joining
    <2>3. <<F("join", None)>> \in Seq(Frames)
      OBVIOUS
    <2> QED BY <2>1, <2>2, <2>3, EmptyBelow
  <1> QED BY <1>1, <1>2, <1>3, <1>4


\* A call, or a callback, goes on.
LEMMA StepMoves ==
  ASSUME TypeOK, NEW a \in Actors
  PROVE  /\ SendDummy(a) =>
              LET m == Item(kind[Arg(a)], key[Arg(a)])
              IN  m \in Messages /\ Shape(a, <<Tell(m)>>, 1)
         /\ SendUv(a) => \/ up /\ Shape(a, <<F("enqueue", Arg(a))>>, 1)
                         \/ Shape(a, <<F("undo", Arg(a))>>, 1)
         /\ Enqueue(a) \/ Undo(a) \/ SetIdle(a) \/ QueueEvent(a) \/ Drop(a) \/ Exit(a)
              => Shape(a, <<>>, 1)
         /\ FireEvent(a) => Shape(a, <<F("walk", None)>>, 1)
         /\ SwitchStep(a) =>
              LET s == Switches[Arg(a)]
                  m == Item("net", s.event)
              IN  \/ /\ state \in s.from /\ state' = s.to
                     /\ m \in Messages /\ Shape(a, <<Tell(m)>>, 1)
                  \/ UNCHANGED state /\ Shape(a, <<>>, 1)
         /\ EndCallback(a) =>
              \/ cell[Arg(a)] = None /\ Shape(a, <<>>, 1)
              \/ cell[Arg(a)] # None /\ Shape(a, <<F("setIdle", Arg(a))>>, 1)
         /\ Destroy(a) => \/ UNCHANGED <<stack, handlers>> /\ fault' = "queueAssert"
                          \/ Shape(a, <<>>, 1)
  <1>0. StackOK
    BY DEF StackOK, TypeOK
  <1>a. ASSUME At(a) # "idle", NEW f \in Frames
        PROVE  /\ Goto(a, f) => Shape(a, <<f>>, 1)
               /\ Return(a) => Shape(a, <<>>, 1)
    BY <1>0, <1>a, Top, Shapes
  <1>b. ASSUME Return(a), At(a) # "idle" PROVE Shape(a, <<>>, 1)
    BY <1>a, <1>b, FrameMade
  <1>c. ASSUME At(a) # "idle"
        PROVE  /\ At(a) \in Sending \cup Ending => Arg(a) \in Calls
               /\ At(a) = "switch" => Arg(a) \in {"connect", "disconnect"}
    <2>1. stack[a][1] \in Frames /\ At(a) = stack[a][1].at /\ Arg(a) = stack[a][1].x
      BY <1>0, <1>c, Top
    <2> QED BY <2>1, FrameArg
  <1>1. ASSUME SendDummy(a)
        PROVE  LET m == Item(kind[Arg(a)], key[Arg(a)])
               IN  m \in Messages /\ Shape(a, <<Tell(m)>>, 1)
    <2> DEFINE m == Item(kind[Arg(a)], key[Arg(a)])
    <2>1. At(a) = "send" /\ Goto(a, Tell(m))
      BY <1>1 DEF SendDummy
    <2>2. Arg(a) \in Calls
      BY <1>c, <2>1 DEF Sending
    <2>3. m \in Messages
      <3>1. kind[Arg(a)] \in {"resp", "sent"} /\ key[Arg(a)] \in Nat \cup {None}
        BY <2>2, ClientAssumption DEF TypeOK
      <3> QED BY <3>1, MessageMade
    <2> QED BY <1>a, <2>1, <2>3, TellFrame
  <1>2. ASSUME SendUv(a)
        PROVE  \/ up /\ Shape(a, <<F("enqueue", Arg(a))>>, 1)
               \/ Shape(a, <<F("undo", Arg(a))>>, 1)
    <2>1. /\ At(a) = "send"
          /\ \/ up /\ Goto(a, F("enqueue", Arg(a)))
             \/ Goto(a, F("undo", Arg(a)))
      BY <1>2 DEF SendUv
    <2>2. Arg(a) \in Calls
      BY <1>c, <2>1 DEF Sending
    <2>3. F("enqueue", Arg(a)) \in Frames /\ F("undo", Arg(a)) \in Frames
      BY <2>2, FrameMade DEF Sending
    <2> QED BY <1>a, <2>1, <2>3
  <1>3. ASSUME Enqueue(a) \/ Undo(a) \/ SetIdle(a) \/ QueueEvent(a) \/ Drop(a) \/ Exit(a)
        PROVE  Shape(a, <<>>, 1)
    <2>1. At(a) # "idle" /\ Return(a)
      BY <1>3 DEF Enqueue, Undo, SetIdle, QueueEvent, Drop, Exit
    <2> QED BY <1>b, <2>1
  <1>4. ASSUME FireEvent(a) PROVE Shape(a, <<F("walk", None)>>, 1)
    <2>1. At(a) # "idle" /\ Goto(a, F("walk", None))
      BY <1>4 DEF FireEvent
    <2> QED BY <1>a, <2>1, FrameMade
  <1>5. ASSUME SwitchStep(a)
        PROVE  LET s == Switches[Arg(a)]
                   m == Item("net", s.event)
               IN  \/ /\ state \in s.from /\ state' = s.to
                      /\ m \in Messages /\ Shape(a, <<Tell(m)>>, 1)
                   \/ UNCHANGED state /\ Shape(a, <<>>, 1)
    <2> DEFINE s == Switches[Arg(a)]
               m == Item("net", s.event)
    <2>1. /\ At(a) = "switch"
          /\ IF state \in s.from THEN state' = s.to /\ Goto(a, Tell(m))
                                 ELSE Return(a) /\ UNCHANGED state
      BY <1>5 DEF SwitchStep
    <2>2. Arg(a) \in {"connect", "disconnect"}
      BY <1>c, <2>1
    <2>3. s.event \in NetEvents
      BY <2>2 DEF Switches, NetEvents
    <2>4. m \in Messages
      BY <2>3, MessageMade
    <2> HIDE DEF m, s
    <2>5. \/ /\ state \in s.from /\ state' = s.to
             /\ m \in Messages /\ Shape(a, <<Tell(m)>>, 1)
          \/ UNCHANGED state /\ Shape(a, <<>>, 1)
      BY <1>a, <1>b, <2>1, <2>4, TellFrame
    <2> QED BY <2>5 DEF s, m
  <1>6. ASSUME EndCallback(a)
        PROVE  \/ cell[Arg(a)] = None /\ Shape(a, <<>>, 1)
               \/ cell[Arg(a)] # None /\ Shape(a, <<F("setIdle", Arg(a))>>, 1)
    <2>1. /\ At(a) = "cb"
          /\ IF cell[Arg(a)] = None THEN Return(a) ELSE Goto(a, F("setIdle", Arg(a)))
      BY <1>6 DEF EndCallback
    <2>2. Arg(a) \in Calls
      BY <1>c, <2>1 DEF Ending
    <2>3. F("setIdle", Arg(a)) \in Frames
      BY <2>2, FrameMade DEF Ending
    <2> QED BY <1>a, <2>1, <2>3
  <1>7. ASSUME Destroy(a)
        PROVE  \/ UNCHANGED <<stack, handlers>> /\ fault' = "queueAssert"
               \/ Shape(a, <<>>, 1)
    <2>1. /\ At(a) # "idle"
          /\ \/ UNCHANGED <<stack, handlers>> /\ fault' = "queueAssert"
             \/ Return(a)
      BY <1>7 DEF Destroy, Crash
    <2> QED BY <1>b, <2>1
  <1> QED BY <1>1, <1>2, <1>3, <1>4, <1>5, <1>6, <1>7


\* The client is told of a call: its callback starts, or it is unknown.
LEMMA DeliverMove ==
  ASSUME TypeOK, NEW a \in Actors, Deliver(a)
  PROVE  /\ Arg(a).kind \in {"resp", "sent"}
         /\ \/ Shape(a, <<>>, 1) /\ UNCHANGED <<queue, key, ends>>
               /\ \A r \in queue[Arg(a).kind] : key[r] # Arg(a).val
            \/ \E r \in queue[Arg(a).kind] :
                 /\ r \in Calls /\ key[r] = Arg(a).val
                 /\ Shape(a, <<F("cb", r)>>, 1)
                 /\ queue' = [queue EXCEPT ![Arg(a).kind] = @ \ {r}]
                 /\ key' = [key EXCEPT ![r] = None]
                 /\ ends' = [ends EXCEPT ![r] = @ + 1]
  <1> DEFINE k == Arg(a).kind
             found == {r \in queue[k] : key[r] = Arg(a).val}
  <1>0. StackOK /\ At(a) = "deliver" /\ k # "net"
    BY DEF StackOK, TypeOK, Deliver
  <1>1. stack[a] # <<>> /\ Arg(a) \in Messages
    BY <1>0, Top, FrameArg
  <1>2. k \in {"resp", "sent"}
    BY <1>0, <1>1 DEF Messages
  <1>3. queue[k] \subseteq Calls
    BY <1>2 DEF TypeOK
  <1>4. CASE found = {} /\ Return(a) /\ UNCHANGED <<queue, key, ends>>
    <2>1. Shape(a, <<>>, 1)
      BY <1>0, <1>1, <1>4, Shapes, FrameMade
    <2>2. \A r \in queue[k] : key[r] # Arg(a).val
      BY <1>4
    <2> QED BY <1>2, <1>4, <2>1, <2>2
  <1>5. ASSUME NEW r \in found,
               queue' = Dequeued(k, r), key' = [key EXCEPT ![r] = None],
               ends' = [ends EXCEPT ![r] = @ + 1], Goto(a, F("cb", r))
        PROVE  /\ r \in queue[k] /\ r \in Calls /\ key[r] = Arg(a).val
               /\ Shape(a, <<F("cb", r)>>, 1)
               /\ queue' = [queue EXCEPT ![k] = @ \ {r}]
    <2>1. r \in queue[k] /\ r \in Calls /\ key[r] = Arg(a).val
      BY <1>3
    <2>2. F("cb", r) \in Frames
      BY <2>1, FrameMade DEF Ending
    <2>3. Shape(a, <<F("cb", r)>>, 1)
      BY <1>0, <1>1, <1>5, <2>2, Shapes
    <2> QED BY <1>5, <2>1, <2>3 DEF Dequeued
  <1>6. \/ found = {} /\ Return(a) /\ UNCHANGED <<queue, key, ends>>
        \/ \E r \in found :
             /\ queue' = Dequeued(k, r) /\ key' = [key EXCEPT ![r] = None]
             /\ ends' = [ends EXCEPT ![r] = @ + 1] /\ Goto(a, F("cb", r))
    BY DEF Deliver
  <1> QED BY <1>2, <1>4, <1>5, <1>6

\* The walk over the handlers starts, and goes on.
LEMMA WalkMove ==
  ASSUME TypeOK, NEW a \in Actors
  PROVE  /\ Walk(a) => \/ Shape(a, <<>>, 1)
                       \/ /\ FreeFor(a, "handler")
                          /\ \E h \in Range(handlers) : Shape(a, <<F("handler", h)>>, 1)
         /\ EndHandler(a) =>
              \/ /\ Arg(a) \notin Range(handlers) /\ fault' = "freedHandler"
                 /\ UNCHANGED stack
              \/ /\ UNCHANGED fault
                 /\ \/ Shape(a, <<>>, 1)
                    \/ \E h \in Range(handlers) : Shape(a, <<F("handler", h)>>, 1)
  <1>0. StackOK /\ handlers \in Seq(Handlers)
    BY DEF StackOK, TypeOK
  <1>1. /\ Len(handlers) \in Nat /\ DOMAIN handlers = 1..Len(handlers)
        /\ \A i \in 1..Len(handlers) : handlers[i] \in Handlers
        /\ handlers # <<>> => Head(handlers) = handlers[1] /\ Len(handlers) # 0
    BY <1>0, LenProperties, ElementOfSeq, EmptySeq, HeadTailProperties
  <1>2. \A i \in DOMAIN handlers : handlers[i] \in Range(handlers)
    BY DEF Range
  <1>3. \A h \in Range(handlers) : F("handler", h) \in Frames
    BY <1>1, FrameMade DEF Range
  <1>4. ASSUME Walk(a)
        PROVE  \/ Shape(a, <<>>, 1)
               \/ /\ FreeFor(a, "handler")
                  /\ \E h \in Range(handlers) : Shape(a, <<F("handler", h)>>, 1)
    <2>1. /\ At(a) = "walk" /\ FreeFor(a, "handler")
          /\ IF handlers = <<>> THEN Return(a) ELSE Goto(a, F("handler", Head(handlers)))
      BY <1>4 DEF Walk
    <2>2. handlers # <<>> => Head(handlers) \in Range(handlers)
      BY <1>1, <1>2
    <2>3. stack[a] # <<>>
      BY <1>0, <2>1, Top
    <2> QED BY <1>0, <1>3, <2>1, <2>2, <2>3, Shapes, FrameMade
  <1>5. ASSUME EndHandler(a)
        PROVE  \/ /\ Arg(a) \notin Range(handlers) /\ fault' = "freedHandler"
                  /\ UNCHANGED stack
               \/ /\ UNCHANGED fault
                  /\ \/ Shape(a, <<>>, 1)
                     \/ \E h \in Range(handlers) : Shape(a, <<F("handler", h)>>, 1)
    <2> DEFINE i == CHOOSE j \in DOMAIN handlers : handlers[j] = Arg(a)
    <2>1. /\ At(a) = "handler"
          /\ IF Arg(a) \notin Range(handlers)
               THEN fault' = "freedHandler" /\ UNCHANGED stack
               ELSE /\ IF i = Len(handlers) THEN Return(a)
                       ELSE Goto(a, F("handler", handlers[i + 1]))
                    /\ UNCHANGED fault
      BY <1>5 DEF EndHandler, Crash
    <2>2. stack[a] # <<>>
      BY <1>0, <2>1, Top
    <2>3. Arg(a) \in Range(handlers) => i \in DOMAIN handlers
      BY DEF Range
    <2> HIDE DEF i
    <2>4. ASSUME Arg(a) \in Range(handlers), i # Len(handlers)
          PROVE  handlers[i + 1] \in Range(handlers)
      <3>1. i + 1 \in DOMAIN handlers
        BY <1>1, <2>3, <2>4
      <3> QED BY <1>2, <3>1
    <2> QED BY <1>0, <1>3, <2>1, <2>2, <2>4, Shapes, FrameMade
  <1> QED BY <1>4, <1>5

\* pc_client_poll takes one event, or ends.
LEMMA PollMove ==
  ASSUME TypeOK, NEW a \in Actors, PollStep(a)
  PROVE  \/ pending_ev = <<>> /\ is_in_poll' = FALSE /\ UNCHANGED pending_ev
            /\ Shape(a, <<>>, 1)
         \/ /\ pending_ev # <<>> /\ Head(pending_ev) \in Messages
            /\ pending_ev' = Tail(pending_ev) /\ UNCHANGED is_in_poll
            /\ Shape(a, <<F("deliver", Head(pending_ev))>>, 0)
  <1>0. StackOK /\ At(a) = "polling"
    BY DEF StackOK, TypeOK, PollStep
  <1>1. stack[a] # <<>>
    BY <1>0, Top
  <1>2. pending_ev # <<>> => Head(pending_ev) \in Messages
    BY HeadTailProperties DEF TypeOK
  <1>3. pending_ev # <<>> => F("deliver", Head(pending_ev)) \in Frames
    BY <1>2, FrameMade
  <1> QED BY <1>0, <1>1, <1>2, <1>3, Shapes, FrameMade DEF PollStep

\* The worker tells the client of one more item, or of no more.
LEMMA SweepMove ==
  ASSUME TypeOK, NEW a \in Actors, SweepStep(a)
  PROVE  \/ Shape(a, <<>>, 1) /\ Arg(a) = {}
         \/ \E w \in Arg(a) :
              /\ w \in CallItems /\ Told(w) \in Messages
              /\ Shape(a, <<Tell(Told(w)), F("sweep", Arg(a) \ {w})>>, 1)
  <1>0. StackOK /\ At(a) = "sweep"
    BY DEF StackOK, TypeOK, SweepStep
  <1>1. stack[a] # <<>> /\ Arg(a) \subseteq CallItems
    BY <1>0, Top, FrameArg
  <1>2. CASE Arg(a) = {} /\ Return(a)
    BY <1>0, <1>1, <1>2, Shapes, FrameMade
  <1>3. ASSUME NEW w \in Arg(a),
               stack' = [stack EXCEPT ![a] =
                           <<Tell(Told(w)), F("sweep", Arg(a) \ {w})>> \o Tail(@)]
        PROVE  /\ w \in CallItems /\ Told(w) \in Messages
               /\ Shape(a, <<Tell(Told(w)), F("sweep", Arg(a) \ {w})>>, 1)
    <2>1. w \in CallItems /\ Told(w) \in Messages
      BY <1>1, MessageMade
    <2> DEFINE f == Tell(Told(w))
               g == F("sweep", Arg(a) \ {w})
    <2>2. f \in Frames
      BY <2>1, TellFrame
    <2>3. g \in Frames
      BY <1>1, FrameMade
    <2> HIDE DEF f, g
    <2>4. <<f, g>> \in Seq(Frames)
      BY <2>2, <2>3
    <2>5. /\ SubSeq(stack[a], 1 + 1, Len(stack[a])) = Tail(stack[a])
          /\ 1 \in 0..Len(stack[a])
      <3>1. stack[a] \in Seq(Frames) /\ Len(stack[a]) \in Nat /\ Len(stack[a]) # 0
        BY <1>0, <1>1, StackLen
      <3> QED BY <1>1, <3>1, TailIsSubSeq
    <2>6. Shape(a, <<f, g>>, 1)
      <3>1. stack' = [stack EXCEPT ![a] = <<f, g>> \o Tail(stack[a])]
        BY <1>3 DEF f, g
      <3> QED BY <2>4, <2>5, <3>1 DEF Shape
    <2> QED BY <2>1, <2>6 DEF f, g
  <1> QED BY <1>2, <1>3 DEF SweepStep


\* The worker
LEMMA WorkerMoves ==
  ASSUME TypeOK
  PROVE  /\ WorkerIdle => stack[Worker] = <<>> /\ Worker \in Actors
         /\ \A w \in wis : Response(w) =>
              /\ w \in CallItems /\ w \in Messages /\ w.kind = "resp"
              /\ Shape(Worker, <<Tell(w), F("drop", w)>>, 0)
         /\ \A I \in SUBSET wis, reset \in BOOLEAN : Sweep(I, reset) =>
              Shape(Worker, <<F("sweep", I)>>, 0)
         /\ Push => LET m == Item("net", "PUSH")
                    IN  m \in Messages /\ Shape(Worker, <<Tell(m)>>, 0)
         /\ CleanupAsync => Shape(Worker, <<F("sweep", wis), F("exit", None)>>, 0)
  <1>0. StackOK /\ Worker \in Actors /\ wis \subseteq CallItems
    BY DEF StackOK, TypeOK, Actors
  <1>1. WorkerIdle => stack[Worker] = <<>>
    BY <1>0, IdleStack DEF WorkerIdle
  <1>2. ASSUME NEW w \in wis, Response(w)
        PROVE  /\ w \in CallItems /\ w \in Messages /\ w.kind = "resp"
               /\ Shape(Worker, <<Tell(w), F("drop", w)>>, 0)
    <2>1. w \in CallItems /\ w.kind = "resp"
      BY <1>0, <1>2 DEF Response
    <2>2. w \in Messages
      BY <2>1, MessageMade
    <2>3. Tell(w) \in Frames /\ F("drop", w) \in Frames
      BY <2>1, <2>2, TellFrame, FrameMade
    <2>4. <<Tell(w), F("drop", w)>> \in Seq(Frames)
      BY <2>3
    <2>5. /\ WorkerIdle
          /\ stack' = [stack EXCEPT ![Worker] = <<Tell(w), F("drop", w)>>]
      BY <1>2 DEF Response
    <2> QED BY <1>0, <1>1, <2>1, <2>2, <2>4, <2>5, EmptyBelow
  <1>3. ASSUME NEW I \in SUBSET wis, NEW reset \in BOOLEAN, Sweep(I, reset)
        PROVE  Shape(Worker, <<F("sweep", I)>>, 0)
    <2>1. F("sweep", I) \in Frames
      BY <1>0, FrameMade
    <2> QED BY <1>0, <1>3, <2>1, Shapes DEF Sweep
  <1>4. ASSUME Push
        PROVE  LET m == Item("net", "PUSH")
               IN  m \in Messages /\ Shape(Worker, <<Tell(m)>>, 0)
    <2> DEFINE m == Item("net", "PUSH")
    <2>1. m \in Messages
      BY MessageMade
    <2>2. Tell(m) \in Frames
      BY <2>1, TellFrame
    <2> QED BY <1>0, <1>4, <2>1, <2>2, Shapes DEF Push
  <1>5. ASSUME CleanupAsync
        PROVE  Shape(Worker, <<F("sweep", wis), F("exit", None)>>, 0)
    <2>1. F("sweep", wis) \in Frames /\ F("exit", None) \in Frames
      BY <1>0, FrameMade
    <2> DEFINE f == F("sweep", wis)
               g == F("exit", None)
    <2>2. stack' = [stack EXCEPT ![Worker] = <<f>> \o <<g>>] /\ WorkerIdle
      BY <1>5 DEF CleanupAsync, HandlesClosed
    <2> HIDE DEF f, g
    <2>a. f \in Frames /\ g \in Frames
      BY <2>1 DEF f, g
    <2>3. <<f>> \o <<g>> = <<f, g>> /\ <<f, g>> \in Seq(Frames)
      BY <2>a, PairOfFrames
    <2>4. Shape(Worker, <<f, g>>, 0)
      BY <1>0, <1>1, <2>2, <2>3, EmptyBelow
    <2> QED BY <2>4 DEF f, g
  <1> QED BY <1>0, <1>1, <1>2, <1>3, <1>4, <1>5

(***************************************************************************)
(* Types                                                                   *)
(***************************************************************************)

\* What a step may not change, or keeps in its type, whatever the action
MemOK ==
  /\ slot \in [Cells -> [busy : BOOLEAN, who : Calls \cup {None}]]
  /\ cell \in [Calls -> Cells \cup {None}]
  /\ \A r \in Calls : cell[r] # None => cell[r][1] = kind[r]
  /\ queue \in [{"resp", "sent"} -> SUBSET Calls]
  /\ key \in [Calls -> Nat \cup {None}]
  /\ req_id_seq \in 0..(2^IdBits - 1) /\ seq_num \in Nat

EvOK ==
  /\ pending_ev \in Seq(Messages) /\ is_in_poll \in BOOLEAN
  /\ handlers \in Seq(Handlers)

TrOK ==
  /\ up \in BOOLEAN /\ closing \in BOOLEAN /\ ended \in BOOLEAN
  /\ wis \subseteq CallItems

EndOK == ends \in [Calls -> Nat] /\ fault \in Faults \cup {None}

SetupOK == mode \in Modes /\ kind \in Kinds /\ state \in ClientStates

LEMMA TypeParts ==
  /\ TypeOK <=> SetupOK /\ StackOK /\ MemOK /\ EvOK /\ TrOK /\ EndOK
  /\ TypeOK' <=> SetupOK' /\ StackOK' /\ MemOK' /\ EvOK' /\ TrOK' /\ EndOK'
  BY DEF TypeOK, SetupOK, StackOK, MemOK, EvOK, TrOK, EndOK

LEMMA TypeInit == Init => TypeOK
  <1> SUFFICES ASSUME Init PROVE TypeOK
    OBVIOUS
  <1>1. SetupOK /\ EvOK /\ TrOK /\ EndOK
    <2>1. <<>> \in Seq(Messages) /\ <<>> \in Seq(Handlers)
      OBVIOUS
    <2> QED BY <2>1 DEF Init, SetupOK, EvOK, TrOK, EndOK, ClientStates
  <1>2. StackOK
    BY DEF Init, StackOK
  <1>3. MemOK
    BY ClientAssumption DEF Init, MemOK
  <1> QED BY <1>1, <1>2, <1>3, TypeParts

\* A step keeps the parts that it does not write.
LEMMA TypeKept ==
  /\ SetupOK /\ UNCHANGED <<setup, state>> => SetupOK'
  /\ MemOK /\ UNCHANGED <<setup, memVars>> => MemOK'
  /\ EvOK /\ UNCHANGED <<evVars, handlers>> => EvOK'
  /\ TrOK /\ UNCHANGED trVars => TrOK'
  /\ EndOK /\ UNCHANGED <<ends, fault>> => EndOK'
  BY DEF SetupOK, MemOK, EvOK, TrOK, EndOK, setup, memVars, evVars, trVars


\* The slot that Allocate picks is an idle one of its kind.
LEMMA FirstIdleSlot ==
  ASSUME TypeOK, NEW k \in {"resp", "sent"}
  PROVE  \/ FirstIdle(k) = None
         \/ /\ FirstIdle(k) \in Cells /\ FirstIdle(k) # None
            /\ FirstIdle(k)[1] = k /\ ~slot[FirstIdle(k)].busy
  <1>1. CASE IdleSlots(k) = {}
    BY <1>1 DEF FirstIdle
  <1>2. CASE IdleSlots(k) # {}
    <2> DEFINE i == CHOOSE j \in IdleSlots(k) : TRUE
    <2>1. i \in IdleSlots(k)
      BY <1>2
    <2>2. FirstIdle(k) = <<k, i>>
      BY <1>2 DEF FirstIdle
    <2> HIDE DEF i
    <2>3. i \in 1..Slots /\ ~slot[<<k, i>>].busy
      BY <2>1 DEF IdleSlots
    <2>4. <<k, i>> \in Cells
      BY <2>3 DEF Cells
    <2> QED BY <2>2, <2>3, <2>4, ClientAssumption
  <1> QED BY <1>1, <1>2

\* The id that is handed out, and the one after it
LEMMA NextIdType ==
  ASSUME TypeOK
  PROVE  /\ NextId \in Nat
         /\ (NextId + 1) % 2^IdBits \in 0..(2^IdBits - 1)
  <1> DEFINE M == 2^IdBits
  <1>1. M \in Int
    BY ClientAssumption
  <1>2. req_id_seq \in 0..(M - 1)
    BY DEF TypeOK
  <1>3. NextId = 1 \/ NextId = req_id_seq
    BY DEF NextId
  <1> HIDE DEF M
  <1>4. NextId \in Nat /\ M \in Nat /\ M > 0
    BY <1>1, <1>2, <1>3
  <1>5. (NextId + 1) % M \in 0..(M - 1)
    BY <1>4
  <1> QED BY <1>4, <1>5 DEF M

\* Removing one handler leaves the others.
LEMMA HandlerRemoved ==
  ASSUME EvOK, NEW i \in DOMAIN handlers, handlers' = RemoveAt(handlers, i)
  PROVE  /\ handlers' \in Seq(Handlers)
         /\ \A h \in Range(handlers) \ {handlers[i]} : h \in Range(handlers')
  <1> DEFINE l == SubSeq(handlers, 1, i - 1)
             r == SubSeq(handlers, i + 1, Len(handlers))
  <1>1. /\ handlers \in Seq(Handlers) /\ Len(handlers) \in Nat
        /\ DOMAIN handlers = 1..Len(handlers) /\ i \in 1..Len(handlers)
    BY LenProperties DEF EvOK
  <1>2. /\ l \in Seq(Handlers) /\ Len(l) = i - 1
        /\ \A j \in 1..(i - 1) : l[j] = handlers[j]
    <2>1. 1 \in Int /\ i - 1 \in Int /\ 1 <= (i - 1) + 1
          /\ \A j \in 1..(i - 1) : j \in 1..Len(handlers)
      BY <1>1
    <2> QED BY <1>1, <2>1, SubSeqProperties
  <1>3. /\ r \in Seq(Handlers) /\ Len(r) = Len(handlers) - i
        /\ \A j \in 1..(Len(handlers) - i) : r[j] = handlers[i + j]
    <2>1. i + 1 \in Int /\ Len(handlers) \in Int /\ i + 1 <= Len(handlers) + 1
          /\ \A j \in (i + 1)..Len(handlers) : j \in 1..Len(handlers)
      BY <1>1
    <2> QED BY <1>1, <2>1, SubSeqProperties
  <1>4. handlers' = l \o r
    BY DEF RemoveAt
  <1> HIDE DEF l, r
  <1>5. /\ l \o r \in Seq(Handlers) /\ Len(l \o r) = Len(l) + Len(r)
        /\ \A j \in 1..(Len(l) + Len(r)) :
             (l \o r)[j] = IF j <= Len(l) THEN l[j] ELSE r[j - Len(l)]
    BY <1>2, <1>3, ConcatProperties
  <1>6. DOMAIN handlers' = 1..(Len(handlers) - 1)
    <2>1. Len(l \o r) = Len(handlers) - 1
      BY <1>1, <1>2, <1>3, <1>5
    <2>2. DOMAIN (l \o r) = 1..Len(l \o r)
      BY <1>5, LenProperties
    <2> QED BY <1>4, <2>1, <2>2
  <1>7. ASSUME NEW j \in 1..Len(handlers), j # i
        PROVE  \E n \in DOMAIN handlers' : handlers'[n] = handlers[j]
    <2>1. CASE j < i
      <3>1. j \in 1..(i - 1) /\ j \in 1..(Len(l) + Len(r)) /\ j <= Len(l)
        BY <1>1, <1>2, <1>3, <2>1
      <3>2. handlers'[j] = handlers[j]
        BY <1>2, <1>4, <1>5, <3>1
      <3> QED BY <1>1, <1>6, <2>1, <3>2
    <2>2. CASE j > i
      <3>1. /\ j - 1 \in 1..(Len(l) + Len(r)) /\ ~(j - 1 <= Len(l))
            /\ (j - 1) - Len(l) = j - i /\ j - i \in 1..(Len(handlers) - i)
            /\ i + (j - i) = j
        BY <1>1, <1>2, <1>3, <2>2
      <3>2. handlers'[j - 1] = r[j - i]
        BY <1>4, <1>5, <3>1
      <3>3. r[j - i] = handlers[j]
        BY <1>3, <3>1
      <3>4. j - 1 \in DOMAIN handlers'
        BY <1>1, <1>6, <2>2
      <3> QED BY <3>2, <3>3, <3>4
    <2> QED BY <1>1, <1>7, <2>1, <2>2
  <1>8. \A h \in Range(handlers) \ {handlers[i]} : h \in Range(handlers')
    <2> SUFFICES ASSUME NEW h \in Range(handlers) \ {handlers[i]}
                 PROVE  \E n \in DOMAIN handlers' : handlers'[n] = h
      BY DEF Range
    <2>1. PICK j \in DOMAIN handlers : handlers[j] = h
      BY DEF Range
    <2> QED BY <1>1, <1>7, <2>1
  <1> QED BY <1>4, <1>5, <1>8


\* A step of a call or a callback keeps the types.
LEMMA TypeStepCall ==
  ASSUME TypeOK, NEW a \in Actors, Step(a)
  PROVE  TypeOK'
  <1>0. SetupOK /\ StackOK /\ MemOK /\ EvOK /\ TrOK /\ EndOK
    BY TypeParts
  <1>a. ASSUME NEW fs, NEW n, Shape(a, fs, n) PROVE StackOK'
    BY <1>0, <1>a, ShapeFacts
  <1>b. ASSUME At(a) # "idle"
        PROVE  /\ At(a) \in Sending \cup Ending => Arg(a) \in Calls
               /\ At(a) \in {"deliver", "queueEvent", "drop"} => Arg(a) \in Messages
               /\ At(a) = "drop" => Arg(a).kind = "resp"
    <2>1. stack[a][1] \in Frames /\ At(a) = stack[a][1].at /\ Arg(a) = stack[a][1].x
      BY <1>0, <1>b, Top
    <2> QED BY <2>1, FrameArg
  <1>c. \A r \in Calls : kind[r] \in {"resp", "sent"}
    BY ClientAssumption DEF TypeOK
  <1>d. \A s \in Cells : s # None
    BY ClientAssumption
  <1>1. CASE SendDummy(a) \/ SendUv(a) \/ Walk(a) \/ SweepStep(a)
    <2>1. StackOK'
      BY <1>a, <1>1, StepMoves, WalkMove, SweepMove
    <2>2. UNCHANGED <<setup, state, memVars, evVars, handlers, trVars, ends, fault>>
      BY <1>1 DEF SendDummy, SendUv, Walk, SweepStep
    <2> QED BY <1>0, <2>1, <2>2, TypeKept, TypeParts
  <1>2. CASE Enqueue(a)
    <2>1. StackOK' /\ Arg(a) \in Calls
      BY <1>a, <1>b, <1>2, StepMoves DEF Enqueue, Sending
    <2>2. /\ UNCHANGED <<setup, state, memVars, evVars, handlers, up, closing, ended,
                         ends, fault>>
          /\ wis' = wis \cup {Item(kind[Arg(a)], key[Arg(a)])}
      BY <1>2 DEF Enqueue
    <2>3. key[Arg(a)] \in Nat \cup {None}
      BY <1>0, <2>1 DEF MemOK
    <2>4. Item(kind[Arg(a)], key[Arg(a)]) \in CallItems
      BY <1>c, <2>1, <2>3 DEF Item, CallItems
    <2>5. TrOK'
      BY <1>0, <2>2, <2>4 DEF TrOK
    <2> QED BY <1>0, <2>1, <2>2, <2>5, TypeKept, TypeParts
  <1>3. CASE Undo(a)
    <2>1. StackOK' /\ Arg(a) \in Calls
      BY <1>a, <1>b, <1>3, StepMoves DEF Undo, Sending
    <2>2. /\ UNCHANGED <<setup, state, evVars, handlers, trVars, fault>>
          /\ UNCHANGED <<req_id_seq, seq_num>>
          /\ queue' = [queue EXCEPT ![kind[Arg(a)]] = @ \ {Arg(a)}]
          /\ slot' = IF cell[Arg(a)] = None THEN slot
                     ELSE [slot EXCEPT ![cell[Arg(a)]] = [busy |-> FALSE, who |-> None]]
          /\ cell' = [cell EXCEPT ![Arg(a)] = None]
          /\ key' = [key EXCEPT ![Arg(a)] = None]
          /\ ends' = [ends EXCEPT ![Arg(a)] = @ + 1]
      BY <1>3 DEF Undo
    <2>3. MemOK'
      BY <1>0, <1>c, <2>1, <2>2 DEF MemOK, setup
    <2>4. EndOK'
      BY <1>0, <2>1, <2>2 DEF EndOK
    <2> QED BY <1>0, <2>1, <2>2, <2>3, <2>4, TypeKept, TypeParts
  <1>4. CASE Deliver(a)
    <2>1. UNCHANGED <<setup, state, slot, cell, req_id_seq, seq_num, evVars, handlers,
                      trVars, fault>>
      BY <1>4 DEF Deliver
    <2>2. CASE Shape(a, <<>>, 1) /\ UNCHANGED <<queue, key, ends>>
      <3>1. StackOK' /\ UNCHANGED <<memVars, ends, fault>>
        BY <1>a, <2>1, <2>2 DEF memVars
      <3> QED BY <1>0, <2>1, <3>1, TypeKept, TypeParts
    <2>3. ASSUME NEW r \in queue[Arg(a).kind], r \in Calls, Shape(a, <<F("cb", r)>>, 1),
                 queue' = [queue EXCEPT ![Arg(a).kind] = @ \ {r}],
                 key' = [key EXCEPT ![r] = None], ends' = [ends EXCEPT ![r] = @ + 1]
          PROVE  TypeOK'
      <3>1. StackOK'
        BY <1>a, <2>3
      <3>2. MemOK'
        BY <1>0, <2>1, <2>3 DEF MemOK, setup
      <3>3. EndOK'
        BY <1>0, <2>1, <2>3 DEF EndOK
      <3> QED BY <1>0, <2>1, <3>1, <3>2, <3>3, TypeKept, TypeParts
    <2> QED BY <1>4, <2>2, <2>3, DeliverMove
  <1>5. CASE EndCallback(a)
    <2>1. StackOK' /\ Arg(a) \in Calls
      BY <1>a, <1>b, <1>5, StepMoves DEF EndCallback, Ending
    <2>2. /\ UNCHANGED <<setup, state, cell, queue, key, req_id_seq, seq_num, evVars,
                         handlers, trVars, ends, fault>>
          /\ slot' = IF cell[Arg(a)] = None THEN slot
                     ELSE [slot EXCEPT ![cell[Arg(a)]].who = None]
      BY <1>5 DEF EndCallback, AfterCallback
    <2>3. MemOK'
      BY <1>0, <2>1, <2>2 DEF MemOK, setup
    <2> QED BY <1>0, <2>1, <2>2, <2>3, TypeKept, TypeParts
  <1>6. CASE SetIdle(a)
    <2>1. StackOK' /\ Arg(a) \in Calls
      BY <1>a, <1>b, <1>6, StepMoves DEF SetIdle, Ending
    <2>2. /\ UNCHANGED <<setup, state, queue, key, req_id_seq, seq_num, evVars,
                         handlers, trVars, ends, fault>>
          /\ slot' = [slot EXCEPT ![cell[Arg(a)]] = [busy |-> FALSE, who |-> None]]
          /\ cell' = [cell EXCEPT ![Arg(a)] = None]
      BY <1>6 DEF SetIdle
    <2>3. MemOK'
      BY <1>0, <2>1, <2>2 DEF MemOK, setup
    <2> QED BY <1>0, <2>1, <2>2, <2>3, TypeKept, TypeParts
  <1>7. CASE QueueEvent(a)
    <2>1. StackOK' /\ Arg(a) \in Messages
      BY <1>a, <1>b, <1>7, StepMoves DEF QueueEvent
    <2>2. /\ UNCHANGED <<setup, state, memVars, is_in_poll, handlers, trVars, ends, fault>>
          /\ pending_ev' = Append(pending_ev, Arg(a))
      BY <1>7 DEF QueueEvent
    <2>3. EvOK'
      BY <1>0, <2>1, <2>2, AppendProperties DEF EvOK
    <2> QED BY <1>0, <2>1, <2>2, <2>3, TypeKept, TypeParts
  <1>8. CASE FireEvent(a)
    <2>1. StackOK' /\ Arg(a) \in Messages /\ Arg(a).kind = "net"
      BY <1>a, <1>b, <1>8, StepMoves DEF FireEvent
    <2>2. Arg(a).val \in NetEvents \cup {"PUSH"}
      BY <2>1 DEF Messages
    <2>3. UNCHANGED <<setup, memVars, evVars, handlers, trVars, ends>>
      BY <1>8 DEF FireEvent
    <2>4. state' \in ClientStates /\ fault' \in Faults \cup {None}
      <3>1. \/ UNCHANGED <<state, fault>>
            \/ state' = AfterEvent(Arg(a).val, state) /\ UNCHANGED fault
            \/ fault' = Arg(a).val /\ Arg(a).val # "PUSH" /\ UNCHANGED state
        BY <1>8 DEF FireEvent, Crash
      <3>2. AfterEvent(Arg(a).val, state) \in ClientStates
        BY <1>0 DEF SetupOK, AfterEvent, ClientStates
      <3> QED BY <1>0, <2>2, <3>1, <3>2 DEF SetupOK, EndOK, Faults
    <2>5. SetupOK' /\ EndOK'
      BY <1>0, <2>3, <2>4 DEF SetupOK, EndOK, setup
    <2> QED BY <1>0, <2>1, <2>3, <2>5, TypeKept, TypeParts
  <1>9. CASE EndHandler(a)
    <2>0. \/ UNCHANGED stack /\ fault' = "freedHandler"
          \/ UNCHANGED fault /\ StackOK'
      BY <1>a, <1>9, WalkMove
    <2>1. /\ UNCHANGED <<setup, state, memVars, evVars, handlers, trVars, ends>>
          /\ StackOK' /\ fault' \in Faults \cup {None}
      BY <1>0, <1>9, <2>0 DEF EndHandler, StackOK, EndOK, Faults
    <2>2. EndOK'
      BY <1>0, <2>1 DEF EndOK
    <2> QED BY <1>0, <2>1, <2>2, TypeKept, TypeParts
  <1>10. CASE PollStep(a)
    <2>1. UNCHANGED <<setup, state, memVars, handlers, trVars, ends, fault>>
      BY <1>10 DEF PollStep
    <2>2. /\ StackOK' /\ is_in_poll' \in BOOLEAN
          /\ pending_ev' = pending_ev \/ (pending_ev # <<>> /\ pending_ev' = Tail(pending_ev))
      BY <1>0, <1>a, <1>10, PollMove DEF EvOK
    <2>3. pending_ev' \in Seq(Messages)
      BY <1>0, <2>2, HeadTailProperties DEF EvOK
    <2>4. EvOK'
      BY <1>0, <2>1, <2>2, <2>3 DEF EvOK
    <2> QED BY <1>0, <2>1, <2>2, <2>4, TypeKept, TypeParts
  <1>11. CASE SwitchStep(a)
    <2>1. UNCHANGED <<setup, memVars, evVars, handlers, trVars, ends, fault>>
      BY <1>11 DEF SwitchStep
    <2>2. StackOK' /\ (UNCHANGED state \/ state' = Switches[Arg(a)].to)
      BY <1>a, <1>11, StepMoves
    <2>3. Arg(a) \in {"connect", "disconnect"}
      <3>1. At(a) = "switch"
        BY <1>11 DEF SwitchStep
      <3> QED BY <1>0, <3>1, Top, FrameArg
    <2>4. state' \in ClientStates
      BY <1>0, <2>2, <2>3 DEF SetupOK, ClientStates, Switches
    <2>5. SetupOK'
      BY <1>0, <2>1, <2>4 DEF SetupOK, setup
    <2> QED BY <1>0, <2>1, <2>2, <2>5, TypeKept, TypeParts
  <1>12. CASE Drop(a)
    <2>1. StackOK' /\ Arg(a) \in Messages /\ Arg(a).kind = "resp"
      BY <1>a, <1>b, <1>12, StepMoves DEF Drop
    <2>2. /\ UNCHANGED <<setup, state, memVars, evVars, handlers, up, closing, ended,
                         ends, fault>>
          /\ wis' \subseteq wis \cup {Item("answered", Arg(a).val)}
      BY <1>12 DEF Drop
    <2>3. Item("answered", Arg(a).val) \in CallItems
      BY <2>1 DEF Messages, CallItems, Item
    <2>4. TrOK'
      BY <1>0, <2>2, <2>3 DEF TrOK
    <2> QED BY <1>0, <2>1, <2>2, <2>4, TypeKept, TypeParts
  <1>13. CASE Exit(a)
    <2>1. /\ UNCHANGED <<setup, state, memVars, evVars, handlers, up, wis, closing,
                         ends, fault>>
          /\ ended' = TRUE
      BY <1>13 DEF Exit
    <2>2. StackOK'
      BY <1>a, <1>13, StepMoves
    <2>3. TrOK'
      BY <1>0, <2>1 DEF TrOK
    <2> QED BY <1>0, <2>1, <2>2, <2>3, TypeKept, TypeParts
  <1>14. CASE Join(a)
    <2>1. /\ UNCHANGED <<setup, state, memVars, pending_ev, handlers, trVars, ends, fault>>
          /\ is_in_poll' \in BOOLEAN
          /\ stack' = [stack EXCEPT ![a] = LastPoll \o <<F("destroy", None)>>]
      BY <1>14 DEF Join
    <2>2. LastPoll \o <<F("destroy", None)>> \in Seq(Frames)
      <3>1. F("polling", None) \in Frames /\ F("destroy", None) \in Frames
        BY FrameMade
      <3>2. <<F("polling", None)>> \in Seq(Frames) /\ <<F("destroy", None)>> \in Seq(Frames)
            /\ <<>> \in Seq(Frames)
        BY <3>1
      <3>3. LastPoll = <<F("polling", None)>> \/ LastPoll = <<>>
        BY DEF LastPoll
      <3> QED BY <3>2, <3>3, ConcatProperties
    <2>3. StackOK' /\ EvOK'
      BY <1>0, <2>1, <2>2 DEF StackOK, EvOK
    <2> QED BY <1>0, <2>1, <2>3, TypeKept, TypeParts
  <1>15. CASE Destroy(a)
    <2>1. UNCHANGED <<setup, memVars, evVars, trVars, ends>>
      BY <1>15 DEF Destroy
    <2>2. /\ state' \in ClientStates
          /\ handlers' = handlers \/ handlers' = <<>>
          /\ fault' \in Faults \cup {None}
      BY <1>0, <1>15 DEF Destroy, Crash, SetupOK, EndOK, ClientStates, Faults
    <2>3. SetupOK' /\ EndOK' /\ EvOK'
      <3>1. <<>> \in Seq(Handlers)
        OBVIOUS
      <3> QED BY <1>0, <2>1, <2>2, <3>1 DEF SetupOK, EndOK, EvOK, setup, evVars
    <2>4. StackOK'
      BY <1>0, <1>a, <1>15, StepMoves DEF StackOK
    <2> QED BY <1>0, <2>1, <2>3, <2>4, TypeKept, TypeParts
  <1> QED
    BY <1>1, <1>2, <1>3, <1>4, <1>5, <1>6, <1>7, <1>8, <1>9, <1>10, <1>11, <1>12,
       <1>13, <1>14, <1>15 DEF Step


\* A call of the application keeps the types.
LEMMA TypeStepApi ==
  ASSUME TypeOK, NEW a \in Actors, ApiCall(a)
  PROVE  TypeOK'
  <1>0. SetupOK /\ StackOK /\ MemOK /\ EvOK /\ TrOK /\ EndOK
    BY TypeParts
  <1>a. ASSUME NEW fs, NEW n, Shape(a, fs, n) PROVE StackOK'
    BY <1>0, <1>a, ShapeFacts
  <1>1. ASSUME NEW r \in Calls, Allocate(a, r) PROVE TypeOK'
    <2> DEFINE k == kind[r]
               s == FirstIdle(k)
    <2>1. UNCHANGED <<setup, state, evVars, handlers, trVars, ends>>
      BY <1>1 DEF Allocate
    <2>2. StackOK'
      BY <1>0, <1>a, <1>1, CallMoves DEF StackOK
    <2>3. k \in {"resp", "sent"}
      BY <1>0, ClientAssumption DEF SetupOK
    <2>4. s = None \/ (s \in Cells /\ s # None /\ s[1] = k)
      BY <2>3, FirstIdleSlot
    <2> HIDE DEF s, k
    <2>5. \/ UNCHANGED memVars /\ fault' = "slotAssert"
          \/ /\ slot' = IF s = None THEN slot
                        ELSE [slot EXCEPT ![s] = [busy |-> TRUE, who |-> r]]
             /\ cell' = [cell EXCEPT ![r] = s]
             /\ queue' = [queue EXCEPT ![k] = @ \cup {r}]
             /\ key' = [key EXCEPT ![r] = IF k = "resp" THEN NextId ELSE seq_num]
             /\ seq_num' = seq_num + 1
             /\ req_id_seq' = IF k = "resp" THEN (NextId + 1) % 2^IdBits ELSE req_id_seq
             /\ UNCHANGED fault
      BY <1>1 DEF Allocate, Crash, s, k
    <2>6. EndOK'
      BY <1>0, <2>1, <2>5 DEF EndOK, Faults
    <2>7. MemOK'
      <3>1. CASE UNCHANGED memVars
        BY <1>0, <2>1, <3>1, TypeKept
      <3>2. CASE /\ slot' = IF s = None THEN slot
                            ELSE [slot EXCEPT ![s] = [busy |-> TRUE, who |-> r]]
                 /\ cell' = [cell EXCEPT ![r] = s]
                 /\ queue' = [queue EXCEPT ![k] = @ \cup {r}]
                 /\ key' = [key EXCEPT ![r] = IF k = "resp" THEN NextId ELSE seq_num]
                 /\ seq_num' = seq_num + 1
                 /\ req_id_seq' = IF k = "resp" THEN (NextId + 1) % 2^IdBits
                                                ELSE req_id_seq
        <4>1. slot' \in [Cells -> [busy : BOOLEAN, who : Calls \cup {None}]]
          BY <1>0, <2>4, <3>2 DEF MemOK
        <4>2. /\ cell' \in [Calls -> Cells \cup {None}]
              /\ \A q \in Calls : cell'[q] # None => cell'[q][1] = kind'[q]
          BY <1>0, <2>1, <2>4, <3>2 DEF MemOK, setup, k
        <4>3. queue' \in [{"resp", "sent"} -> SUBSET Calls]
          BY <1>0, <2>3, <3>2 DEF MemOK
        <4>4. /\ key' \in [Calls -> Nat \cup {None}]
              /\ req_id_seq' \in 0..(2^IdBits - 1) /\ seq_num' \in Nat
          BY <1>0, <3>2, NextIdType DEF MemOK
        <4> QED BY <4>1, <4>2, <4>3, <4>4 DEF MemOK
      <3> QED BY <2>5, <3>1, <3>2
    <2> QED BY <1>0, <2>1, <2>2, <2>6, <2>7, TypeKept, TypeParts
  <1>2. ASSUME NEW h \in Handlers, AddHandler(a, h) PROVE TypeOK'
    <2>1. /\ UNCHANGED <<setup, state, stack, memVars, evVars, trVars, ends, fault>>
          /\ handlers' = Append(handlers, h)
      BY <1>2 DEF AddHandler
    <2>2. StackOK' /\ EvOK'
      BY <1>0, <2>1, AppendProperties DEF StackOK, EvOK, evVars
    <2> QED BY <1>0, <2>1, <2>2, TypeKept, TypeParts
  <1>3. ASSUME NEW h \in Handlers, RemoveHandler(a, h) PROVE TypeOK'
    <2>1. /\ UNCHANGED <<setup, state, stack, memVars, evVars, trVars, ends, fault>>
          /\ \E i \in DOMAIN handlers : handlers' = RemoveAt(handlers, i)
      BY <1>3 DEF RemoveHandler
    <2>2. handlers' \in Seq(Handlers)
      BY <1>0, <2>1, HandlerRemoved
    <2>3. StackOK' /\ EvOK'
      BY <1>0, <2>1, <2>2 DEF StackOK, EvOK, evVars
    <2> QED BY <1>0, <2>1, <2>3, TypeKept, TypeParts
  <1>4. ASSUME NEW op \in DOMAIN Switches, Switch(a, op) PROVE TypeOK'
    <2>1. /\ UNCHANGED <<setup, state, memVars, pending_ev, handlers, trVars, ends, fault>>
          /\ is_in_poll' = TRUE \/ UNCHANGED is_in_poll
      BY <1>4 DEF Switch
    <2>2. StackOK' /\ EvOK'
      BY <1>0, <1>a, <1>4, <2>1, CallMoves DEF EvOK
    <2> QED BY <1>0, <2>1, <2>2, TypeKept, TypeParts
  <1>5. ASSUME Poll(a) PROVE TypeOK'
    <2>1. /\ UNCHANGED <<setup, state, memVars, pending_ev, handlers, trVars, ends, fault>>
          /\ is_in_poll' = TRUE
      BY <1>5 DEF Poll
    <2>2. StackOK' /\ EvOK'
      BY <1>0, <1>a, <1>5, <2>1, CallMoves DEF EvOK
    <2> QED BY <1>0, <2>1, <2>2, TypeKept, TypeParts
  <1>6. ASSUME Cleanup(a) PROVE TypeOK'
    <2>1. /\ UNCHANGED <<setup, state, memVars, evVars, handlers, up, wis, ended, ends, fault>>
          /\ closing' = TRUE
      BY <1>6 DEF Cleanup
    <2>2. StackOK' /\ TrOK'
      BY <1>0, <1>a, <1>6, <2>1, CallMoves DEF TrOK
    <2> QED BY <1>0, <2>1, <2>2, TypeKept, TypeParts
  <1> QED BY <1>1, <1>2, <1>3, <1>4, <1>5, <1>6 DEF ApiCall

\* A step of the worker's loop keeps the types.
LEMMA TypeStepWorker ==
  ASSUME TypeOK,
         \/ \E w \in wis : Response(w)
         \/ \E I \in SUBSET wis, reset \in BOOLEAN : Sweep(I, reset)
         \/ Push \/ Reconnected \/ CleanupAsync
  PROVE  TypeOK'
  <1>0. SetupOK /\ StackOK /\ MemOK /\ EvOK /\ TrOK /\ EndOK
    BY TypeParts
  <1>a. ASSUME NEW fs, NEW n, Shape(Worker, fs, n) PROVE StackOK'
    <2>1. Worker \in Actors
      BY DEF Actors
    <2> QED BY <1>0, <1>a, <2>1, ShapeFacts
  <1>1. ASSUME (\E w \in wis : Response(w)) \/ Push PROVE TypeOK'
    <2>1. UNCHANGED <<setup, state, memVars, evVars, handlers, trVars, ends, fault>>
      BY <1>1 DEF Response, Push, trVars
    <2>2. StackOK'
      BY <1>a, <1>1, WorkerMoves
    <2> QED BY <1>0, <2>1, <2>2, TypeKept, TypeParts
  <1>2. ASSUME NEW I \in SUBSET wis, NEW reset \in BOOLEAN, Sweep(I, reset)
        PROVE  TypeOK'
    <2>1. /\ UNCHANGED <<setup, state, memVars, evVars, handlers, closing, ended, ends, fault>>
          /\ wis' = wis \ I /\ up' = (up /\ ~reset)
      BY <1>2 DEF Sweep
    <2>2. StackOK' /\ TrOK'
      BY <1>0, <1>a, <1>2, <2>1, WorkerMoves DEF TrOK
    <2> QED BY <1>0, <2>1, <2>2, TypeKept, TypeParts
  <1>3. ASSUME Reconnected PROVE TypeOK'
    <2>1. /\ UNCHANGED <<setup, state, stack, memVars, evVars, handlers, wis, closing,
                         ended, ends, fault>>
          /\ up' = TRUE
      BY <1>3 DEF Reconnected
    <2>2. StackOK' /\ TrOK'
      BY <1>0, <2>1 DEF StackOK, TrOK
    <2> QED BY <1>0, <2>1, <2>2, TypeKept, TypeParts
  <1>4. ASSUME CleanupAsync PROVE TypeOK'
    <2>1. /\ UNCHANGED <<setup, state, memVars, evVars, handlers, closing, ended, ends, fault>>
          /\ wis' = {} /\ up' = FALSE
      BY <1>4 DEF CleanupAsync
    <2>2. StackOK' /\ TrOK'
      BY <1>0, <1>a, <1>4, <2>1, WorkerMoves DEF TrOK
    <2> QED BY <1>0, <2>1, <2>2, TypeKept, TypeParts
  <1> QED BY <1>1, <1>2, <1>3, <1>4

\* What a step is
LEMMA NextCases ==
  ASSUME [Next]_vars
  PROVE  \/ \E a \in Actors : Step(a) \/ ApiCall(a)
         \/ \E w \in wis : Response(w)
         \/ \E I \in SUBSET wis, reset \in BOOLEAN : Sweep(I, reset)
         \/ Push \/ Reconnected \/ CleanupAsync
         \/ UNCHANGED vars
  <1>1. CASE UNCHANGED vars
    BY <1>1
  <1>2. CASE Next
    <2>1. CASE \E I \in SUBSET wis : I # {} /\ Sweep(I, FALSE)
      BY <2>1
    <2>2. CASE Reset
      BY <2>2 DEF Reset
    <2>3. CASE Ended
      BY <2>3 DEF Ended
    <2> QED BY <1>2, <2>1, <2>2, <2>3 DEF Next
  <1> QED BY <1>1, <1>2

LEMMA TypeStep == TypeOK /\ [Next]_vars => TypeOK'
  <1> SUFFICES ASSUME TypeOK, [Next]_vars PROVE TypeOK'
    OBVIOUS
  <1>1. CASE UNCHANGED vars
    BY <1>1 DEF vars, TypeOK, setup, memVars, evVars, trVars
  <1> QED BY <1>1, NextCases, TypeStepCall, TypeStepApi, TypeStepWorker

\* Every variable of the client has its type, for any number of threads and
\* calls: a frame always has an argument of the kind that its function
\* reads, and a call only a slot of its own kind.
THEOREM ClientTyped == Spec => []TypeOK
  <1> QED BY TypeInit, TypeStep, PTL DEF Spec


(***************************************************************************)
(* Who is in which function, and holds which mutex                         *)
(***************************************************************************)

\* The invariant of every step
LockInv == RoleInv /\ PollInv /\ HandlerInv /\ CloseInv

\* After a step a frame is a new one of a, or was there before.
LEMMA FramesAfter ==
  ASSUME StackOK, NEW a \in Actors, NEW fs, NEW n, Shape(a, fs, n)
  PROVE  /\ \A b \in Actors : \A i \in DOMAIN stack'[b] :
              \/ b = a /\ i \in DOMAIN fs /\ stack'[b][i] = fs[i]
              \/ \E j \in DOMAIN stack[b] :
                   /\ stack'[b][i] = stack[b][j]
                   /\ b = a => j > n /\ i = j - n + Len(fs)
                   /\ b # a => i = j
         /\ \A b \in Actors : \A j \in DOMAIN stack[b] :
              (b = a => j > n) =>
                \E i \in DOMAIN stack'[b] :
                  /\ stack'[b][i] = stack[b][j]
                  /\ b = a => i = j - n + Len(fs)
                  /\ b # a => i = j
         /\ \A i \in DOMAIN fs : i \in DOMAIN stack'[a] /\ stack'[a][i] = fs[i]
  <1>1. ASSUME NEW b \in Actors, NEW i \in DOMAIN stack'[b]
        PROVE  \/ b = a /\ i \in DOMAIN fs /\ stack'[b][i] = fs[i]
               \/ \E j \in DOMAIN stack[b] :
                    /\ stack'[b][i] = stack[b][j]
                    /\ b = a => j > n /\ i = j - n + Len(fs)
                    /\ b # a => i = j
    <2>1. CASE b # a
      BY <2>1, ShapeFacts
    <2>2. CASE b = a
      <3>1. CASE i > Len(fs)
        <4> DEFINE j == i - Len(fs) + n
        <4>1. j \in DOMAIN stack[a] /\ stack'[a][i] = stack[a][j]
          BY <2>2, <3>1, ShapeFacts
        <4>2. j > n /\ i = j - n + Len(fs)
          BY <2>2, <3>1, ShapeFacts
        <4> QED BY <2>2, <4>1, <4>2
      <3>2. CASE ~(i > Len(fs))
        BY <2>2, <3>2, ShapeFacts
      <3> QED BY <3>1, <3>2
    <2> QED BY <2>1, <2>2
  <1>2. ASSUME NEW b \in Actors, NEW j \in DOMAIN stack[b], b = a => j > n
        PROVE  \E i \in DOMAIN stack'[b] :
                 /\ stack'[b][i] = stack[b][j]
                 /\ b = a => i = j - n + Len(fs)
                 /\ b # a => i = j
    BY <1>2, ShapeFacts
  <1>3. \A i \in DOMAIN fs : i \in DOMAIN stack'[a] /\ stack'[a][i] = fs[i]
    BY ShapeFacts
  <1> QED BY <1>1, <1>2, <1>3

\* A label is held by those who held it, if no frame with it comes or goes.
LEMMA HoldsKept ==
  ASSUME StackOK, NEW a \in Actors, NEW fs, NEW n, Shape(a, fs, n), NEW at,
         n \in {0, 1}, n = 1 => stack[a][1].at # at
  PROVE  /\ \A b \in Actors : Holds(b, at) => Holds(b, at)'
         /\ \A b \in Actors : Holds(b, at)' =>
              Holds(b, at) \/ (b = a /\ \E i \in DOMAIN fs : fs[i].at = at)
  <1>1. ASSUME NEW b \in Actors, Holds(b, at) PROVE Holds(b, at)'
    <2>1. PICK j \in DOMAIN stack[b] : stack[b][j].at = at
      BY <1>1 DEF Holds
    <2>2. b = a => j > n
      BY <2>1, ShapeFacts
    <2> QED BY <2>1, <2>2, FramesAfter DEF Holds
  <1>2. ASSUME NEW b \in Actors, Holds(b, at)'
        PROVE  Holds(b, at) \/ (b = a /\ \E i \in DOMAIN fs : fs[i].at = at)
    <2>1. PICK i \in DOMAIN stack'[b] : stack'[b][i].at = at
      BY <1>2 DEF Holds
    <2> QED BY <2>1, FramesAfter DEF Holds
  <1> QED BY <1>1, <1>2

LEMMA HoldsLess ==
  ASSUME StackOK, NEW a \in Actors, NEW fs, NEW n, Shape(a, fs, n), NEW at
  PROVE  \A b \in Actors : Holds(b, at)' =>
           Holds(b, at) \/ (b = a /\ \E i \in DOMAIN fs : fs[i].at = at)
  <1> SUFFICES ASSUME NEW b \in Actors, Holds(b, at)'
               PROVE  Holds(b, at) \/ (b = a /\ \E i \in DOMAIN fs : fs[i].at = at)
    OBVIOUS
  <1>1. PICK i \in DOMAIN stack'[b] : stack'[b][i].at = at
    BY DEF Holds
  <1> QED BY <1>1, FramesAfter DEF Holds

LEMMA RoleKept ==
  ASSUME TypeOK, RoleInv, NEW a \in Actors, NEW fs, NEW n, Shape(a, fs, n),
         n \in {0, 1}, UNCHANGED mode,
         \A i \in DOMAIN fs :
           /\ Plays(a, fs[i])
           /\ fs[i].at \in Sending =>
                i = 1 /\ (mode = "uvPoll" /\ ~PollSends => Len(stack'[a]) = 1),
         n = 0 => stack[a] = <<>> \/ stack[a][1].at \notin Sending
  PROVE  RoleInv'
  <1> SUFFICES ASSUME NEW b \in Actors, NEW i \in DOMAIN stack'[b]
               PROVE  /\ Plays(b, stack[b][i])'
                      /\ stack'[b][i].at \in Sending =>
                           /\ i = 1
                           /\ mode' = "uvPoll" /\ ~PollSends => Len(stack'[b]) = 1
    BY DEF RoleInv
  <1>0. StackOK
    BY TypeParts
  <1>1. CASE b = a /\ i \in DOMAIN fs /\ stack'[b][i] = fs[i]
    BY <1>1 DEF Plays, Polling, Dummy
  <1>2. ASSUME NEW j \in DOMAIN stack[b], stack'[b][i] = stack[b][j],
               b = a => j > n, b # a => i = j
        PROVE  /\ Plays(b, stack[b][i])'
               /\ stack'[b][i].at \in Sending =>
                    i = 1 /\ (mode' = "uvPoll" /\ ~PollSends => Len(stack'[b]) = 1)
    <2>1. Plays(b, stack[b][j])
      BY DEF RoleInv
    <2>2. Plays(b, stack[b][i])'
      BY <1>2, <2>1 DEF Plays, Polling, Dummy
    <2>3. ASSUME stack'[b][i].at \in Sending
          PROVE  i = 1 /\ (mode' = "uvPoll" /\ ~PollSends => Len(stack'[b]) = 1)
      <3>1. j = 1 /\ (mode = "uvPoll" /\ ~PollSends => Len(stack[b]) = 1)
        BY <1>2, <2>3 DEF RoleInv
      <3>2. b # a
        <4> SUFFICES ASSUME b = a PROVE FALSE
          OBVIOUS
        <4>1. n = 0
          BY <1>2, <3>1
        <4>2. stack[a] # <<>>
          BY <1>0, <3>1, StackLen
        <4> QED BY <1>2, <2>3, <3>1, <4>1, <4>2
      <3>3. stack'[b] = stack[b]
        BY <1>0, <3>2, ShapeFacts
      <3> QED BY <1>2, <3>1, <3>2, <3>3
    <2> QED BY <2>2, <2>3
  <1> QED BY <1>0, <1>1, <1>2, FramesAfter

LEMMA PollKept ==
  ASSUME TypeOK, PollInv, NEW a \in Actors, NEW fs, NEW n, Shape(a, fs, n),
         n \in {0, 1}, UNCHANGED <<mode, is_in_poll>>,
         ~Polling => pending_ev' = <<>>,
         n = 1 => stack[a][1].at # "polling",
         \A i \in DOMAIN fs :
           /\ fs[i].at # "polling"
           /\ Polling /\ fs[i].at \in Telling => Holds(a, "polling")
  PROVE  PollInv'
  <1>0. StackOK
    BY TypeParts
  <1>1. \A b \in Actors : Holds(b, "polling")' <=> Holds(b, "polling")
    BY <1>0, HoldsKept
  <1>2. Polling' <=> Polling
    BY DEF Polling
  <1>3. ASSUME NEW b \in Actors, NEW i \in DOMAIN stack'[b]
        PROVE  /\ Polling /\ stack'[b][i].at \in Telling => Holds(b, "polling")
               /\ stack'[b][i].at = "polling" =>
                    \A j \in DOMAIN stack'[b] :
                      j > i => stack'[b][j].at \in {"switch", "destroy"}
    <2>1. CASE b # a
      <3>1. stack'[b] = stack[b]
        BY <1>0, <2>1, ShapeFacts
      <3> QED BY <3>1 DEF PollInv
    <2>2. CASE b = a
      <3>1. ASSUME Polling, stack'[b][i].at \in Telling PROVE Holds(b, "polling")
        BY <1>0, <2>2, <3>1, FramesAfter DEF PollInv
      <3>2. ASSUME stack'[b][i].at = "polling",
                   NEW j \in DOMAIN stack'[b], j > i
            PROVE  stack'[b][j].at \in {"switch", "destroy"}
        <4>1. i \notin DOMAIN fs
          BY <1>0, <2>2, <3>2, ShapeFacts
        <4>2. i > Len(fs) /\ j > Len(fs)
          BY <1>0, <2>2, <3>2, <4>1, ShapeFacts
        <4> DEFINE p == i - Len(fs) + n
                   q == j - Len(fs) + n
        <4>3. /\ p \in DOMAIN stack[a] /\ stack'[a][i] = stack[a][p]
              /\ q \in DOMAIN stack[a] /\ stack'[a][j] = stack[a][q]
          BY <1>0, <2>2, <4>2, ShapeFacts
        <4>4. q > p
          BY <1>0, <2>2, <3>2, ShapeFacts
        <4> QED BY <2>2, <3>2, <4>3, <4>4 DEF PollInv
      <3> QED BY <3>1, <3>2
    <2> QED BY <2>1, <2>2
  <1>4. /\ ~Polling' => pending_ev' = <<>>
        /\ is_in_poll' <=> \E b \in Actors : Holds(b, "polling")'
        /\ \A b, c \in Actors : Holds(b, "polling")' /\ Holds(c, "polling")' => b = c
    BY <1>1, <1>2 DEF PollInv
  <1> QED BY <1>1, <1>2, <1>3, <1>4 DEF PollInv


LEMMA HandlerKept ==
  ASSUME TypeOK, HandlerInv, NEW a \in Actors, NEW fs, NEW n, Shape(a, fs, n),
         UNCHANGED handlers,
         \A i \in DOMAIN fs : fs[i].at = "handler" =>
           /\ FreeFor(a, "handler")
           /\ fs[i].x \in Range(handlers)
  PROVE  HandlerInv'
  <1>0. StackOK
    BY TypeParts
  <1>1. ASSUME NEW b \in Actors, NEW c \in Actors,
               Holds(b, "handler")', Holds(c, "handler")'
        PROVE  b = c
    <2>1. ASSUME NEW d \in Actors, Holds(d, "handler")'
          PROVE  Holds(d, "handler") \/ (d = a /\ FreeFor(a, "handler"))
      BY <1>0, <2>1, HoldsLess
    <2> QED BY <1>1, <2>1 DEF FreeFor, HandlerInv
  <1>2. ASSUME NEW b \in Actors, NEW i \in DOMAIN stack'[b],
               stack'[b][i].at = "handler"
        PROVE  stack'[b][i].x \in Range(handlers')
    BY <1>0, <1>2, FramesAfter DEF HandlerInv
  <1> QED BY <1>1, <1>2 DEF HandlerInv

LEMMA CloseKept ==
  ASSUME TypeOK, CloseInv, NEW a \in Actors, NEW fs, NEW n, Shape(a, fs, n),
         n \in {0, 1}, UNCHANGED <<mode, closing, ended>>,
         a \in Threads /\ closing => stack[a] # <<>>,
         a = Worker => ~Dummy /\ ~ended,
         wis' \subseteq wis \/ ~(Dummy \/ ended \/ Holds(Worker, "exit")),
         n = 0 => stack[a] = <<>> \/ stack[a][1].at # "join",
         \A i \in DOMAIN fs :
           /\ fs[i].at \notin {"join", "destroy", "exit"}
           /\ closing /\ a \in Threads => fs[i].at \in Telling
           /\ Holds(Worker, "exit") /\ a = Worker => fs[i].at \notin Sending,
         \A b \in Actors :
           1 \in DOMAIN stack'[b] /\ stack'[b][1].at = "destroy" => pending_ev' = <<>>
  PROVE  CloseInv'
  <1>0. StackOK /\ Worker \in Actors /\ Worker \notin Threads /\ Threads \subseteq Actors
    BY TypeParts, ClientAssumption DEF Actors
  <1>a. Dummy' <=> Dummy
    BY DEF Dummy
  <1>1. closing' => \A t, u \in Threads : stack'[t] # <<>> /\ stack'[u] # <<>> => t = u
    <2> SUFFICES ASSUME closing, NEW t \in Threads, NEW u \in Threads,
                        stack'[t] # <<>>, stack'[u] # <<>>
                 PROVE  t = u
      OBVIOUS
    <2>1. stack[t] # <<>> /\ stack[u] # <<>>
      BY <1>0, ShapeFacts
    <2> QED BY <2>1 DEF CloseInv
  <1>2. Dummy' \/ ended' => wis' = {} /\ stack'[Worker] = <<>>
    <2> SUFFICES ASSUME Dummy \/ ended PROVE wis' = {} /\ stack'[Worker] = <<>>
      BY <1>a
    <2>1. wis = {} /\ stack[Worker] = <<>> /\ a # Worker
      BY DEF CloseInv
    <2>2. stack'[Worker] = stack[Worker]
      BY <1>0, <2>1, ShapeFacts
    <2> QED BY <2>1, <2>2
  <1>3. Holds(Worker, "exit")' =>
          wis' = {} /\ \A i \in DOMAIN stack'[Worker] : stack'[Worker][i].at \notin Sending
    <2> SUFFICES ASSUME Holds(Worker, "exit")'
                 PROVE  /\ wis' = {}
                        /\ \A i \in DOMAIN stack'[Worker] :
                             stack'[Worker][i].at \notin Sending
      OBVIOUS
    <2>1. Holds(Worker, "exit")
      BY <1>0, HoldsLess
    <2>2. wis' = {}
      BY <2>1 DEF CloseInv
    <2>3. ASSUME NEW i \in DOMAIN stack'[Worker]
          PROVE  stack'[Worker][i].at \notin Sending
      BY <1>0, <2>1, FramesAfter DEF CloseInv
    <2> QED BY <2>2, <2>3
  <1>4. ASSUME NEW b \in Actors, NEW i \in DOMAIN stack'[b]
        PROVE  LET at == stack'[b][i].at IN
               /\ at \in {"join", "destroy", "exit"} => closing' /\ i = Len(stack'[b])
               /\ closing' /\ b \in Threads =>
                    at \in Telling \cup {"join", "destroy", "polling"}
               /\ at = "join" => i = 1
               /\ at = "destroy" => (Dummy' \/ ended') /\ (i = 1 => pending_ev' = <<>>)
    <2>1. CASE b = a /\ i \in DOMAIN fs /\ stack'[b][i] = fs[i]
      BY <2>1
    <2>2. ASSUME NEW j \in DOMAIN stack[b], stack'[b][i] = stack[b][j],
                 b = a => j > n /\ i = j - n + Len(fs), b # a => i = j
          PROVE  LET at == stack'[b][i].at IN
                 /\ at \in {"join", "destroy", "exit"} => closing' /\ i = Len(stack'[b])
                 /\ closing' /\ b \in Threads =>
                      at \in Telling \cup {"join", "destroy", "polling"}
                 /\ at = "join" => i = 1
                 /\ at = "destroy" => (Dummy' \/ ended') /\ (i = 1 => pending_ev' = <<>>)
      <3>1. CASE b # a
        <4>1. stack'[b] = stack[b] /\ i = j
          BY <1>0, <2>2, <3>1, ShapeFacts
        <4> QED BY <1>a, <2>2, <4>1 DEF CloseInv
      <3>2. CASE b = a
        <4>1. stack[b][j].at \in {"join", "destroy", "exit"} => closing /\ i = Len(stack'[b])
          <5>1. stack[b][j].at \in {"join", "destroy", "exit"} => closing /\ j = Len(stack[b])
            BY DEF CloseInv
          <5> QED BY <1>0, <2>2, <3>2, <5>1, ShapeFacts
        <4>2. stack[b][j].at = "join" => i = 1
          <5> SUFFICES ASSUME stack[b][j].at = "join" PROVE FALSE
            OBVIOUS
          <5>1. j = 1
            BY DEF CloseInv
          <5>2. n = 0 /\ stack[a] # <<>>
            BY <1>0, <2>2, <3>2, <5>1, StackLen
          <5> QED BY <3>2, <5>1, <5>2
        <4>3. /\ closing /\ b \in Threads =>
                   stack[b][j].at \in Telling \cup {"join", "destroy", "polling"}
              /\ stack[b][j].at = "destroy" => Dummy \/ ended
          BY DEF CloseInv
        <4> QED BY <1>a, <2>2, <4>1, <4>2, <4>3
      <3> QED BY <3>1, <3>2
    <2> QED BY <1>0, <2>1, <2>2, FramesAfter
  <1>5. ended' => closing'
    BY DEF CloseInv
  <1> QED BY <1>1, <1>2, <1>3, <1>4, <1>5 DEF CloseInv

\* When the frame of pc_client_cleanup becomes the innermost, the last poll
\* has left no event.
LEMMA DestroyQuiet ==
  ASSUME TypeOK, LockInv, NEW a \in Actors, NEW fs, NEW n, Shape(a, fs, n),
         n \in {0, 1}, UNCHANGED pending_ev,
         n = 1 => stack[a][1].at # "polling",
         \A i \in DOMAIN fs : fs[i].at # "destroy",
         NEW b \in Actors, 1 \in DOMAIN stack'[b], stack'[b][1].at = "destroy"
  PROVE  pending_ev' = <<>>
  <1>0. StackOK
    BY TypeParts
  <1>1. CASE b # a
    <2>1. stack'[b] = stack[b]
      BY <1>0, <1>1, ShapeFacts
    <2> QED BY <2>1 DEF LockInv, CloseInv
  <1>2. CASE b = a
    <2>1. PICK j \in DOMAIN stack[a] :
            stack[a][j].at = "destroy" /\ j > n /\ 1 = j - n + Len(fs)
      BY <1>0, <1>2, FramesAfter
    <2>2. CASE n = 0
      <3>1. j = 1
        BY <1>0, <2>1, <2>2, ShapeFacts
      <3> QED BY <2>1, <3>1 DEF LockInv, CloseInv
    <2>3. CASE n = 1
      <3>1. j = 2 /\ DOMAIN stack[a] = 1..Len(stack[a]) /\ Len(stack[a]) \in Nat
        BY <1>0, <2>1, <2>3, ShapeFacts
      <3>2. closing /\ Len(stack[a]) = 2
        BY <2>1, <3>1 DEF LockInv, CloseInv
      <3>3. a \in Threads
        BY <2>1 DEF LockInv, RoleInv, Plays
      <3>4. stack[a][1].at \in Telling \cup {"join", "destroy", "polling"}
        BY <3>1, <3>2, <3>3 DEF LockInv, CloseInv
      <3>5. stack[a][1].at \notin {"join", "destroy"}
        BY <3>1, <3>2 DEF LockInv, CloseInv
      <3>6. stack[a][1].at \in Telling
        BY <2>3, <3>4, <3>5
      <3>7. ~Holds(a, "polling")
        BY <2>1, <2>3, <3>1, <3>2 DEF Holds
      <3>8. ~Polling
        BY <3>1, <3>2, <3>6, <3>7 DEF LockInv, PollInv
      <3> QED BY <3>8 DEF LockInv, PollInv
    <2> QED BY <2>2, <2>3
  <1> QED BY <1>1, <1>2

\* A frame that the steps of calls and callbacks may add
Suits(a, f) ==
  /\ Plays(a, f)
  /\ f.at \notin {"polling", "join", "destroy", "exit"}
  /\ Polling /\ f.at \in Telling => Holds(a, "polling")
  /\ f.at = "handler" => FreeFor(a, "handler") /\ f.x \in Range(handlers)
  /\ closing /\ a \in Threads => f.at \in Telling
  /\ Holds(Worker, "exit") /\ a = Worker => f.at \notin Sending

\* A step that neither polls nor closes, and changes no handlers
LEMMA LockKept ==
  ASSUME TypeOK, LockInv, NEW a \in Actors, NEW fs, NEW n, Shape(a, fs, n),
         n \in {0, 1}, UNCHANGED <<mode, is_in_poll, pending_ev, handlers, closing, ended>>,
         wis' \subseteq wis \/ ~(Dummy \/ ended \/ Holds(Worker, "exit")),
         a \in Threads /\ closing => stack[a] # <<>>,
         a = Worker => ~Dummy /\ ~ended,
         n = 0 => stack[a] = <<>> \/ stack[a][1].at \notin Sending \cup {"join"},
         n = 1 => stack[a][1].at # "polling",
         \A i \in DOMAIN fs :
           /\ Suits(a, fs[i])
           /\ fs[i].at \in Sending =>
                i = 1 /\ (mode = "uvPoll" /\ ~PollSends => Len(stack'[a]) = 1)
  PROVE  LockInv'
  <1>1. RoleInv'
    BY RoleKept DEF LockInv, Suits
  <1>2. PollInv'
    <2>1. ~Polling => pending_ev' = <<>>
      BY DEF LockInv, PollInv
    <2>2. \A i \in DOMAIN fs :
            /\ fs[i].at # "polling"
            /\ Polling /\ fs[i].at \in Telling => Holds(a, "polling")
      BY DEF Suits
    <2> QED BY <2>1, <2>2, PollKept DEF LockInv
  <1>3. HandlerInv'
    BY HandlerKept DEF LockInv, Suits
  <1>4. CloseInv'
    <2>1. \A b \in Actors :
            1 \in DOMAIN stack'[b] /\ stack'[b][1].at = "destroy" => pending_ev' = <<>>
      BY DestroyQuiet DEF Suits
    <2>2. n = 0 => stack[a] = <<>> \/ stack[a][1].at # "join"
      OBVIOUS
    <2>3. \A i \in DOMAIN fs :
            /\ fs[i].at \notin {"join", "destroy", "exit"}
            /\ closing /\ a \in Threads => fs[i].at \in Telling
            /\ Holds(Worker, "exit") /\ a = Worker => fs[i].at \notin Sending
      BY DEF Suits
    <2> QED BY <2>1, <2>2, <2>3, CloseKept DEF LockInv
  <1> QED BY <1>1, <1>2, <1>3, <1>4 DEF LockInv


\* What the frames of an actor that goes on tell
LEMMA TopRole ==
  ASSUME TypeOK, LockInv, NEW a \in Actors, At(a) # "idle"
  PROVE  /\ StackOK /\ stack[a] # <<>> /\ 1 \in DOMAIN stack[a]
         /\ stack[a][1] \in Frames /\ stack[a][1] = F(At(a), Arg(a))
         /\ At(a) = stack[a][1].at /\ Arg(a) = stack[a][1].x
         /\ Plays(a, stack[a][1])
         /\ a = Worker => ~Dummy /\ ~ended
         /\ Polling /\ At(a) \in Telling => Holds(a, "polling")
         /\ closing /\ a \in Threads => At(a) \in Telling \cup {"join", "destroy", "polling"}
         /\ At(a) \in Sending /\ a = Worker => ~Holds(Worker, "exit")
         /\ At(a) = "handler" => FreeFor(a, "handler") /\ Arg(a) \in Range(handlers)
  <1>1. /\ StackOK /\ stack[a] # <<>> /\ 1 \in DOMAIN stack[a]
        /\ stack[a][1] \in Frames /\ At(a) = stack[a][1].at /\ Arg(a) = stack[a][1].x
    BY TypeParts, Top
  <1>2. stack[a][1] = F(At(a), Arg(a))
    BY <1>1, FrameArg
  <1>3. Plays(a, stack[a][1])
    BY <1>1 DEF LockInv, RoleInv
  <1>4. a = Worker => ~Dummy /\ ~ended
    BY <1>1 DEF LockInv, CloseInv
  <1>5. Polling /\ At(a) \in Telling => Holds(a, "polling")
    BY <1>1 DEF LockInv, PollInv
  <1>6. /\ closing /\ a \in Threads => At(a) \in Telling \cup {"join", "destroy", "polling"}
        /\ At(a) \in Sending /\ a = Worker => ~Holds(Worker, "exit")
    BY <1>1 DEF LockInv, CloseInv
  <1>7. ASSUME At(a) = "handler"
        PROVE  FreeFor(a, "handler") /\ Arg(a) \in Range(handlers)
    <2>1. Holds(a, "handler")
      BY <1>1, <1>7 DEF Holds
    <2>2. FreeFor(a, "handler")
      BY <2>1 DEF LockInv, HandlerInv, FreeFor
    <2>3. Arg(a) \in Range(handlers)
      BY <1>1, <1>7 DEF LockInv, HandlerInv
    <2> QED BY <2>2, <2>3
  <1> QED BY <1>1, <1>2, <1>3, <1>4, <1>5, <1>6, <1>7

\* A call on its way into the transport keeps the worker from closing, and
\* pc_client_cleanup from being called.
LEMMA SendingOpen ==
  ASSUME TypeOK, LockInv, NEW a \in Actors, At(a) \in {"enqueue", "undo"}
  PROVE  ~(Dummy \/ ended \/ Holds(Worker, "exit"))
  <1>1. /\ Plays(a, stack[a][1]) /\ At(a) = stack[a][1].at
        /\ a = Worker => ~Dummy /\ ~ended /\ ~Holds(Worker, "exit")
        /\ closing => a \notin Threads
    BY TopRole DEF Sending, Telling
  <1>2. ~Dummy
    BY <1>1 DEF Plays
  <1>3. ended \/ Holds(Worker, "exit") => closing
    <2>1. Worker \in Actors
      BY DEF Actors
    <2> QED BY <2>1 DEF LockInv, CloseInv, Holds
  <1> QED BY <1>1, <1>2, <1>3 DEF Actors

\* A step that only leaves the innermost function
LEMMA LockReturn ==
  ASSUME TypeOK, LockInv, NEW a \in Actors, At(a) \notin {"idle", "polling"},
         Shape(a, <<>>, 1),
         UNCHANGED <<mode, is_in_poll, pending_ev, handlers, closing, ended>>,
         wis' \subseteq wis \/ ~(Dummy \/ ended \/ Holds(Worker, "exit"))
  PROVE  LockInv'
  <1>1. /\ stack[a] # <<>> /\ At(a) = stack[a][1].at
        /\ a = Worker => ~Dummy /\ ~ended
    BY TopRole
  <1>2. DOMAIN <<>> = {}
    OBVIOUS
  <1> QED BY <1>1, <1>2, LockKept

\* A step that leaves the innermost function for another
LEMMA LockGoto ==
  ASSUME TypeOK, LockInv, NEW a \in Actors, At(a) \notin {"idle", "polling"},
         NEW f, Shape(a, <<f>>, 1), Suits(a, f),
         f.at \in Sending => At(a) \in Sending,
         UNCHANGED <<mode, is_in_poll, pending_ev, handlers, closing, ended, wis>>
  PROVE  LockInv'
  <1>1. /\ StackOK /\ stack[a] # <<>> /\ 1 \in DOMAIN stack[a] /\ At(a) = stack[a][1].at
        /\ a = Worker => ~Dummy /\ ~ended
    BY TopRole
  <1> DEFINE fs == <<f>>
  <1>2. /\ DOMAIN fs = {1} /\ fs[1] = f /\ Len(fs) = 1
        /\ Shape(a, fs, 1)
    OBVIOUS
  <1> HIDE DEF fs
  <1>3. Len(stack'[a]) = Len(stack[a])
    <2>1. Len(stack'[a]) = Len(fs) + Len(stack[a]) - 1 /\ Len(stack[a]) \in Nat
      BY <1>1, <1>2, ShapeLen
    <2> QED BY <1>2, <2>1
  <1>4. f.at \in Sending => (mode = "uvPoll" /\ ~PollSends => Len(stack'[a]) = 1)
    BY <1>1, <1>3 DEF LockInv, RoleInv
  <1>5. \A i \in DOMAIN fs :
          /\ Suits(a, fs[i])
          /\ fs[i].at \in Sending =>
               i = 1 /\ (mode = "uvPoll" /\ ~PollSends => Len(stack'[a]) = 1)
    BY <1>2, <1>4
  <1> QED BY <1>1, <1>2, <1>5, LockKept

\* The steps of sending
LEMMA LockSend ==
  ASSUME TypeOK, LockInv, NEW a \in Actors,
         SendDummy(a) \/ SendUv(a) \/ Enqueue(a) \/ Undo(a)
  PROVE  LockInv'
  <1>0. At(a) \in Sending
    BY DEF SendDummy, SendUv, Enqueue, Undo, Sending
  <1>1. /\ Plays(a, stack[a][1]) /\ At(a) = stack[a][1].at
        /\ closing => a \notin Threads
        /\ a = Worker => ~Holds(Worker, "exit")
    BY <1>0, TopRole DEF Sending, Telling
  <1>2. ASSUME SendDummy(a) PROVE LockInv'
    <2> DEFINE m == Item(kind[Arg(a)], key[Arg(a)])
               f == Tell(m)
    <2>1. /\ Dummy /\ At(a) = "send"
          /\ UNCHANGED <<mode, is_in_poll, pending_ev, handlers, closing, ended, wis>>
      BY <1>2 DEF SendDummy, setup, evVars, trVars
    <2>2. m \in Messages /\ Shape(a, <<f>>, 1)
      BY <1>2, StepMoves
    <2>3. f.at = IF Polling THEN "queueEvent" ELSE "deliver"
      BY <2>2, TellFrame
    <2>4. Suits(a, f)
      BY <1>1, <2>1, <2>3 DEF Suits, Plays, Telling, Sending
    <2> HIDE DEF f
    <2> QED BY <2>1, <2>2, <2>3, <2>4, LockGoto DEF Sending
  <1>3. ASSUME SendUv(a) PROVE LockInv'
    <2>1. /\ ~Dummy /\ At(a) = "send"
          /\ UNCHANGED <<mode, is_in_poll, pending_ev, handlers, closing, ended, wis>>
      BY <1>3 DEF SendUv, setup, evVars, trVars
    <2>2. PICK at \in {"enqueue", "undo"} : Shape(a, <<F(at, Arg(a))>>, 1)
      BY <1>3, StepMoves
    <2> DEFINE f == F(at, Arg(a))
    <2>3. f.at = at
      BY DEF F
    <2>4. Suits(a, f)
      BY <1>1, <2>1, <2>3 DEF Suits, Plays, Telling, Sending
    <2> HIDE DEF f
    <2>5. Shape(a, <<f>>, 1)
      BY <2>2 DEF f
    <2> QED BY <1>0, <2>1, <2>4, <2>5, LockGoto
  <1>4. ASSUME Enqueue(a) \/ Undo(a) PROVE LockInv'
    <2>1. /\ At(a) \in {"enqueue", "undo"}
          /\ UNCHANGED <<mode, is_in_poll, pending_ev, handlers, closing, ended>>
      BY <1>4 DEF Enqueue, Undo, setup, evVars, trVars
    <2>2. ~(Dummy \/ ended \/ Holds(Worker, "exit"))
      BY <2>1, SendingOpen
    <2>3. Shape(a, <<>>, 1)
      BY <1>4, StepMoves
    <2> QED BY <2>1, <2>2, <2>3, LockReturn
  <1> QED BY <1>2, <1>3, <1>4

\* The steps of telling the client
LEMMA LockTell ==
  ASSUME TypeOK, LockInv, NEW a \in Actors,
         \/ Deliver(a) \/ EndCallback(a) \/ SetIdle(a)
         \/ FireEvent(a) \/ Walk(a) \/ EndHandler(a)
  PROVE  LockInv'
  <1>0. /\ At(a) \in Telling
        /\ UNCHANGED <<mode, is_in_poll, pending_ev, handlers, closing, ended, wis>>
    BY DEF Deliver, EndCallback, SetIdle, FireEvent, Walk, EndHandler, Telling,
           setup, evVars, trVars
  <1>1. /\ Plays(a, stack[a][1]) /\ At(a) = stack[a][1].at
        /\ At(a) \notin {"idle", "polling"}
        /\ Polling => Holds(a, "polling")
    BY <1>0, TopRole DEF Telling
  <1>2. ASSUME NEW f, f.at \in Telling,
               f.at = "handler" => FreeFor(a, "handler") /\ f.x \in Range(handlers)
        PROVE  Suits(a, f)
    BY <1>0, <1>1, <1>2 DEF Suits, Plays, Telling, Sending
  <1>3. CASE Shape(a, <<>>, 1)
    BY <1>0, <1>1, <1>3, LockReturn
  <1>4. ASSUME NEW f, Shape(a, <<f>>, 1), f.at \in Telling,
               f.at = "handler" => FreeFor(a, "handler") /\ f.x \in Range(handlers)
        PROVE  LockInv'
    <2>1. f.at \notin Sending
      BY <1>4 DEF Telling, Sending
    <2> QED BY <1>0, <1>1, <1>2, <1>4, <2>1, LockGoto
  <1>5. \A at, x : F(at, x).at = at /\ F(at, x).x = x
    BY DEF F
  <1>6. ASSUME UNCHANGED stack PROVE LockInv'
    BY <1>0, <1>6 DEF LockInv, RoleInv, PollInv, HandlerInv, CloseInv, Plays, Holds,
                      Polling, Dummy
  <1>7. CASE Deliver(a)
    <2>1. ASSUME NEW r, Shape(a, <<F("cb", r)>>, 1) PROVE LockInv'
      BY <1>4, <1>5, <2>1 DEF Telling
    <2> QED BY <1>3, <1>7, <2>1, DeliverMove
  <1>8. CASE EndCallback(a)
    <2>1. ASSUME Shape(a, <<F("setIdle", Arg(a))>>, 1) PROVE LockInv'
      BY <1>4, <1>5, <2>1 DEF Telling
    <2> QED BY <1>3, <1>8, <2>1, StepMoves
  <1>9. CASE SetIdle(a)
    BY <1>3, <1>9, StepMoves
  <1>10. CASE FireEvent(a)
    <2>1. Shape(a, <<F("walk", None)>>, 1)
      BY <1>10, StepMoves
    <2> QED BY <1>4, <1>5, <2>1 DEF Telling
  <1>11. CASE Walk(a)
    <2>1. ASSUME FreeFor(a, "handler"), NEW h \in Range(handlers),
                 Shape(a, <<F("handler", h)>>, 1)
          PROVE  LockInv'
      BY <1>4, <1>5, <2>1 DEF Telling
    <2> QED BY <1>3, <1>11, <2>1, WalkMove
  <1>12. CASE EndHandler(a)
    <2>1. FreeFor(a, "handler")
      BY <1>12, TopRole DEF EndHandler
    <2>2. ASSUME NEW h \in Range(handlers), Shape(a, <<F("handler", h)>>, 1)
          PROVE  LockInv'
      BY <1>4, <1>5, <2>1, <2>2 DEF Telling
    <2> QED BY <1>3, <1>6, <1>12, <2>2, WalkMove
  <1> QED BY <1>7, <1>8, <1>9, <1>10, <1>11, <1>12


\* The steps of a switch, of a response and of a sweep
LEMMA LockWork ==
  ASSUME TypeOK, LockInv, NEW a \in Actors, SwitchStep(a) \/ Drop(a) \/ SweepStep(a)
  PROVE  LockInv'
  <1>0. /\ At(a) \in {"switch", "drop", "sweep"}
        /\ UNCHANGED <<mode, is_in_poll, pending_ev, handlers, closing, ended>>
    BY DEF SwitchStep, Drop, SweepStep, setup, evVars, trVars
  <1>1. /\ Plays(a, stack[a][1]) /\ At(a) = stack[a][1].at
        /\ At(a) \notin {"idle", "polling"} /\ stack[a] # <<>>
        /\ closing => a \notin Threads
        /\ a = Worker => ~Dummy /\ ~ended
    BY <1>0, TopRole DEF Telling
  <1>2. CASE SwitchStep(a)
    <2>1. At(a) = "switch" /\ wis' = wis
      BY <1>2 DEF SwitchStep, trVars
    <2>2. CASE Shape(a, <<>>, 1)
      BY <1>0, <1>1, <2>1, <2>2, LockReturn
    <2>3. ASSUME NEW m \in Messages, Shape(a, <<Tell(m)>>, 1) PROVE LockInv'
      <3> DEFINE f == Tell(m)
      <3>1. f.at = IF Polling THEN "queueEvent" ELSE "deliver"
        BY TellFrame
      <3>2. Suits(a, f)
        <4>1. Dummy
          BY <1>1, <2>1 DEF Plays
        <4> QED BY <1>1, <3>1, <4>1 DEF Suits, Plays, Telling, Sending
      <3>3. Shape(a, <<f>>, 1) /\ f.at \notin Sending
        BY <2>3, <3>1 DEF Sending
      <3> HIDE DEF f
      <3> QED BY <1>0, <1>1, <2>1, <3>2, <3>3, LockGoto
    <2> QED BY <1>2, <2>2, <2>3, StepMoves
  <1>3. CASE Drop(a)
    <2>1. Shape(a, <<>>, 1)
      BY <1>3, StepMoves
    <2>2. wis' \subseteq wis \/ wis # {}
      BY <1>3 DEF Drop
    <2>3. wis # {} => ~(Dummy \/ ended \/ Holds(Worker, "exit"))
      BY DEF LockInv, CloseInv
    <2> QED BY <1>0, <1>1, <2>1, <2>2, <2>3, LockReturn
  <1>4. CASE SweepStep(a)
    <2>1. At(a) = "sweep" /\ wis' = wis
      BY <1>4 DEF SweepStep, trVars
    <2>2. CASE Shape(a, <<>>, 1)
      BY <1>0, <1>1, <2>1, <2>2, LockReturn
    <2>3. ASSUME NEW w \in Arg(a), Told(w) \in Messages,
                 Shape(a, <<Tell(Told(w)), F("sweep", Arg(a) \ {w})>>, 1)
          PROVE  LockInv'
      <3> DEFINE f == Tell(Told(w))
                 g == F("sweep", Arg(a) \ {w})
                 fs == <<f, g>>
      <3>1. f.at = (IF Polling THEN "queueEvent" ELSE "deliver") /\ g.at = "sweep"
        BY <2>3, TellFrame DEF F
      <3>2. a = Worker /\ a \notin Threads
        BY <1>1, <2>1, ClientAssumption DEF Plays
      <3>3. Suits(a, f) /\ Suits(a, g) /\ f.at \notin Sending /\ g.at \notin Sending
        BY <3>1, <3>2 DEF Suits, Plays, Telling, Sending
      <3> HIDE DEF f, g
      <3>4. DOMAIN fs = {1, 2} /\ fs[1] = f /\ fs[2] = g
        OBVIOUS
      <3>5. Shape(a, fs, 1)
        BY <2>3 DEF f, g
      <3> HIDE DEF fs
      <3>6. \A i \in DOMAIN fs :
              /\ Suits(a, fs[i])
              /\ fs[i].at \in Sending =>
                   i = 1 /\ (mode = "uvPoll" /\ ~PollSends => Len(stack'[a]) = 1)
        BY <3>3, <3>4
      <3>7. wis' \subseteq wis /\ stack[a][1].at # "polling"
        BY <1>1, <2>1
      <3> QED BY <1>0, <1>1, <3>2, <3>5, <3>6, <3>7, LockKept
    <2> QED BY <1>4, <2>2, <2>3, SweepMove
  <1> QED BY <1>2, <1>3, <1>4

\* An event is queued: not for a client that is about to be destroyed.
LEMMA LockQueue ==
  ASSUME TypeOK, LockInv, NEW a \in Actors, QueueEvent(a)
  PROVE  LockInv'
  <1>0. /\ At(a) = "queueEvent" /\ Shape(a, <<>>, 1)
        /\ UNCHANGED <<mode, is_in_poll, handlers, closing, ended, wis>>
    BY StepMoves DEF QueueEvent, setup, trVars
  <1>1. /\ StackOK /\ Plays(a, stack[a][1]) /\ At(a) = stack[a][1].at /\ stack[a] # <<>>
        /\ closing => a \notin Threads
        /\ a = Worker => ~Dummy /\ ~ended
    BY <1>0, TopRole DEF Telling
  <1>2. DOMAIN <<>> = {}
    OBVIOUS
  <1>3. Polling
    BY <1>0, <1>1 DEF Plays
  <1>4. ASSUME NEW b \in Actors, NEW i \in DOMAIN stack[b], stack[b][i].at = "destroy"
        PROVE  FALSE
    <2>1. closing /\ (Dummy \/ ended)
      BY <1>4 DEF LockInv, CloseInv
    <2> QED BY <1>1, <2>1 DEF Actors
  <1>5. \A b \in Actors : 1 \in DOMAIN stack'[b] => stack'[b][1].at # "destroy"
    BY <1>0, <1>1, <1>2, <1>4, FramesAfter
  <1>6. RoleInv'
    BY <1>0, <1>2, RoleKept DEF LockInv
  <1>7. PollInv'
    BY <1>0, <1>1, <1>2, <1>3, PollKept DEF LockInv
  <1>8. HandlerInv'
    BY <1>0, <1>2, HandlerKept DEF LockInv
  <1>9. CloseInv'
    BY <1>0, <1>1, <1>2, <1>5, CloseKept DEF LockInv
  <1> QED BY <1>6, <1>7, <1>8, <1>9 DEF LockInv


\* pc_client_poll starts on an otherwise empty stack.
LEMMA PollStarts ==
  ASSUME TypeOK, PollInv, NEW a \in Actors, NEW fs, NEW n, Shape(a, fs, n),
         Len(stack[a]) = n, UNCHANGED <<mode, pending_ev>>, is_in_poll' = TRUE,
         \A b \in Actors \ {a} : ~Holds(b, "polling"),
         1 \in DOMAIN fs, fs[1].at = "polling", Polling,
         \A i \in DOMAIN fs : i # 1 => fs[i].at \in {"switch", "destroy"}
  PROVE  PollInv'
  <1>0. StackOK /\ Polling'
    BY TypeParts DEF Polling
  <1>1. DOMAIN stack'[a] = DOMAIN fs /\ DOMAIN fs = 1..Len(fs) /\ Len(fs) \in Nat
    BY <1>0, ShapeFacts, ShapeLen
  <1>2. \A i \in DOMAIN fs : stack'[a][i] = fs[i]
    BY <1>0, FramesAfter
  <1>3. Holds(a, "polling")'
    BY <1>1, <1>2 DEF Holds
  <1>4. \A b \in Actors \ {a} : stack'[b] = stack[b]
    BY <1>0, ShapeFacts
  <1>5. \A b \in Actors \ {a} : ~Holds(b, "polling")'
    BY <1>4 DEF Holds
  <1>6. ASSUME NEW b \in Actors, NEW i \in DOMAIN stack'[b]
        PROVE  /\ stack'[b][i].at \in Telling => Holds(b, "polling")'
               /\ stack'[b][i].at = "polling" =>
                    \A j \in DOMAIN stack'[b] :
                      j > i => stack'[b][j].at \in {"switch", "destroy"}
    <2>1. CASE b = a
      <3>1. ASSUME NEW j \in DOMAIN stack'[b], j > i
            PROVE  stack'[b][j].at \in {"switch", "destroy"}
        <4>1. j # 1
          BY <1>1, <2>1, <3>1
        <4> QED BY <1>1, <1>2, <2>1, <4>1
      <3> QED BY <1>3, <2>1, <3>1
    <2>2. CASE b # a
      <3>1. stack'[b] = stack[b] /\ ~Holds(b, "polling")
        BY <1>4, <2>2
      <3> QED BY <1>0, <3>1 DEF PollInv, Holds
    <2> QED BY <2>1, <2>2
  <1> QED BY <1>0, <1>3, <1>5, <1>6 DEF PollInv

\* It takes one event, or ends.
LEMMA LockPollStep ==
  ASSUME TypeOK, LockInv, NEW a \in Actors, PollStep(a)
  PROVE  LockInv'
  <1>0. /\ At(a) = "polling"
        /\ UNCHANGED <<mode, handlers, closing, ended, wis>>
    BY DEF PollStep, setup, trVars
  <1>1. /\ StackOK /\ Plays(a, stack[a][1]) /\ At(a) = stack[a][1].at /\ stack[a] # <<>>
        /\ 1 \in DOMAIN stack[a]
        /\ a = Worker => ~Dummy /\ ~ended
    BY <1>0, TopRole
  <1>2. Polling /\ a \in Threads /\ a # Worker /\ Holds(a, "polling")
    BY <1>0, <1>1, ClientAssumption DEF Plays, Holds
  <1>3. ASSUME pending_ev = <<>>, is_in_poll' = FALSE, UNCHANGED pending_ev,
               Shape(a, <<>>, 1)
        PROVE  LockInv'
    <2>1. DOMAIN <<>> = {}
      OBVIOUS
    <2>2. RoleInv'
      BY <1>0, <1>3, <2>1, RoleKept DEF LockInv
    <2>3. HandlerInv'
      BY <1>0, <1>3, <2>1, HandlerKept DEF LockInv
    <2>4. CloseInv'
      BY <1>0, <1>1, <1>3, <2>1, CloseKept DEF LockInv
    <2>5. \A b \in Actors \ {a} : stack'[b] = stack[b] /\ ~Holds(b, "polling")
      <3>1. \A b \in Actors \ {a} : stack'[b] = stack[b]
        BY <1>1, <1>3, ShapeFacts
      <3> QED BY <1>2, <3>1 DEF LockInv, PollInv
    <2>6. \A i \in DOMAIN stack'[a] : stack'[a][i].at \in {"switch", "destroy"}
      <3> SUFFICES ASSUME NEW i \in DOMAIN stack'[a]
                   PROVE  stack'[a][i].at \in {"switch", "destroy"}
        OBVIOUS
      <3>1. PICK j \in DOMAIN stack[a] : stack'[a][i] = stack[a][j] /\ j > 1
        BY <1>1, <1>3, <2>1, FramesAfter
      <3> QED BY <1>0, <1>1, <3>1 DEF LockInv, PollInv
    <2>7. \A b \in Actors : ~Holds(b, "polling")'
      <3> SUFFICES ASSUME NEW b \in Actors PROVE ~Holds(b, "polling")'
        OBVIOUS
      <3>1. CASE b = a
        BY <2>6, <3>1 DEF Holds
      <3>2. CASE b # a
        BY <2>5, <3>2 DEF Holds
      <3> QED BY <3>1, <3>2
    <2>8. ASSUME NEW b \in Actors, NEW i \in DOMAIN stack'[b]
          PROVE  stack'[b][i].at \notin Telling \cup {"polling"}
      <3>1. CASE b = a
        BY <2>6, <3>1 DEF Telling
      <3>2. CASE b # a
        BY <1>2, <2>5, <3>2 DEF LockInv, PollInv, Holds
      <3> QED BY <3>1, <3>2
    <2>9. PollInv'
      BY <1>3, <2>7, <2>8 DEF PollInv
    <2> QED BY <2>2, <2>3, <2>4, <2>9 DEF LockInv
  <1>4. ASSUME pending_ev # <<>>, Head(pending_ev) \in Messages, UNCHANGED is_in_poll,
               Shape(a, <<F("deliver", Head(pending_ev))>>, 0)
        PROVE  LockInv'
    <2> DEFINE f == F("deliver", Head(pending_ev))
               fs == <<f>>
    <2>1. f.at = "deliver"
      BY DEF F
    <2> HIDE DEF f
    <2>2. DOMAIN fs = {1} /\ fs[1] = f
      OBVIOUS
    <2>3. Shape(a, fs, 0)
      BY <1>4 DEF f
    <2> HIDE DEF fs
    <2>4. \A i \in DOMAIN fs :
            /\ Plays(a, fs[i]) /\ fs[i].at \in Telling /\ fs[i].at # "handler"
            /\ fs[i].at \notin Sending \cup {"polling", "join", "destroy", "exit"}
      BY <1>2, <2>1, <2>2 DEF Plays, Telling, Sending
    <2>5. RoleInv'
      BY <1>0, <1>1, <2>3, <2>4, RoleKept DEF LockInv, Sending
    <2>6. PollInv'
      BY <1>0, <1>2, <1>4, <2>3, <2>4, PollKept DEF LockInv
    <2>7. HandlerInv'
      BY <1>0, <2>3, <2>4, HandlerKept DEF LockInv
    <2>8. CloseInv'
      <3>1. ASSUME NEW b \in Actors, 1 \in DOMAIN stack'[b], stack'[b][1].at = "destroy"
            PROVE  FALSE
        <4>1. CASE b = a
          <5>1. stack'[a][1] = f
            BY <1>1, <2>2, <2>3, FramesAfter
          <5> QED BY <2>1, <3>1, <4>1, <5>1
        <4>2. CASE b # a
          <5>1. stack'[b] = stack[b]
            BY <1>1, <2>3, <4>2, ShapeFacts
          <5> QED BY <1>4, <3>1, <5>1 DEF LockInv, CloseInv
        <4> QED BY <4>1, <4>2
      <3>2. stack[a][1].at # "join"
        BY <1>0, <1>1
      <3>3. \A i \in DOMAIN fs :
              /\ fs[i].at \notin {"join", "destroy", "exit"}
              /\ closing /\ a \in Threads => fs[i].at \in Telling
              /\ Holds(Worker, "exit") /\ a = Worker => fs[i].at \notin Sending
        BY <2>4
      <3> QED BY <1>0, <1>1, <1>2, <2>3, <3>1, <3>2, <3>3, CloseKept DEF LockInv
    <2> QED BY <2>5, <2>6, <2>7, <2>8 DEF LockInv
  <1> QED BY <1>3, <1>4, PollMove


\* The application polls, or calls pc_client_connect or _disconnect, which
\* poll first.
LEMMA LockPoll ==
  ASSUME TypeOK, LockInv, NEW a \in Actors,
         Poll(a) \/ \E op \in DOMAIN Switches : Switch(a, op)
  PROVE  LockInv'
  <1>0. /\ MayCall(a) /\ ~closing /\ StackOK
        /\ UNCHANGED <<mode, pending_ev, handlers, closing, ended, wis>>
    BY TypeParts DEF Poll, Switch, MayCall, setup, trVars
  <1>1. \A b \in Actors : \A i \in DOMAIN stack[b] : stack[b][i].at # "destroy"
    BY <1>0 DEF LockInv, CloseInv
  <1>2. ASSUME a \in Threads, stack[a] = <<>>, Polling, is_in_poll' = TRUE,
               FreeFor(a, "polling"), NEW fs, Shape(a, fs, 0),
               1 \in DOMAIN fs, fs[1].at = "polling",
               \A i \in DOMAIN fs : i # 1 => fs[i].at = "switch" /\ Dummy
        PROVE  LockInv'
    <2>0. Len(stack[a]) = 0 /\ a # Worker
      BY <1>2, ClientAssumption
    <2>1. \A i \in DOMAIN fs :
            /\ Plays(a, fs[i])
            /\ fs[i].at \notin Sending \cup {"handler", "join", "destroy", "exit"}
      BY <1>2 DEF Plays, Telling, Sending
    <2>2. RoleInv'
      BY <1>0, <1>2, <2>1, RoleKept DEF LockInv
    <2>3. PollInv'
      BY <1>0, <1>2, <2>0, PollStarts DEF LockInv, FreeFor
    <2>4. HandlerInv'
      BY <1>0, <1>2, <2>1, HandlerKept DEF LockInv
    <2>5. CloseInv'
      <3>1. ASSUME NEW b \in Actors, 1 \in DOMAIN stack'[b], stack'[b][1].at = "destroy"
            PROVE  FALSE
        BY <1>0, <1>1, <1>2, <2>1, <3>1, FramesAfter
      <3> QED BY <1>0, <1>2, <2>0, <2>1, <3>1, CloseKept DEF LockInv
    <2> QED BY <2>2, <2>3, <2>4, <2>5 DEF LockInv
  <1>3. ASSUME Poll(a) PROVE LockInv'
    <2>1. /\ Polling /\ FreeFor(a, "polling") /\ ~is_in_poll /\ is_in_poll' = TRUE
      BY <1>3 DEF Poll, MayPoll
    <2>2. ~InCallback(a)
      <3> SUFFICES ASSUME InCallback(a) PROVE FALSE
        OBVIOUS
      <3>1. At(a) \in Telling
        BY DEF InCallback, Telling
      <3>2. Holds(a, "polling")
        BY <2>1, <3>1, TopRole DEF Telling
      <3> QED BY <2>1, <3>2 DEF LockInv, PollInv
    <2>3. a \in Threads /\ stack[a] = <<>>
      BY <1>0, <2>2, IdleStack DEF MayCall
    <2> DEFINE f == F("polling", None)
               fs == <<f>>
    <2>4. f.at = "polling"
      BY DEF F
    <2>5. Shape(a, fs, 0)
      BY <1>3, CallMoves
    <2> HIDE DEF f
    <2>6. DOMAIN fs = {1} /\ fs[1] = f
      OBVIOUS
    <2> HIDE DEF fs
    <2> QED BY <1>2, <2>1, <2>3, <2>4, <2>5, <2>6
  <1>4. ASSUME NEW op \in DOMAIN Switches, Switch(a, op) PROVE LockInv'
    <2>1. /\ Dummy /\ At(a) = "idle" /\ stack[a] = <<>>
      BY <1>4, CallMoves DEF Switch
    <2>2. a \in Threads /\ a # Worker
      BY <1>0, <2>1, ClientAssumption DEF MayCall, InCallback
    <2>3. CASE Polling
      <3> DEFINE f == F("polling", None)
                 g == F("switch", op)
                 fs == <<f, g>>
      <3>1. is_in_poll' = TRUE /\ FreeFor(a, "polling")
        BY <1>4, <2>3 DEF Switch, MayPoll
      <3>2. Shape(a, fs, 0)
        BY <1>4, <2>3, CallMoves
      <3>3. f.at = "polling" /\ g.at = "switch"
        BY DEF F
      <3> HIDE DEF f, g
      <3>4. DOMAIN fs = {1, 2} /\ fs[1] = f /\ fs[2] = g
        OBVIOUS
      <3> HIDE DEF fs
      <3> QED BY <1>2, <2>1, <2>2, <2>3, <3>1, <3>2, <3>3, <3>4
    <2>4. CASE ~Polling
      <3> DEFINE f == F("switch", op)
                 fs == <<f>>
      <3>1. is_in_poll' = is_in_poll
        BY <1>4, <2>4 DEF Switch
      <3>2. Shape(a, fs, 0)
        BY <1>4, <2>4, CallMoves
      <3>3. f.at = "switch"
        BY DEF F
      <3>4. Suits(a, f) /\ f.at \notin Sending
        BY <1>0, <2>1, <2>2, <3>3 DEF Suits, Plays, Telling, Sending
      <3> HIDE DEF f
      <3>5. DOMAIN fs = {1} /\ fs[1] = f
        OBVIOUS
      <3> HIDE DEF fs
      <3>6. \A i \in DOMAIN fs :
              /\ Suits(a, fs[i])
              /\ fs[i].at \in Sending =>
                   i = 1 /\ (mode = "uvPoll" /\ ~PollSends => Len(stack'[a]) = 1)
        BY <3>4, <3>5
      <3> QED BY <1>0, <2>1, <2>2, <3>1, <3>2, <3>6, LockKept
    <2> QED BY <2>3, <2>4
  <1> QED BY <1>3, <1>4

\* pc_client_cleanup is called when every thread is idle.
LEMMA LockCleanup ==
  ASSUME TypeOK, LockInv, NEW a \in Actors, Cleanup(a)
  PROVE  LockInv'
  <1>0. /\ StackOK /\ Worker \in Actors /\ Worker \notin Threads /\ Threads \subseteq Actors
        /\ a \in Threads /\ closing' = TRUE
        /\ UNCHANGED <<mode, is_in_poll, pending_ev, handlers, ended, wis>>
    BY TypeParts, ClientAssumption DEF Cleanup, setup, evVars, Actors
  <1> DEFINE f == F("join", None)
             fs == <<f>>
  <1>1. f.at = "join"
    BY DEF F
  <1>2. stack[a] = <<>> /\ Len(stack[a]) = 0 /\ Shape(a, fs, 0)
    BY CallMoves
  <1> HIDE DEF f
  <1>3. DOMAIN fs = {1} /\ fs[1] = f /\ Len(fs) = 1
    OBVIOUS
  <1> HIDE DEF fs
  <1>4. \A i \in DOMAIN fs :
          /\ Plays(a, fs[i])
          /\ fs[i].at \notin Sending \cup Telling \cup {"handler", "polling"}
    BY <1>0, <1>1, <1>3 DEF Plays, Telling, Sending
  <1>5. RoleInv'
    BY <1>0, <1>2, <1>4, RoleKept DEF LockInv
  <1>6. PollInv'
    <2>1. ~Polling => pending_ev' = <<>>
      BY <1>0 DEF LockInv, PollInv
    <2> QED BY <1>0, <1>2, <1>4, <2>1, PollKept DEF LockInv
  <1>7. HandlerInv'
    BY <1>0, <1>2, <1>4, HandlerKept DEF LockInv
  <1>8. CloseInv'
    <2>1. \A t \in Threads : stack[t] = <<>>
      BY <1>0, IdleStack DEF Cleanup
    <2>2. /\ \A b \in Actors \ {a} : stack'[b] = stack[b]
          /\ DOMAIN stack'[a] = 1..Len(stack'[a]) /\ Len(stack'[a]) = 1
          /\ stack'[a][1] = f
      <3>1. Len(stack'[a]) = Len(fs) + Len(stack[a]) - 0
        BY <1>0, <1>2, ShapeLen
      <3>2. /\ \A b \in Actors \ {a} : stack'[b] = stack[b]
            /\ DOMAIN stack'[a] = 1..Len(stack'[a])
        BY <1>0, <1>2, ShapeFacts
      <3>3. stack'[a][1] = f
        BY <1>0, <1>2, <1>3, FramesAfter
      <3> QED BY <1>2, <1>3, <3>1, <3>2, <3>3
    <2>3. Dummy' <=> Dummy
      BY <1>0 DEF Dummy
    <2>4. \A t, u \in Threads : stack'[t] # <<>> /\ stack'[u] # <<>> => t = u
      BY <1>0, <2>1, <2>2
    <2>5. Dummy' \/ ended' => wis' = {} /\ stack'[Worker] = <<>>
      BY <1>0, <2>2, <2>3 DEF LockInv, CloseInv
    <2>6. Holds(Worker, "exit")' =>
            wis' = {} /\ \A i \in DOMAIN stack'[Worker] : stack'[Worker][i].at \notin Sending
      <3>1. stack'[Worker] = stack[Worker]
        BY <1>0, <2>2
      <3>2. Holds(Worker, "exit")' <=> Holds(Worker, "exit")
        BY <3>1 DEF Holds
      <3> QED BY <1>0, <3>1, <3>2 DEF LockInv, CloseInv
    <2>7. ASSUME NEW b \in Actors, NEW i \in DOMAIN stack'[b]
          PROVE  LET at == stack'[b][i].at IN
                 /\ at \in {"join", "destroy", "exit"} => closing' /\ i = Len(stack'[b])
                 /\ closing' /\ b \in Threads =>
                      at \in Telling \cup {"join", "destroy", "polling"}
                 /\ at = "join" => i = 1
                 /\ at = "destroy" => (Dummy' \/ ended') /\ (i = 1 => pending_ev' = <<>>)
      <3>1. CASE b = a
        <4>1. i = 1 /\ stack'[b][i].at = "join"
          BY <1>1, <2>2, <3>1
        <4> QED BY <1>0, <2>2, <3>1, <4>1
      <3>2. CASE b # a
        <4>1. stack'[b] = stack[b] /\ b \notin Threads
          BY <2>1, <2>2, <3>2
        <4> QED BY <1>0, <2>3, <4>1 DEF LockInv, CloseInv
      <3> QED BY <3>1, <3>2
    <2> QED BY <1>0, <2>4, <2>5, <2>6, <2>7 DEF CloseInv
  <1> QED BY <1>5, <1>6, <1>7, <1>8 DEF LockInv


\* The transport is gone: the last poll, or none.
LEMMA LockJoin ==
  ASSUME TypeOK, LockInv, NEW a \in Actors, Join(a)
  PROVE  /\ LockInv'
         /\ \E fs : /\ Shape(a, fs, 1)
                    /\ \A i \in DOMAIN fs : fs[i].at \in {"polling", "destroy"}
  <1>0. /\ At(a) = "join" /\ (Dummy \/ ended)
        /\ is_in_poll' = (LastPoll # <<>>)
        /\ stack' = [stack EXCEPT ![a] = LastPoll \o <<F("destroy", None)>>]
        /\ UNCHANGED <<mode, pending_ev, handlers, closing, ended, wis>>
    BY DEF Join, setup, trVars
  <1>1. /\ StackOK /\ Plays(a, stack[a][1]) /\ At(a) = stack[a][1].at /\ stack[a] # <<>>
        /\ 1 \in DOMAIN stack[a]
    BY <1>0, TopRole
  <1>2. /\ Worker \in Actors /\ Worker \notin Threads /\ Threads \subseteq Actors
        /\ a \in Threads /\ a # Worker
    BY <1>0, <1>1, ClientAssumption DEF Plays, Actors
  <1>3. closing /\ Len(stack[a]) = 1
    BY <1>0, <1>1 DEF LockInv, CloseInv
  <1>4. \A b \in Actors \ {a} : stack[b] = <<>> /\ ~Holds(b, "polling")
    <2> SUFFICES ASSUME NEW b \in Actors \ {a} PROVE stack[b] = <<>> /\ ~Holds(b, "polling")
      OBVIOUS
    <2>1. stack[b] = <<>>
      BY <1>0, <1>1, <1>2, <1>3 DEF LockInv, CloseInv, Actors
    <2>2. DOMAIN <<>> = {}
      OBVIOUS
    <2> QED BY <2>1, <2>2 DEF Holds
  <1>5. ~Holds(a, "polling")
    <2>1. DOMAIN stack[a] = 1..1
      BY <1>1, <1>3, StackLen
    <2> QED BY <1>0, <1>1, <2>1 DEF Holds
  <1>6. is_in_poll = FALSE
    BY <1>4, <1>5 DEF LockInv, PollInv, TypeOK
  <1> DEFINE f == F("polling", None)
             g == F("destroy", None)
             fs == LastPoll \o <<g>>
  <1>7. f \in Frames /\ g \in Frames /\ f.at = "polling" /\ g.at = "destroy"
    <2>1. f \in Frames /\ g \in Frames
      BY FrameMade
    <2> QED BY <2>1 DEF F
  <1>8. /\ Polling => fs = <<f, g>> /\ LastPoll # <<>>
        /\ ~Polling => fs = <<g>> /\ LastPoll = <<>>
    <2>1. CASE Polling
      <3>1. LastPoll = <<f>>
        BY <2>1 DEF LastPoll
      <3>2. <<f>> \o <<g>> = <<f, g>>
        BY <1>7, PairOfFrames
      <3>3. <<f>> # <<>>
        OBVIOUS
      <3> QED BY <2>1, <3>1, <3>2, <3>3
    <2>2. CASE ~Polling
      <3>1. LastPoll = <<>>
        BY <2>2 DEF LastPoll
      <3>2. <<>> \o <<g>> = <<g>>
        BY <1>7, ConcatEmptySeq
      <3> QED BY <2>2, <3>1, <3>2
    <2> QED BY <2>1, <2>2
  <1> HIDE DEF f, g
  <1>9. /\ Polling => Len(fs) = 2 /\ DOMAIN fs = {1, 2} /\ fs[1] = f /\ fs[2] = g
        /\ ~Polling => Len(fs) = 1 /\ DOMAIN fs = {1} /\ fs[1] = g
        /\ fs \in Seq(Frames)
    <2> HIDE DEF fs
    <2>1. CASE Polling
      <3>1. fs = <<f, g>>
        BY <1>8, <2>1
      <3> QED BY <1>7, <2>1, <3>1
    <2>2. CASE ~Polling
      <3>1. fs = <<g>>
        BY <1>8, <2>2
      <3> QED BY <1>7, <2>2, <3>1
    <2> QED BY <2>1, <2>2
  <1>10. Shape(a, fs, 1)
    <2>1. stack' = [stack EXCEPT ![a] = fs]
      BY <1>0 DEF g
    <2> HIDE DEF fs
    <2> QED BY <1>1, <1>3, <1>9, <2>1, OnlyFrame
  <1> HIDE DEF fs
  <1>11. \A i \in DOMAIN fs :
           /\ Plays(a, fs[i])
           /\ fs[i].at \notin Sending \cup Telling \cup {"handler"}
           /\ fs[i].at \in {"polling", "destroy"}
    <2> SUFFICES ASSUME NEW i \in DOMAIN fs
                 PROVE  /\ Plays(a, fs[i])
                        /\ fs[i].at \notin Sending \cup Telling \cup {"handler"}
                        /\ fs[i].at \in {"polling", "destroy"}
      OBVIOUS
    <2>1. fs[i].at = "destroy" \/ (fs[i].at = "polling" /\ Polling)
      BY <1>7, <1>9
    <2> QED BY <1>2, <2>1 DEF Plays, Telling, Sending
  <1>12. RoleInv'
    BY <1>0, <1>10, <1>11, RoleKept DEF LockInv
  <1>13. HandlerInv'
    BY <1>0, <1>10, <1>11, HandlerKept DEF LockInv
  <1>14. PollInv'
    <2>1. CASE Polling
      <3>1. is_in_poll' = TRUE
        BY <1>0, <1>8, <2>1
      <3>2. /\ 1 \in DOMAIN fs /\ fs[1].at = "polling"
            /\ \A i \in DOMAIN fs : i # 1 => fs[i].at \in {"switch", "destroy"}
        BY <1>7, <1>9, <2>1
      <3>3. UNCHANGED <<mode, pending_ev>>
        BY <1>0
      <3> QED BY <1>3, <1>4, <1>10, <2>1, <3>1, <3>2, <3>3, PollStarts DEF LockInv
    <2>2. CASE ~Polling
      <3>1. is_in_poll' = is_in_poll
        BY <1>0, <1>6, <1>8, <2>2
      <3>2. \A i \in DOMAIN fs : fs[i].at = "destroy"
        BY <1>7, <1>9, <2>2
      <3>3. pending_ev' = <<>>
        BY <1>0, <2>2 DEF LockInv, PollInv
      <3>4. \A i \in DOMAIN fs :
              /\ fs[i].at # "polling"
              /\ Polling /\ fs[i].at \in Telling => Holds(a, "polling")
        BY <2>2, <3>2
      <3>5. stack[a][1].at # "polling" /\ UNCHANGED <<mode, is_in_poll>>
        BY <1>0, <1>1, <3>1
      <3> QED BY <1>10, <3>3, <3>4, <3>5, PollKept DEF LockInv
    <2> QED BY <2>1, <2>2
  <1>15. CloseInv'
    <2>1. Dummy' <=> Dummy
      BY <1>0 DEF Dummy
    <2>2. /\ \A b \in Actors \ {a} : stack'[b] = <<>>
          /\ DOMAIN stack'[a] = DOMAIN fs /\ Len(stack'[a]) = Len(fs)
          /\ \A i \in DOMAIN fs : stack'[a][i] = fs[i]
      <3>1. stack' = [stack EXCEPT ![a] = fs]
        BY <1>0 DEF fs, g
      <3> QED BY <1>1, <1>4, <3>1 DEF StackOK
    <2>3. closing' => \A t, u \in Threads : stack'[t] # <<>> /\ stack'[u] # <<>> => t = u
      BY <1>2, <2>2
    <2>4. wis' = {} /\ stack'[Worker] = <<>>
      BY <1>0, <1>2, <2>2 DEF LockInv, CloseInv
    <2>5. ~Holds(Worker, "exit")'
      <3>1. DOMAIN <<>> = {}
        OBVIOUS
      <3> QED BY <2>4, <3>1 DEF Holds
    <2>6. ASSUME NEW b \in Actors, NEW i \in DOMAIN stack'[b]
          PROVE  LET at == stack'[b][i].at IN
                 /\ at \in {"join", "destroy", "exit"} => closing' /\ i = Len(stack'[b])
                 /\ closing' /\ b \in Threads =>
                      at \in Telling \cup {"join", "destroy", "polling"}
                 /\ at = "join" => i = 1
                 /\ at = "destroy" => (Dummy' \/ ended') /\ (i = 1 => pending_ev' = <<>>)
      <3>1. b = a /\ i \in DOMAIN fs /\ stack'[b][i] = fs[i] /\ Len(stack'[b]) = Len(fs)
        <4>1. DOMAIN <<>> = {}
          OBVIOUS
        <4> QED BY <2>2, <4>1
      <3>2. CASE Polling
        BY <1>0, <1>3, <1>7, <1>9, <2>1, <3>1, <3>2
      <3>3. CASE ~Polling
        <4>1. pending_ev' = <<>>
          BY <1>0, <3>3 DEF LockInv, PollInv
        <4> QED BY <1>0, <1>3, <1>7, <1>9, <2>1, <3>1, <3>3, <4>1
      <3> QED BY <3>2, <3>3
    <2> QED BY <1>0, <1>3, <2>1, <2>3, <2>4, <2>5, <2>6 DEF CloseInv
  <1>16. LockInv'
    BY <1>12, <1>13, <1>14, <1>15 DEF LockInv
  <1> QED BY <1>10, <1>11, <1>16


\* The worker's thread ends.
LEMMA LockExit ==
  ASSUME TypeOK, LockInv, NEW a \in Actors, Exit(a)
  PROVE  LockInv'
  <1>0. /\ At(a) = "exit" /\ ended' = TRUE /\ Shape(a, <<>>, 1)
        /\ UNCHANGED <<mode, is_in_poll, pending_ev, handlers, closing, wis>>
    BY StepMoves DEF Exit, setup, evVars
  <1>1. /\ StackOK /\ Plays(a, stack[a][1]) /\ At(a) = stack[a][1].at /\ stack[a] # <<>>
        /\ 1 \in DOMAIN stack[a]
    BY <1>0, TopRole
  <1>2. /\ a = Worker /\ Worker \notin Threads /\ Threads \subseteq Actors
        /\ Holds(Worker, "exit")
    BY <1>0, <1>1, ClientAssumption DEF Plays, Actors, Holds
  <1>3. closing /\ wis = {} /\ Len(stack[a]) = 1
    BY <1>0, <1>1, <1>2 DEF LockInv, CloseInv
  <1>4. DOMAIN <<>> = {} /\ Len(<<>>) = 0
    OBVIOUS
  <1>5. RoleInv'
    BY <1>0, <1>4, RoleKept DEF LockInv
  <1>6. PollInv'
    <2>1. ~Polling => pending_ev' = <<>>
      BY <1>0 DEF LockInv, PollInv
    <2>2. stack[a][1].at # "polling"
      BY <1>0, <1>1
    <2> QED BY <1>0, <1>4, <2>1, <2>2, PollKept DEF LockInv
  <1>7. HandlerInv'
    BY <1>0, <1>4, HandlerKept DEF LockInv
  <1>8. CloseInv'
    <2>1. Dummy' <=> Dummy
      BY <1>0 DEF Dummy
    <2>2. /\ \A b \in Actors \ {a} : stack'[b] = stack[b]
          /\ stack'[Worker] = <<>>
      <3>1. stack'[a] \in Seq(Frames) /\ \A b \in Actors \ {a} : stack'[b] = stack[b]
        BY <1>0, <1>1, ShapeFacts DEF StackOK
      <3>2. Len(stack'[a]) = Len(<<>>) + Len(stack[a]) - 1
        BY <1>0, <1>1, ShapeLen
      <3>3. Len(stack'[a]) = 0
        BY <1>3, <1>4, <3>2
      <3> QED BY <1>2, <3>1, <3>3, EmptySeq
    <2>3. \A t, u \in Threads : stack'[t] # <<>> /\ stack'[u] # <<>> => t = u
      BY <1>2, <1>3, <2>2 DEF LockInv, CloseInv
    <2>4. ~Holds(Worker, "exit")'
      BY <1>4, <2>2 DEF Holds
    <2>5. ASSUME NEW b \in Actors, NEW i \in DOMAIN stack'[b]
          PROVE  LET at == stack'[b][i].at IN
                 /\ at \in {"join", "destroy", "exit"} => closing' /\ i = Len(stack'[b])
                 /\ closing' /\ b \in Threads =>
                      at \in Telling \cup {"join", "destroy", "polling"}
                 /\ at = "join" => i = 1
                 /\ at = "destroy" => (Dummy' \/ ended') /\ (i = 1 => pending_ev' = <<>>)
      <3>1. b # a
        BY <1>2, <1>4, <2>2
      <3>2. stack'[b] = stack[b]
        BY <2>2, <3>1
      <3> QED BY <1>0, <2>1, <3>2 DEF LockInv, CloseInv
    <2> QED BY <1>0, <1>3, <2>2, <2>3, <2>4, <2>5 DEF CloseInv
  <1> QED BY <1>5, <1>6, <1>7, <1>8 DEF LockInv

\* The client is destroyed: nobody else is in a function of it.
LEMMA DestroyAlone ==
  ASSUME TypeOK, LockInv, NEW a \in Actors, At(a) = "destroy"
  PROVE  /\ a \in Threads /\ Len(stack[a]) = 1 /\ stack[a][1].at = "destroy"
         /\ \A b \in Actors \ {a} : stack[b] = <<>>
         /\ wis = {} /\ pending_ev = <<>>
  <1>1. /\ StackOK /\ Plays(a, stack[a][1]) /\ At(a) = stack[a][1].at /\ stack[a] # <<>>
        /\ 1 \in DOMAIN stack[a]
    BY TopRole
  <1>2. a \in Threads /\ Threads \subseteq Actors
    BY <1>1 DEF Plays, Actors
  <1>3. closing /\ Len(stack[a]) = 1 /\ pending_ev = <<>> /\ (Dummy \/ ended)
    BY <1>1 DEF LockInv, CloseInv
  <1>4. wis = {} /\ stack[Worker] = <<>>
    BY <1>3 DEF LockInv, CloseInv
  <1>5. \A b \in Actors \ {a} : stack[b] = <<>>
    BY <1>1, <1>2, <1>3, <1>4 DEF LockInv, CloseInv, Actors
  <1> QED BY <1>1, <1>2, <1>3, <1>4, <1>5

LEMMA LockDestroy ==
  ASSUME TypeOK, LockInv, NEW a \in Actors, Destroy(a)
  PROVE  LockInv'
  <1>0. /\ At(a) = "destroy"
        /\ UNCHANGED <<mode, is_in_poll, pending_ev, closing, ended, wis>>
    BY DEF Destroy, setup, evVars, trVars
  <1>1. CASE UNCHANGED <<stack, handlers>>
    BY <1>0, <1>1 DEF LockInv, RoleInv, PollInv, HandlerInv, CloseInv, Plays, Holds,
                      Polling, Dummy
  <1>2. CASE Shape(a, <<>>, 1)
    <2>1. /\ a \in Threads /\ Len(stack[a]) = 1 /\ stack[a][1].at = "destroy"
          /\ \A b \in Actors \ {a} : stack[b] = <<>>
          /\ wis = {} /\ pending_ev = <<>>
      BY <1>0, DestroyAlone
    <2>2. StackOK /\ DOMAIN <<>> = {} /\ Len(<<>>) = 0 /\ a # Worker /\ stack[a] # <<>>
      BY <1>0, TopRole, <2>1, ClientAssumption
    <2>3. RoleInv'
      BY <1>0, <1>2, <2>2, RoleKept DEF LockInv
    <2>4. PollInv'
      <3>1. stack[a][1].at # "polling" /\ pending_ev' = <<>>
        BY <1>0, <2>1
      <3> QED BY <1>0, <1>2, <2>2, <3>1, PollKept DEF LockInv
    <2>5. CloseInv'
      BY <1>0, <1>2, <2>1, <2>2, CloseKept DEF LockInv
    <2>6. \A b \in Actors : DOMAIN stack'[b] = {}
      <3>1. DOMAIN stack'[a] = 1..Len(stack'[a]) /\ \A b \in Actors \ {a} : stack'[b] = stack[b]
        BY <1>2, <2>2, ShapeFacts
      <3>2. Len(stack'[a]) = Len(<<>>) + Len(stack[a]) - 1
        BY <1>2, <2>2, ShapeLen
      <3> QED BY <2>1, <2>2, <3>1, <3>2
    <2>7. HandlerInv'
      BY <2>6 DEF HandlerInv, Holds
    <2> QED BY <2>3, <2>4, <2>5, <2>7 DEF LockInv
  <1> QED BY <1>1, <1>2, StepMoves

\* A step of the worker's loop
LEMMA LockWorker ==
  ASSUME TypeOK, LockInv,
         \/ \E w \in wis : Response(w)
         \/ \E I \in SUBSET wis, reset \in BOOLEAN : Sweep(I, reset)
         \/ Push \/ CleanupAsync
  PROVE  LockInv'
  <1>0. /\ WorkerIdle /\ StackOK /\ Worker \in Actors /\ Worker \notin Threads
        /\ ~Dummy /\ ~ended /\ stack[Worker] = <<>> /\ Len(stack[Worker]) = 0
        /\ UNCHANGED <<mode, is_in_poll, pending_ev, handlers, closing, ended>>
        /\ wis' \subseteq wis
    <2>1. WorkerIdle
      BY DEF Response, Sweep, Push, CleanupAsync
    <2>2. /\ UNCHANGED <<mode, is_in_poll, pending_ev, handlers, closing, ended>>
          /\ wis' \subseteq wis
      BY DEF Response, Sweep, Push, CleanupAsync, setup, evVars, trVars
    <2> QED BY <2>1, <2>2, WorkerMoves, TypeParts, ClientAssumption DEF WorkerIdle
  <1>1. ASSUME NEW fs, Shape(Worker, fs, 0),
               \A i \in DOMAIN fs :
                 fs[i].at \in {"drop", "sweep", IF Polling THEN "queueEvent" ELSE "deliver"}
        PROVE  LockInv'
    <2>1. \A i \in DOMAIN fs :
            /\ Suits(Worker, fs[i])
            /\ fs[i].at \in Sending =>
                 i = 1 /\ (mode = "uvPoll" /\ ~PollSends => Len(stack'[Worker]) = 1)
      BY <1>0, <1>1 DEF Suits, Plays, Telling, Sending
    <2> QED BY <1>0, <1>1, <2>1, LockKept
  <1>2. ASSUME NEW w \in wis, Response(w) PROVE LockInv'
    <2> DEFINE f == Tell(w)
               g == F("drop", w)
               fs == <<f, g>>
    <2>1. w \in Messages /\ Shape(Worker, fs, 0)
      BY <1>2, WorkerMoves
    <2>2. f.at = (IF Polling THEN "queueEvent" ELSE "deliver") /\ g.at = "drop"
      BY <2>1, TellFrame DEF F
    <2> HIDE DEF f, g
    <2>3. DOMAIN fs = {1, 2} /\ fs[1] = f /\ fs[2] = g
      OBVIOUS
    <2> HIDE DEF fs
    <2> QED BY <1>1, <2>1, <2>2, <2>3
  <1>3. ASSUME NEW I \in SUBSET wis, NEW reset \in BOOLEAN, Sweep(I, reset) PROVE LockInv'
    <2> DEFINE f == F("sweep", I)
               fs == <<f>>
    <2>1. f.at = "sweep" /\ Shape(Worker, fs, 0)
      BY <1>3, WorkerMoves DEF F
    <2> HIDE DEF f
    <2>2. DOMAIN fs = {1} /\ fs[1] = f
      OBVIOUS
    <2> HIDE DEF fs
    <2> QED BY <1>1, <2>1, <2>2
  <1>4. ASSUME Push PROVE LockInv'
    <2> DEFINE m == Item("net", "PUSH")
               f == Tell(m)
               fs == <<f>>
    <2>1. m \in Messages /\ Shape(Worker, fs, 0)
      BY <1>4, WorkerMoves
    <2>2. f.at = IF Polling THEN "queueEvent" ELSE "deliver"
      BY <2>1, TellFrame
    <2> HIDE DEF f
    <2>3. DOMAIN fs = {1} /\ fs[1] = f
      OBVIOUS
    <2> HIDE DEF fs
    <2> QED BY <1>1, <2>1, <2>2, <2>3
  <1>5. ASSUME CleanupAsync PROVE LockInv'
    <2> DEFINE f == F("sweep", wis)
               g == F("exit", None)
               fs == <<f, g>>
    <2>1. Shape(Worker, fs, 0) /\ f.at = "sweep" /\ g.at = "exit"
      BY <1>5, WorkerMoves DEF F
    <2>2. closing /\ wis' = {}
      BY <1>5 DEF CleanupAsync
    <2> HIDE DEF f, g
    <2>3. DOMAIN fs = {1, 2} /\ fs[1] = f /\ fs[2] = g /\ Len(fs) = 2
      OBVIOUS
    <2> HIDE DEF fs
    <2>4. \A i \in DOMAIN fs :
            /\ Plays(Worker, fs[i])
            /\ fs[i].at \notin Sending \cup Telling \cup {"handler", "polling"}
      BY <2>1, <2>3 DEF Plays, Telling, Sending
    <2>5. RoleInv'
      BY <1>0, <2>1, <2>4, RoleKept DEF LockInv
    <2>6. PollInv'
      <3>1. ~Polling => pending_ev' = <<>>
        BY <1>0 DEF LockInv, PollInv
      <3> QED BY <1>0, <2>1, <2>4, <3>1, PollKept DEF LockInv
    <2>7. HandlerInv'
      BY <1>0, <2>1, <2>4, HandlerKept DEF LockInv
    <2>8. CloseInv'
      <3>1. Dummy' <=> Dummy
        BY <1>0 DEF Dummy
      <3>2. /\ \A b \in Actors \ {Worker} : stack'[b] = stack[b]
            /\ DOMAIN stack'[Worker] = 1..Len(stack'[Worker])
        BY <1>0, <2>1, ShapeFacts
      <3>3. /\ Len(stack'[Worker]) = 2
            /\ stack'[Worker][1] = f /\ stack'[Worker][2] = g
        <4>1. Len(stack'[Worker]) = Len(fs) + Len(stack[Worker]) - 0
          BY <1>0, <2>1, ShapeLen
        <4>2. stack'[Worker][1] = f /\ stack'[Worker][2] = g
          BY <1>0, <2>1, <2>3, FramesAfter
        <4> QED BY <1>0, <2>3, <4>1, <4>2
      <3>4. \A i \in DOMAIN stack'[Worker] :
              (i = 1 /\ stack'[Worker][i].at = "sweep") \/ (i = 2 /\ stack'[Worker][i].at = "exit")
        BY <2>1, <3>2, <3>3
      <3>5. \A t, u \in Threads : stack'[t] # <<>> /\ stack'[u] # <<>> => t = u
        BY <1>0, <2>2, <3>2 DEF LockInv, CloseInv, Actors
      <3>6. ASSUME NEW b \in Actors, NEW i \in DOMAIN stack'[b]
            PROVE  LET at == stack'[b][i].at IN
                   /\ at \in {"join", "destroy", "exit"} => closing' /\ i = Len(stack'[b])
                   /\ closing' /\ b \in Threads =>
                        at \in Telling \cup {"join", "destroy", "polling"}
                   /\ at = "join" => i = 1
                   /\ at = "destroy" => (Dummy' \/ ended') /\ (i = 1 => pending_ev' = <<>>)
        <4>1. CASE b = Worker
          BY <1>0, <2>2, <3>3, <3>4, <4>1
        <4>2. CASE b # Worker
          <5>1. stack'[b] = stack[b]
            BY <3>2, <4>2
          <5> QED BY <1>0, <3>1, <5>1 DEF LockInv, CloseInv
        <4> QED BY <4>1, <4>2
      <3>7. \A i \in DOMAIN stack'[Worker] : stack'[Worker][i].at \notin Sending
        BY <3>4 DEF Sending
      <3> QED BY <1>0, <2>2, <3>1, <3>5, <3>6, <3>7 DEF CloseInv
    <2> QED BY <2>5, <2>6, <2>7, <2>8 DEF LockInv
  <1> QED BY <1>2, <1>3, <1>4, <1>5


\* A request or a notification is issued.
LEMMA LockAllocate ==
  ASSUME TypeOK, LockInv, NEW a \in Actors, NEW r \in Calls, Allocate(a, r)
  PROVE  LockInv'
  <1>0. /\ MayCall(a) /\ ~closing /\ StackOK
        /\ (InCallback(a) /\ mode = "uvPoll") => PollSends
        /\ UNCHANGED <<mode, is_in_poll, pending_ev, handlers, closing, ended, wis>>
    BY TypeParts DEF Allocate, MayCall, setup, evVars, trVars
  <1>1. CASE UNCHANGED stack
    BY <1>0, <1>1 DEF LockInv, RoleInv, PollInv, HandlerInv, CloseInv, Plays, Holds,
                      Polling, Dummy
  <1>2. CASE Shape(a, <<F("send", r)>>, 0)
    <2> DEFINE f == F("send", r)
               fs == <<f>>
    <2>1. f.at = "send" /\ Shape(a, fs, 0)
      BY <1>2 DEF F
    <2> HIDE DEF f
    <2>2. DOMAIN fs = {1} /\ fs[1] = f /\ Len(fs) = 1
      OBVIOUS
    <2> HIDE DEF fs
    <2>3. Worker \in Actors /\ ~Holds(Worker, "exit")
      <3>1. Worker \in Actors
        BY DEF Actors
      <3> QED BY <1>0, <3>1 DEF LockInv, CloseInv, Holds
    <2>4. Suits(a, f)
      BY <1>0, <2>1, <2>3 DEF Suits, Plays, Telling
    <2>5. CASE InCallback(a)
      <3>1. At(a) \in {"cb", "handler"}
        BY <2>5 DEF InCallback
      <3>2. /\ At(a) = stack[a][1].at
            /\ a = Worker => ~Dummy /\ ~ended
        BY <3>1, TopRole
      <3>3. \A i \in DOMAIN fs :
              /\ Suits(a, fs[i])
              /\ fs[i].at \in Sending =>
                   i = 1 /\ (mode = "uvPoll" /\ ~PollSends => Len(stack'[a]) = 1)
        BY <1>0, <2>2, <2>4, <2>5
      <3>4. stack[a][1].at \notin Sending \cup {"join"} /\ wis' \subseteq wis
        BY <1>0, <3>1, <3>2 DEF Sending
      <3> QED BY <1>0, <2>1, <3>2, <3>3, <3>4, LockKept
    <2>6. CASE ~InCallback(a)
      <3>1. a \in Threads /\ stack[a] = <<>> /\ Len(stack[a]) = 0 /\ a # Worker
        BY <1>0, <2>6, IdleStack, ClientAssumption DEF MayCall
      <3>2. Len(stack'[a]) = 1
        <4>1. Len(stack'[a]) = Len(fs) + Len(stack[a]) - 0
          BY <1>0, <2>1, ShapeLen
        <4> QED BY <2>2, <3>1, <4>1
      <3>3. \A i \in DOMAIN fs :
              /\ Suits(a, fs[i])
              /\ fs[i].at \in Sending =>
                   i = 1 /\ (mode = "uvPoll" /\ ~PollSends => Len(stack'[a]) = 1)
        BY <2>2, <2>4, <3>2
      <3> QED BY <1>0, <2>1, <3>1, <3>3, LockKept
    <2> QED BY <2>5, <2>6
  <1> QED BY <1>1, <1>2, CallMoves

\* Handlers are added and removed under handler_mutex: those that a walk is
\* in stay.
LEMMA LockHandlers ==
  ASSUME TypeOK, LockInv, NEW a \in Actors, NEW h \in Handlers,
         AddHandler(a, h) \/ RemoveHandler(a, h)
  PROVE  LockInv'
  <1>0. UNCHANGED <<mode, stack, is_in_poll, pending_ev, closing, ended, wis>>
    BY DEF AddHandler, RemoveHandler, setup, evVars, trVars
  <1>1. RoleInv' /\ PollInv' /\ CloseInv'
    BY <1>0 DEF LockInv, RoleInv, PollInv, CloseInv, Plays, Holds, Polling, Dummy
  <1>2. EvOK /\ StackOK
    BY TypeParts
  <1>3. ASSUME NEW b \in Actors, NEW i \in DOMAIN stack[b], stack[b][i].at = "handler"
        PROVE  stack[b][i].x \in Range(handlers')
    <2>1. stack[b][i].x \in Range(handlers)
      BY <1>3 DEF LockInv, HandlerInv
    <2>2. CASE AddHandler(a, h)
      <3>1. PICK j \in DOMAIN handlers : handlers[j] = stack[b][i].x
        BY <2>1 DEF Range
      <3>2. /\ handlers' = Append(handlers, h) /\ handlers \in Seq(Handlers)
        BY <1>2, <2>2 DEF AddHandler, EvOK
      <3>3. j \in DOMAIN handlers' /\ handlers'[j] = handlers[j]
        BY <3>1, <3>2, AppendProperties, LenProperties
      <3> QED BY <3>1, <3>3 DEF Range
    <2>3. CASE RemoveHandler(a, h)
      <3>1. /\ FreeFor(a, "handler")
            /\ \A j \in DOMAIN stack[a] : stack[a][j] # F("handler", h)
        BY <2>3 DEF RemoveHandler, CanRemove
      <3>2. b = a
        BY <1>3, <3>1 DEF FreeFor, Holds
      <3>3. stack[b][i] = F("handler", stack[b][i].x)
        <4>1. stack[b][i] \in Frames
          BY <1>2, StackLen
        <4> QED BY <1>3, <4>1, FrameArg
      <3>4. stack[b][i].x # h
        BY <3>1, <3>2, <3>3
      <3>5. PICK j \in DOMAIN handlers : handlers[j] = h /\ handlers' = RemoveAt(handlers, j)
        BY <2>3 DEF RemoveHandler
      <3>6. stack[b][i].x \in Range(handlers) \ {handlers[j]}
        BY <2>1, <3>4, <3>5
      <3> QED BY <1>2, <3>5, <3>6, HandlerRemoved
    <2> QED BY <2>2, <2>3
  <1>4. HandlerInv'
    BY <1>0, <1>3 DEF LockInv, HandlerInv, Holds
  <1> QED BY <1>1, <1>4 DEF LockInv

LEMMA LockInit == Init => LockInv
  <1> SUFFICES ASSUME Init PROVE LockInv
    OBVIOUS
  <1>1. DOMAIN <<>> = {}
    OBVIOUS
  <1>2. \A a \in Actors : stack[a] = <<>> /\ DOMAIN stack[a] = {}
    BY <1>1 DEF Init
  <1>3. RoleInv /\ HandlerInv
    BY <1>2 DEF RoleInv, HandlerInv, Holds
  <1>4. PollInv
    BY <1>2 DEF Init, PollInv, Holds
  <1>5. CloseInv
    BY <1>2 DEF Init, CloseInv, Holds, Actors
  <1> QED BY <1>3, <1>4, <1>5 DEF LockInv

LEMMA LockStep == TypeOK /\ LockInv /\ [Next]_vars => LockInv'
  <1> SUFFICES ASSUME TypeOK, LockInv, [Next]_vars PROVE LockInv'
    OBVIOUS
  <1>1. ASSUME NEW a \in Actors, Step(a) PROVE LockInv'
    BY <1>1, LockSend, LockTell, LockWork, LockQueue, LockPollStep, LockExit, LockJoin,
       LockDestroy DEF Step
  <1>2. ASSUME NEW a \in Actors, ApiCall(a) PROVE LockInv'
    BY <1>2, LockAllocate, LockHandlers, LockPoll, LockCleanup DEF ApiCall
  <1>3. CASE Reconnected \/ UNCHANGED vars
    <2>1. UNCHANGED <<mode, stack, is_in_poll, pending_ev, handlers, closing, ended, wis>>
      BY <1>3 DEF Reconnected, vars, setup, evVars, trVars
    <2> QED BY <2>1 DEF LockInv, RoleInv, PollInv, HandlerInv, CloseInv, Plays, Holds,
                        Polling, Dummy
  <1> QED BY <1>1, <1>2, <1>3, NextCases, LockWorker

LEMMA LocksHold == Spec => [](TypeOK /\ LockInv)
  <1>1. Init => TypeOK /\ LockInv
    BY TypeInit, LockInit
  <1>2. TypeOK /\ LockInv /\ [Next]_vars => (TypeOK /\ LockInv)'
    BY TypeStep, LockStep
  <1> QED BY <1>1, <1>2, PTL DEF Spec


(***************************************************************************)
(* What follows from it                                                    *)
(***************************************************************************)

\* What stops the process, and when
LEMMA FaultCases ==
  ASSUME TypeOK, LockInv, [Next]_vars
  PROVE  \/ UNCHANGED fault
         \/ fault' \in NetEvents
         \/ /\ fault' = "slotAssert"
            /\ \E r \in Calls : FirstIdle(kind[r]) # None /\ slot[FirstIdle(kind[r])].who # None
         \/ /\ fault' = "queueAssert"
            /\ queue["resp"] # {} \/ queue["sent"] # {}
            /\ \E a \in Actors : At(a) = "destroy"
  <1>1. ASSUME NEW a \in Actors, Step(a), ~UNCHANGED fault
        PROVE  \/ fault' \in NetEvents
               \/ /\ fault' = "queueAssert" /\ At(a) = "destroy"
                  /\ queue["resp"] # {} \/ queue["sent"] # {}
    <2>1. FireEvent(a) \/ EndHandler(a) \/ Destroy(a)
      BY <1>1 DEF Step, SendDummy, SendUv, Enqueue, Undo, Deliver, EndCallback, SetIdle,
                  QueueEvent, Walk, PollStep, SwitchStep, Drop, SweepStep, Exit, Join
    <2>2. CASE FireEvent(a)
      <3>1. At(a) = "deliver" /\ Arg(a).kind = "net" /\ fault' = Arg(a).val /\ Arg(a).val # "PUSH"
        BY <1>1, <2>2 DEF FireEvent, Crash
      <3>2. Arg(a) \in Messages
        BY <3>1, TopRole, FrameArg
      <3> QED BY <3>1, <3>2 DEF Messages
    <2>3. CASE EndHandler(a)
      <3>1. Arg(a) \in Range(handlers)
        BY <2>3, TopRole DEF EndHandler
      <3> QED BY <1>1, <2>3, <3>1 DEF EndHandler
    <2>4. CASE Destroy(a)
      BY <1>1, <2>4 DEF Destroy, Crash
    <2> QED BY <2>1, <2>2, <2>3, <2>4
  <1>2. ASSUME NEW a \in Actors, ApiCall(a), ~UNCHANGED fault
        PROVE  /\ fault' = "slotAssert"
               /\ \E r \in Calls : FirstIdle(kind[r]) # None /\ slot[FirstIdle(kind[r])].who # None
    <2>1. PICK r \in Calls : Allocate(a, r)
      BY <1>2 DEF ApiCall, AddHandler, RemoveHandler, Switch, Poll, Cleanup
    <2> QED BY <1>2, <2>1 DEF Allocate, Crash
  <1>3. ASSUME \/ \E w \in wis : Response(w)
               \/ \E I \in SUBSET wis, reset \in BOOLEAN : Sweep(I, reset)
               \/ Push \/ Reconnected \/ CleanupAsync
               \/ UNCHANGED vars
        PROVE  UNCHANGED fault
    BY <1>3 DEF Response, Sweep, Push, Reconnected, CleanupAsync, vars
  <1> QED BY <1>1, <1>2, <1>3, NextCases

\* Whoever adds and removes handlers, and from whichever callback: the walk
\* of pc__trans_fire_event never reads the link of a handler that has been
\* freed.
THEOREM HandlersNotFreed == Spec => []NoFreedHandler
  <1>1. Init => NoFreedHandler
    BY ClientAssumption DEF Init, NoFreedHandler, Faults
  <1>2. TypeOK /\ LockInv /\ NoFreedHandler /\ [Next]_vars => NoFreedHandler'
    <2> SUFFICES ASSUME TypeOK, LockInv, NoFreedHandler, [Next]_vars PROVE NoFreedHandler'
      OBVIOUS
    <2>1. fault' = fault \/ fault' \in NetEvents \cup {"slotAssert", "queueAssert"}
      BY FaultCases
    <2> QED BY <2>1 DEF NoFreedHandler, NetEvents
  <1> QED BY <1>1, <1>2, LocksHold, PTL DEF Spec

\* A thread in pc_client_poll waits for nobody, if the callbacks that it runs
\* do not send.
LEMMA PollerGoesOn ==
  ASSUME TypeOK, LockInv, ~PollSends, NEW p \in Actors, Holds(p, "polling"),
         NEW b \in Actors
  PROVE  ~WaitsFor(p, b)
  <1> SUFFICES ASSUME WaitsFor(p, b) PROVE FALSE
    OBVIOUS
  <1>1. At(p) \in {"enqueue", "queueEvent", "walk", "join"} /\ b # p
    BY DEF WaitsFor
  <1>2. /\ StackOK /\ At(p) = stack[p][1].at /\ 1 \in DOMAIN stack[p]
        /\ Plays(p, stack[p][1])
    BY <1>1, TopRole
  <1>3. PICK i \in DOMAIN stack[p] : stack[p][i].at = "polling"
    BY DEF Holds
  <1>4. i # 1 /\ Len(stack[p]) # 1
    BY <1>1, <1>2, <1>3, StackLen
  <1>5. Polling
    BY <1>3 DEF LockInv, RoleInv, Plays
  <1>6. CASE At(p) = "enqueue"
    <2>1. ~Dummy
      BY <1>2, <1>6 DEF Plays
    <2>2. mode = "uvPoll"
      BY <1>5, <2>1 DEF Polling, Dummy
    <2> QED BY <1>2, <1>4, <1>6, <2>2 DEF LockInv, RoleInv, Sending
  <1>7. CASE At(p) = "queueEvent"
    BY <1>1, <1>7 DEF WaitsFor, LockInv, PollInv
  <1>8. CASE At(p) = "walk"
    <2>1. Holds(b, "handler")
      BY <1>8 DEF WaitsFor
    <2>2. Holds(b, "polling")
      BY <1>5, <2>1 DEF LockInv, PollInv, Holds, Telling
    <2> QED BY <1>1, <2>2 DEF LockInv, PollInv
  <1>9. CASE At(p) = "join"
    BY <1>2, <1>4, <1>9 DEF LockInv, CloseInv
  <1> QED BY <1>1, <1>6, <1>7, <1>8, <1>9

\* An actor in a handler waits for nobody, if nobody polls.
LEMMA WalkerGoesOn ==
  ASSUME TypeOK, LockInv, NEW p \in Actors, Holds(p, "handler"), ~Holds(p, "polling"),
         NEW b \in Actors
  PROVE  ~WaitsFor(p, b)
  <1> SUFFICES ASSUME WaitsFor(p, b) PROVE FALSE
    OBVIOUS
  <1>1. At(p) \in {"enqueue", "queueEvent", "walk", "join"} /\ b # p
    BY DEF WaitsFor
  <1>2. /\ StackOK /\ At(p) = stack[p][1].at /\ 1 \in DOMAIN stack[p]
        /\ Plays(p, stack[p][1])
    BY <1>1, TopRole
  <1>3. PICK i \in DOMAIN stack[p] : stack[p][i].at = "handler"
    BY DEF Holds
  <1>4. i # 1 /\ Len(stack[p]) # 1
    BY <1>1, <1>2, <1>3, StackLen
  <1>5. ~Polling /\ (Dummy \/ p = Worker)
    BY <1>3 DEF LockInv, PollInv, RoleInv, Plays, Telling
  <1>6. CASE At(p) = "enqueue"
    <2>1. p = Worker /\ Holds(b, "sweep")
      BY <1>2, <1>5, <1>6 DEF Plays, WaitsFor
    <2>2. b = Worker
      BY <2>1 DEF LockInv, RoleInv, Plays, Holds
    <2> QED BY <1>1, <2>1, <2>2
  <1>7. CASE At(p) = "queueEvent"
    BY <1>2, <1>5, <1>7 DEF Plays
  <1>8. CASE At(p) = "walk"
    BY <1>1, <1>8 DEF WaitsFor, LockInv, HandlerInv
  <1>9. CASE At(p) = "join"
    BY <1>2, <1>4, <1>9 DEF LockInv, CloseInv
  <1> QED BY <1>1, <1>6, <1>7, <1>8, <1>9

\* If the callbacks that pc_client_poll runs do not send, threads, worker and
\* pc_client_cleanup never wait for each other in a circle, over wq_mutex,
\* event_mutex, handler_mutex and the end of the worker's thread.  (If they
\* do send there is such a circle.)
THEOREM NoDeadlock ==
  ASSUME ~PollSends
  PROVE  Spec => []NoCircularWait
  <1>1. TypeOK /\ LockInv => NoCircularWait
    <2> SUFFICES ASSUME TypeOK, LockInv, NEW S \in (SUBSET Actors) \ {{}}
                 PROVE  \E a \in S : \A b \in S : ~WaitsFor(a, b)
      BY DEF NoCircularWait
    <2>1. CASE \E p \in S : Holds(p, "polling")
      BY <2>1, PollerGoesOn
    <2>2. CASE /\ \A p \in S : ~Holds(p, "polling")
               /\ \E p \in S : Holds(p, "handler")
      BY <2>2, WalkerGoesOn
    <2>3. CASE \A p \in S : ~Holds(p, "polling") /\ ~Holds(p, "handler")
      <3>1. ASSUME NEW a \in S, NEW b \in S, WaitsFor(a, b)
            PROVE  a # Worker /\ b = Worker
        <4>1. CASE At(a) = "enqueue" /\ Holds(b, "sweep")
          BY <3>1, <4>1 DEF WaitsFor, LockInv, RoleInv, Plays, Holds
        <4>2. CASE At(a) = "join" /\ b = Worker
          BY <3>1, <4>2 DEF WaitsFor
        <4> QED BY <2>3, <3>1, <4>1, <4>2 DEF WaitsFor
      <3>2. CASE Worker \in S
        BY <3>1, <3>2
      <3>3. CASE Worker \notin S
        BY <3>1, <3>3
      <3> QED BY <3>2, <3>3
    <2> QED BY <2>1, <2>2, <2>3
  <1> QED BY <1>1, LocksHold, PTL
=============================================================================
