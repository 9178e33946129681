---------------------------- MODULE ProcessingProofs ----------------------------
(* What the processing side shares between threads: the library handles of        *)
(* external stages, for any number of instances, handles and builds and whatever  *)
(* the library answers, and the budget of samples, for every number of groups in  *)
(* flight, every size of output and every cap.                                    *)
EXTENDS ExternalStage, SampleBudget, Vetting, SequenceTheorems, FiniteSetTheorems, WellFoundedInduction, TLAPS

-----------------------------------------------------------------------------
(* External libraries: who is in a call, who has which handle, and whose output  *)
(* is open.                                                                       *)

Work == {"begin_run", "process", "end_run", "free_output"}
OpenCall == [call |-> "open", on |-> 0]
CloseCall(h) == [call |-> "close", on |-> h]
CallOn(c, h) == [call |-> c, on |-> h]

\* What an instance may have before it: nothing, a configure, a drop, or one use.
Shape(s) ==
  \/ calls[s] = <<>>
  \/ held[s] = 0 /\ calls[s] = <<OpenCall>>
  \/ held[s] = 0 /\ \E h \in Nat \ {0} : calls[s] = <<CloseCall(h)>> \/ calls[s] = <<CloseCall(h), OpenCall>>
  \/ held[s] # 0 /\ \E c \in Work : calls[s] = <<CallOn(c, held[s])>>

\* The handle that is an instance's own: the one it has or the one it will close.
Hand(s) == IF held[s] # 0 THEN held[s]
           ELSE IF calls[s] # <<>> /\ calls[s][1].call = "close" THEN calls[s][1].on ELSE 0

Shapes == /\ held \in [Instances -> Nat] /\ DOMAIN calls = Instances
          /\ \A s \in Instances : Shape(s)

\* Every open handle has one owner, and the other way round.
Owners == /\ opened \in Nat /\ live \subseteq 1 .. opened
          /\ \A s \in Instances : Hand(s) # 0 => Hand(s) \in live
          /\ \A r, s \in Instances : Hand(r) = Hand(s) /\ Hand(s) # 0 => r = s
          /\ \A h \in live : \E s \in Instances : Hand(s) = h

\* The lock is had by whoever is in a call that takes it, and by one at a time.
Locks == /\ inside \subseteq Instances
         /\ \A s \in inside : calls[s] # <<>>
         /\ IsExclusive => /\ lock = {s \in inside : Locked(calls[s][1].call)}
                           /\ \A r, s \in lock : r = s

\* An output that is not freed is the next thing its instance sees to.
Unread == \A h \in unfreed : \E s \in Instances :
            h # 0 /\ held[s] = h /\ calls[s] = <<CallOn("free_output", h)>>

IInv == Shapes /\ Owners /\ Locks /\ Unread

-----------------------------------------------------------------------------
(* Queues of one call and of two *)

LEMMA Queues ==
  /\ \A a : <<a>> # <<>> /\ <<a>>[1] = a /\ Tail(<<a>>) = <<>> /\ DOMAIN <<a>> = {1}
  /\ \A a, b : <<a, b>> # <<>> /\ <<a, b>>[1] = a /\ Tail(<<a, b>>) = <<b>> /\ DOMAIN <<a, b>> = {1, 2}
  /\ \A a : <<>> \o <<a>> = <<a>>
  /\ \A a, b : <<a>> \o <<b>> = <<a, b>>
<1>1. \A a : <<a>> # <<>> /\ <<a>>[1] = a /\ Tail(<<a>>) = <<>> /\ DOMAIN <<a>> = {1}
  OBVIOUS
<1>2. \A a, b : <<a, b>> # <<>> /\ <<a, b>>[1] = a /\ Tail(<<a, b>>) = <<b>> /\ DOMAIN <<a, b>> = {1, 2}
  OBVIOUS
<1>3. \A a : <<>> \o <<a>> = <<a>>
  OBVIOUS
<1>4. \A a, b : <<a>> \o <<b>> = <<a, b>>
  <2>1. TAKE a, b
  <2> DEFINE S == {a, b}
  <2>2. <<a>> \in Seq(S) /\ <<b>> \in Seq(S) /\ <<a, b>> \in Seq(S)
    OBVIOUS
  <2>3. /\ <<a>> \o <<b>> \in Seq(S) /\ Len(<<a>> \o <<b>>) = 2
        /\ (<<a>> \o <<b>>)[1] = a /\ (<<a>> \o <<b>>)[2] = b
    BY <2>2, ConcatProperties
  <2>4. Len(<<a, b>>) = 2 /\ <<a, b>>[1] = a /\ <<a, b>>[2] = b
    OBVIOUS
  <2>5. \A i \in 1 .. Len(<<a>> \o <<b>>) : (<<a>> \o <<b>>)[i] = <<a, b>>[i]
    BY <2>3, <2>4
  <2>6. Len(<<a>> \o <<b>>) = Len(<<a, b>>)
    BY <2>3, <2>4
  <2> HIDE DEF S
  <2> QED  BY <2>2, <2>3, <2>5, <2>6, SeqEqual
<1> QED  BY <1>1, <1>2, <1>3, <1>4

-----------------------------------------------------------------------------
(* What the shapes say of a call that is being made *)

LEMMA HandOf ==
  ASSUME NEW s \in Instances, held[s] \in Nat, Shape(s)
  PROVE  /\ Hand(s) \in Nat
         /\ held[s] # 0 => Hand(s) = held[s]
         /\ calls[s] = <<>> => Hand(s) = held[s]
         /\ \A h \in Nat \ {0} :
              calls[s] = <<CloseCall(h)>> \/ calls[s] = <<CloseCall(h), OpenCall>>
                => held[s] = 0 /\ Hand(s) = h
         /\ calls[s] = <<OpenCall>> => held[s] = 0 /\ Hand(s) = 0
<1>1. CASE calls[s] = <<>>
  BY <1>1, Queues DEF Hand
<1>2. CASE held[s] = 0 /\ calls[s] = <<OpenCall>>
  BY <1>2, Queues DEF Hand, OpenCall, CloseCall
<1>3. CASE held[s] = 0 /\ \E h \in Nat \ {0} : calls[s] = <<CloseCall(h)>> \/ calls[s] = <<CloseCall(h), OpenCall>>
  <2>1. PICK h \in Nat \ {0} : calls[s] = <<CloseCall(h)>> \/ calls[s] = <<CloseCall(h), OpenCall>>
    BY <1>3
  <2>2. calls[s] # <<>> /\ calls[s][1] = CloseCall(h)
    BY <2>1, Queues
  <2>3. Hand(s) = h
    BY <1>3, <2>2 DEF Hand, CloseCall
  <2>4. \A g : calls[s] = <<CloseCall(g)>> \/ calls[s] = <<CloseCall(g), OpenCall>> => g = h
    BY <2>2, Queues DEF CloseCall
  <2>5. calls[s] # <<OpenCall>>
    BY <2>2, Queues DEF CloseCall, OpenCall
  <2> QED  BY <1>3, <2>2, <2>3, <2>4, <2>5
<1>4. CASE held[s] # 0 /\ \E c \in Work : calls[s] = <<CallOn(c, held[s])>>
  <2>1. PICK c \in Work : calls[s] = <<CallOn(c, held[s])>>
    BY <1>4
  <2>2. calls[s] # <<>> /\ calls[s][1] = CallOn(c, held[s])
    BY <2>1, Queues
  <2>3. \A g : calls[s] # <<CloseCall(g)>> /\ calls[s] # <<CloseCall(g), OpenCall>> /\ calls[s] # <<OpenCall>>
    BY <2>2, Queues DEF CallOn, CloseCall, OpenCall, Work
  <2> QED  BY <1>4, <2>2, <2>3 DEF Hand
<1> QED  BY <1>1, <1>2, <1>3, <1>4 DEF Shape

LEMMA FirstCall ==
  ASSUME NEW s \in Instances, held[s] \in Nat, Shape(s), calls[s] # <<>>
  PROVE  \/ calls[s][1] = OpenCall /\ Tail(calls[s]) = <<>> /\ held[s] = 0 /\ Hand(s) = 0
         \/ /\ Hand(s) # 0 /\ held[s] = 0 /\ calls[s][1] = CloseCall(Hand(s))
            /\ Tail(calls[s]) = <<>> \/ Tail(calls[s]) = <<OpenCall>>
         \/ /\ Hand(s) # 0 /\ held[s] = Hand(s) /\ Tail(calls[s]) = <<>>
            /\ \E c \in Work : calls[s] = <<CallOn(c, Hand(s))>> /\ calls[s][1] = CallOn(c, Hand(s))
<1>1. CASE held[s] = 0 /\ calls[s] = <<OpenCall>>
  BY <1>1, Queues, HandOf
<1>2. CASE held[s] = 0 /\ \E h \in Nat \ {0} : calls[s] = <<CloseCall(h)>> \/ calls[s] = <<CloseCall(h), OpenCall>>
  <2>1. PICK h \in Nat \ {0} : calls[s] = <<CloseCall(h)>> \/ calls[s] = <<CloseCall(h), OpenCall>>
    BY <1>2
  <2>2. Hand(s) = h
    BY <2>1, HandOf
  <2>3. calls[s][1] = CloseCall(h) /\ (Tail(calls[s]) = <<>> \/ Tail(calls[s]) = <<OpenCall>>)
    <3>1. CASE calls[s] = <<CloseCall(h)>>
      BY <3>1, Queues
    <3>2. CASE calls[s] = <<CloseCall(h), OpenCall>>
      BY <3>2, Queues
    <3> QED  BY <2>1, <3>1, <3>2
  <2> QED  BY <1>2, <2>2, <2>3
<1>3. CASE held[s] # 0 /\ \E c \in Work : calls[s] = <<CallOn(c, held[s])>>
  <2>1. PICK c \in Work : calls[s] = <<CallOn(c, held[s])>>
    BY <1>3
  <2>2. Hand(s) = held[s]
    BY <1>3, HandOf
  <2>3. calls[s][1] = CallOn(c, held[s]) /\ Tail(calls[s]) = <<>>
    BY <2>1, Queues
  <2> QED  BY <1>3, <2>1, <2>2, <2>3
<1> QED  BY <1>1, <1>2, <1>3 DEF Shape

-----------------------------------------------------------------------------
(* What one instance does leaves the others as they are *)

Others(s) == /\ held' \in [Instances -> Nat] /\ DOMAIN calls' = Instances
             /\ \A r \in Instances \ {s} : held'[r] = held[r] /\ calls'[r] = calls[r]

LEMMA Elsewhere ==
  ASSUME NEW s \in Instances, Others(s)
  PROVE  \A r \in Instances \ {s} : Hand(r)' = Hand(r) /\ (Shape(r)' <=> Shape(r))
BY DEF Others, Hand, Shape

LEMMA SameHand ==
  ASSUME NEW s \in Instances, Shapes, Owners, Others(s), Shape(s)', Hand(s)' = Hand(s),
         live' = live, opened' = opened
  PROVE  Shapes' /\ Owners'
<1>1. \A r \in Instances : Hand(r)' = Hand(r)
  BY Elsewhere
<1>2. Shapes'
  BY Elsewhere DEF Shapes, Others
<1>3. Owners'
  BY <1>1 DEF Owners
<1> QED  BY <1>2, <1>3

LEMMA NewHand ==
  ASSUME NEW s \in Instances, Shapes, Owners, Others(s), Shape(s)', Hand(s) = 0,
         Hand(s)' = opened + 1, live' = live \cup {opened + 1}, opened' = opened + 1
  PROVE  Shapes' /\ Owners'
<1>1. \A r \in Instances \ {s} : Hand(r)' = Hand(r)
  BY Elsewhere
<1>2. Shapes'
  BY Elsewhere DEF Shapes, Others
<1>3. opened \in Nat /\ live \subseteq 1 .. opened /\ \A r \in Instances : Hand(r) # 0 => Hand(r) \in 1 .. opened
  BY DEF Owners
<1>4. opened' \in Nat /\ live' \subseteq 1 .. opened'
  BY <1>3
<1>5. \A r \in Instances : Hand(r)' # 0 => (Hand(r)' \in live')
  BY <1>1 DEF Owners
<1>6. \A q, r \in Instances : Hand(q)' = Hand(r)' /\ Hand(r)' # 0 => q = r
  <2>1. \A r \in Instances \ {s} : Hand(r)' # opened + 1
    BY <1>1, <1>3
  <2> QED  BY <1>1, <2>1 DEF Owners
<1>7. \A h \in live' : \E r \in Instances : Hand(r)' = h
  <2>1. TAKE h \in live'
  <2>2. CASE h = opened + 1
    BY <2>2
  <2>3. CASE h \in live
    <3>1. PICK r \in Instances : Hand(r) = h
      BY <2>3 DEF Owners
    <3>2. r # s
      BY <3>1, <2>3, <1>3
    <3> QED  BY <1>1, <3>1, <3>2
  <2> QED  BY <2>1, <2>2, <2>3
<1> QED  BY <1>2, <1>4, <1>5, <1>6, <1>7 DEF Owners

LEMMA NoHand ==
  ASSUME NEW s \in Instances, Shapes, Owners, Others(s), Shape(s)', Hand(s) # 0,
         Hand(s)' = 0, live' = live \ {Hand(s)}, opened' = opened
  PROVE  Shapes' /\ Owners'
<1>1. \A r \in Instances \ {s} : Hand(r)' = Hand(r)
  BY Elsewhere
<1>2. Shapes'
  BY Elsewhere DEF Shapes, Others
<1>3. opened' \in Nat /\ live' \subseteq 1 .. opened'
  BY DEF Owners
<1>4. \A r \in Instances : Hand(r)' # 0 => (Hand(r)' \in live')
  BY <1>1 DEF Owners
<1>5. \A q, r \in Instances : Hand(q)' = Hand(r)' /\ Hand(r)' # 0 => q = r
  BY <1>1 DEF Owners
<1>6. \A h \in live' : \E r \in Instances : Hand(r)' = h
  BY <1>1 DEF Owners
<1> QED  BY <1>2, <1>3, <1>4, <1>5, <1>6 DEF Owners

LEMMA LocksIdle ==
  ASSUME NEW s \in Instances, Locks, Others(s), s \notin inside, UNCHANGED <<inside, lock>>
  PROVE  Locks'
BY DEF Locks, Others

LEMMA LocksLeft ==
  ASSUME NEW s \in Instances, Locks, Others(s), inside' = inside \ {s}, lock' = lock \ {s}
  PROVE  Locks'
<1>1. inside' \subseteq Instances /\ \A r \in inside' : calls'[r] # <<>> /\ calls'[r] = calls[r]
  BY DEF Locks, Others
<1>2. IsExclusive => lock' = {r \in inside' : Locked(calls'[r][1].call)}
  <2>1. HAVE IsExclusive
  <2>2. lock = {r \in inside : Locked(calls[r][1].call)}
    BY <2>1 DEF Locks
  <2> QED  BY <1>1, <2>2
<1>3. IsExclusive => \A q, r \in lock' : q = r
  BY DEF Locks
<1> QED  BY <1>1, <1>2, <1>3 DEF Locks

LEMMA UnreadElsewhere ==
  ASSUME NEW s \in Instances, Unread, Others(s), unfreed' \subseteq unfreed,
         \A h \in unfreed' : calls[s] # <<CallOn("free_output", h)>>
  PROVE  Unread'
BY DEF Unread, Others

-----------------------------------------------------------------------------
(* What an idle instance may ask for *)

LEMMA AsksKeeps ==
  ASSUME NEW s \in Instances, IInv, Idle(s), NEW todo, Asks(s, todo), NEW h \in Nat,
         held' = [held EXCEPT ![s] = h], Shape(s)', Hand(s)' = Hand(s)
  PROVE  IInv'
<1>1. calls[s] = <<>> /\ s \notin inside
  BY DEF Idle, IInv, Locks
<1>2. Others(s)
  BY DEF IInv, Shapes, Others, Asks
<1>3. Shapes' /\ Owners'
  BY <1>2, SameHand DEF IInv, Asks
<1>4. Locks'
  BY <1>1, <1>2, LocksIdle DEF IInv, Asks
<1>5. Unread'
  <2>1. \A g : calls[s] # <<CallOn("free_output", g)>>
    BY <1>1, Queues
  <2> QED  BY <1>2, <2>1, UnreadElsewhere DEF IInv, Asks
<1> QED  BY <1>3, <1>4, <1>5 DEF IInv

LEMMA ConfigureKeeps ==
  ASSUME NEW s \in Instances, IInv, Configure(s)
  PROVE  IInv'
<1>1. calls[s] = <<>> /\ held[s] \in Nat /\ DOMAIN calls = Instances /\ DOMAIN held = Instances
  BY DEF Configure, Idle, IInv, Shapes
<1>2. Hand(s) = held[s]
  BY <1>1 DEF Hand
<1>3. held'[s] = 0 /\ calls'[s] = Closing(s) \o <<OpenCall>>
  BY <1>1 DEF Configure, Asks, OpenCall
<1>4. Shape(s)' /\ Hand(s)' = Hand(s)
  <2>1. CASE held[s] = 0
    <3>1. calls'[s] = <<OpenCall>>
      BY <1>3, <2>1, Queues DEF Closing
    <3>2. calls'[s] # <<>> /\ calls'[s][1].call = "open"
      BY <3>1, Queues DEF OpenCall
    <3> QED  BY <1>2, <1>3, <2>1, <3>1, <3>2 DEF Shape, Hand
  <2>2. CASE held[s] # 0
    <3>1. Closing(s) = <<CloseCall(held[s])>>
      BY <2>2 DEF Closing, CloseCall
    <3>2. calls'[s] = <<CloseCall(held[s]), OpenCall>>
      BY <1>3, <3>1, Queues
    <3>3. calls'[s] # <<>> /\ calls'[s][1] = CloseCall(held[s])
      BY <3>2, Queues
    <3>4. Hand(s)' = held[s]
      BY <1>3, <3>3 DEF Hand, CloseCall
    <3>5. Shape(s)'
      BY <1>1, <1>3, <2>2, <3>2 DEF Shape
    <3> QED  BY <1>2, <3>4, <3>5
  <2> QED  BY <2>1, <2>2
<1> QED  BY <1>4, AsksKeeps DEF Configure

LEMMA DropKeeps ==
  ASSUME NEW s \in Instances, IInv, Drop(s)
  PROVE  IInv'
<1>1. calls[s] = <<>> /\ held[s] \in Nat /\ held[s] # 0 /\ DOMAIN calls = Instances /\ DOMAIN held = Instances
  BY DEF Drop, Idle, IInv, Shapes
<1>2. Hand(s) = held[s]
  BY <1>1 DEF Hand
<1>3. held'[s] = 0 /\ calls'[s] = <<CloseCall(held[s])>>
  BY <1>1 DEF Drop, Asks, Closing, CloseCall
<1>4. calls'[s] # <<>> /\ calls'[s][1] = CloseCall(held[s])
  BY <1>3, Queues
<1>5. Hand(s)' = Hand(s)
  BY <1>2, <1>3, <1>4 DEF Hand, CloseCall
<1>6. Shape(s)'
  BY <1>1, <1>3 DEF Shape
<1> QED  BY <1>5, <1>6, AsksKeeps DEF Drop

LEMMA UseKeeps ==
  ASSUME NEW s \in Instances, IInv, NEW c \in {"begin_run", "process", "end_run"}, Use(s, c)
  PROVE  IInv'
<1>1. calls[s] = <<>> /\ held[s] \in Nat /\ held[s] # 0 /\ DOMAIN calls = Instances /\ held \in [Instances -> Nat]
  BY DEF Use, Idle, IInv, Shapes
<1>2. held' = held /\ calls'[s] = <<CallOn(c, held[s])>>
  BY <1>1 DEF Use, Asks, CallOn
<1>3. Hand(s)' = Hand(s)
  BY <1>1, <1>2 DEF Hand
<1>4. Shape(s)'
  BY <1>1, <1>2 DEF Shape, Work
<1>5. held' = [held EXCEPT ![s] = held[s]]
  BY <1>1, <1>2
<1> QED  BY <1>1, <1>3, <1>4, <1>5, AsksKeeps DEF Use

-----------------------------------------------------------------------------
(* A call is entered, and left *)

LEMMA EnterKeeps ==
  ASSUME NEW s \in Instances, IInv, Enter(s)
  PROVE  IInv'
<1>1. UNCHANGED <<held, calls, live, unfreed, opened>>
  BY DEF Enter
<1>2. Shapes' /\ Owners' /\ Unread'
  <2>1. \A r : (Hand(r)' = Hand(r)) /\ (Shape(r)' <=> Shape(r))
    BY <1>1 DEF Hand, Shape
  <2> QED  BY <1>1, <2>1 DEF IInv, Shapes, Owners, Unread
<1>3. Locks'
  <2>1. inside' \subseteq Instances /\ \A r \in inside' : calls'[r] # <<>>
    BY DEF Enter, IInv, Locks
  <2>2. ASSUME IsExclusive
        PROVE  lock' = {r \in inside' : Locked(calls'[r][1].call)} /\ \A q, r \in lock' : q = r
    <3>1. lock = {r \in inside : Locked(calls[r][1].call)} /\ \A q, r \in lock : q = r
      BY <2>2 DEF IInv, Locks
    <3>2. CASE Locked(calls[s][1].call)
      <4>1. lock = {} /\ lock' = {s} /\ inside' = inside \cup {s} /\ calls' = calls
        BY <2>2, <3>2 DEF Enter, MayEnter
      <4> QED  BY <3>1, <3>2, <4>1
    <3>3. CASE ~Locked(calls[s][1].call)
      <4>1. lock' = lock /\ inside' = inside \cup {s} /\ calls' = calls
        BY <2>2, <3>3 DEF Enter
      <4> QED  BY <3>1, <3>3, <4>1
    <3> QED  BY <3>2, <3>3
  <2> QED  BY <2>1, <2>2 DEF Locks
<1> QED  BY <1>2, <1>3 DEF IInv

\* A call that is left with the instance's handle as it was.
LEMMA LeftKeeps ==
  ASSUME NEW s \in Instances, IInv, s \in inside, NEW todo, Left(s, todo),
         UNCHANGED <<held, live, opened>>, Shape(s)', Hand(s)' = Hand(s)
  PROVE  Shapes' /\ Owners' /\ Locks' /\ Others(s)
<1>1. Others(s)
  BY DEF IInv, Shapes, Others, Left
<1>2. Shapes' /\ Owners'
  BY <1>1, SameHand DEF IInv
<1>3. Locks'
  BY <1>1, LocksLeft DEF IInv, Left
<1> QED  BY <1>1, <1>2, <1>3

LEMMA InsideCall ==
  ASSUME NEW s \in Instances, IInv, s \in inside
  PROVE  /\ calls[s] # <<>> /\ held[s] \in Nat /\ Shape(s)
         /\ DOMAIN calls = Instances /\ DOMAIN held = Instances /\ held \in [Instances -> Nat]
BY DEF IInv, Shapes, Locks

LEMMA CallRecords ==
  /\ OpenCall.call = "open" /\ OpenCall.on = 0
  /\ \A h : CloseCall(h).call = "close" /\ CloseCall(h).on = h
  /\ \A c, h : CallOn(c, h).call = c /\ CallOn(c, h).on = h
  /\ "open" \notin Work /\ "close" \notin Work
BY DEF OpenCall, CloseCall, CallOn, Work

\* What an instance is in the middle of, and what it has meanwhile.
LEMMA CallInside ==
  ASSUME NEW s \in Instances, IInv, s \in inside
  PROVE  /\ calls[s][1].call = "open"
              => calls[s][1] = OpenCall /\ Tail(calls[s]) = <<>> /\ held[s] = 0 /\ Hand(s) = 0
         /\ calls[s][1].call = "close"
              => /\ Hand(s) # 0 /\ held[s] = 0 /\ calls[s][1] = CloseCall(Hand(s))
                 /\ Tail(calls[s]) = <<>> \/ Tail(calls[s]) = <<OpenCall>>
         /\ calls[s][1].call \in Work
              => /\ held[s] # 0 /\ Hand(s) = held[s] /\ Tail(calls[s]) = <<>>
                 /\ calls[s] = <<CallOn(calls[s][1].call, held[s])>>
         /\ IF calls[s][1].call = "open" THEN calls[s][1].on = 0
            ELSE calls[s][1].on = Hand(s) /\ Hand(s) # 0
<1>1. CASE calls[s][1] = OpenCall /\ Tail(calls[s]) = <<>> /\ held[s] = 0 /\ Hand(s) = 0
  BY <1>1, CallRecords
<1>2. CASE /\ Hand(s) # 0 /\ held[s] = 0 /\ calls[s][1] = CloseCall(Hand(s))
           /\ Tail(calls[s]) = <<>> \/ Tail(calls[s]) = <<OpenCall>>
  BY <1>2, CallRecords
<1>3. CASE /\ Hand(s) # 0 /\ held[s] = Hand(s) /\ Tail(calls[s]) = <<>>
           /\ \E c \in Work : calls[s] = <<CallOn(c, Hand(s))>> /\ calls[s][1] = CallOn(c, Hand(s))
  <2>1. PICK c \in Work : calls[s] = <<CallOn(c, Hand(s))>> /\ calls[s][1] = CallOn(c, Hand(s))
    BY <1>3
  <2>2. calls[s][1].call = c /\ calls[s][1].on = Hand(s) /\ c # "open" /\ c # "close"
    BY <2>1, CallRecords
  <2> QED  BY <1>3, <2>1, <2>2
<1> QED  BY <1>1, <1>2, <1>3, InsideCall, FirstCall

LEMMA OpenedKeeps ==
  ASSUME NEW s \in Instances, IInv, NEW ok \in BOOLEAN, Opened(s, ok)
  PROVE  IInv'
<1>1. s \in inside /\ calls[s][1].call = "open"
  BY DEF Opened, In
<1>2. calls[s][1] = OpenCall /\ Tail(calls[s]) = <<>> /\ held[s] = 0 /\ Hand(s) = 0
  BY <1>1, CallInside
<1>3. calls'[s] = <<>> /\ opened \in Nat
  BY <1>1, <1>2, InsideCall DEF Opened, Left, IInv, Owners
<1>4. Locks' /\ Unread'
  <2>1. Others(s)
    <3>1. held' \in [Instances -> Nat] /\ \A r \in Instances \ {s} : held'[r] = held[r]
      BY <1>1, <1>3, InsideCall DEF Opened
    <3> QED  BY <1>1, <3>1, InsideCall DEF Others, Opened, Left
  <2>2. \A g : calls[s] # <<CallOn("free_output", g)>>
    BY <1>2, Queues DEF CallOn, OpenCall
  <2>3. Unread'
    BY <2>1, <2>2, UnreadElsewhere DEF IInv, Opened
  <2> QED  BY <2>1, <2>3, LocksLeft DEF IInv, Opened, Left
<1>5. Shapes' /\ Owners'
  <2>1. CASE ok
    <3>1. held'[s] = opened + 1
      BY <1>1, <2>1, InsideCall DEF Opened
    <3>2. Others(s)
      <4>1. held' \in [Instances -> Nat] /\ \A r \in Instances \ {s} : held'[r] = held[r]
        BY <1>1, <1>3, <2>1, InsideCall DEF Opened
      <4> QED  BY <1>1, <4>1, InsideCall DEF Others, Opened, Left
    <3>3. Hand(s)' = opened + 1 /\ Shape(s)'
      BY <1>3, <3>1 DEF Hand, Shape
    <3> QED  BY <1>2, <2>1, <3>2, <3>3, NewHand DEF IInv, Opened
  <2>2. CASE ~ok
    <3>1. UNCHANGED <<held, live, opened>>
      BY <2>2 DEF Opened
    <3>2. Hand(s)' = Hand(s) /\ Shape(s)'
      BY <1>2, <1>3, <3>1 DEF Hand, Shape
    <3> QED  BY <1>1, <3>1, <3>2, LeftKeeps DEF Opened
  <2> QED  BY <2>1, <2>2
<1> QED  BY <1>4, <1>5 DEF IInv

\* A call on the handle an instance has.
LEMMA WorkingCall ==
  ASSUME NEW s \in Instances, IInv, s \in inside, calls[s][1].call \in Work
  PROVE  /\ held[s] # 0 /\ Hand(s) = held[s] /\ Tail(calls[s]) = <<>> /\ calls[s] # <<>>
         /\ calls[s] = <<CallOn(calls[s][1].call, held[s])>> /\ calls[s][1].on = held[s]
         /\ held[s] \in Nat
<1>1. calls[s][1].call # "open"
  BY CallRecords
<1> QED  BY <1>1, CallInside, InsideCall

LEMMA DoneKeeps ==
  ASSUME NEW s \in Instances, IInv, s \in inside, calls[s][1].call \in Work,
         Left(s, Tail(calls[s])), UNCHANGED <<held, live, opened>>
  PROVE  Shapes' /\ Owners' /\ Locks' /\ Others(s)
<1>1. calls'[s] = <<>>
  BY WorkingCall, InsideCall DEF Left
<1>2. Shape(s)' /\ Hand(s)' = Hand(s)
  BY <1>1, WorkingCall DEF Shape, Hand
<1> QED  BY <1>2, LeftKeeps

LEMMA BegunKeeps ==
  ASSUME NEW s \in Instances, IInv, Begun(s) \/ Failed(s)
  PROVE  IInv'
<1>1. /\ s \in inside /\ calls[s][1].call \in Work \ {"free_output"}
      /\ Left(s, Tail(calls[s])) /\ UNCHANGED <<held, live, opened, unfreed>>
  BY DEF Begun, Failed, In, Work
<1>2. \A g : calls[s] # <<CallOn("free_output", g)>>
  <2>1. calls[s][1].call # "free_output"
    BY <1>1
  <2> QED  BY <2>1, Queues DEF CallOn
<1>3. Shapes' /\ Owners' /\ Locks' /\ Others(s)
  BY <1>1, DoneKeeps
<1> QED  BY <1>1, <1>2, <1>3, UnreadElsewhere DEF IInv

LEMMA WorkedKeeps ==
  ASSUME NEW s \in Instances, IInv, NEW c \in {"process", "end_run"}, NEW o, NEW n, Worked(s, c, o, n)
  PROVE  IInv'
<1>1. /\ s \in inside /\ calls[s][1].call \in Work /\ Left(s, After(s, o, n))
      /\ UNCHANGED <<held, live, opened>> /\ unfreed' = unfreed \cup {calls[s][1].on}
  BY DEF Worked, In, Work
<1>2. held[s] # 0 /\ Hand(s) = held[s] /\ calls[s][1].on = held[s] /\ calls[s][1].call = c
  BY <1>1, WorkingCall DEF Worked, In
<1>3. calls'[s] = <<CallOn("free_output", held[s])>>
  BY <1>1, <1>2, InsideCall DEF Left, After, CallOn
<1>4. Shape(s)' /\ Hand(s)' = Hand(s)
  BY <1>1, <1>2, <1>3 DEF Shape, Hand, Work
<1>5. Shapes' /\ Owners' /\ Locks' /\ Others(s)
  BY <1>1, <1>4, LeftKeeps
<1>6. Unread'
  <2>1. SUFFICES ASSUME NEW h \in unfreed'
                 PROVE  \E r \in Instances : h # 0 /\ held'[r] = h /\ calls'[r] = <<CallOn("free_output", h)>>
    BY DEF Unread
  <2>2. CASE h = held[s]
    BY <1>1, <1>2, <1>3, <2>2
  <2>3. CASE h \in unfreed
    <3>1. PICK r \in Instances : h # 0 /\ held[r] = h /\ calls[r] = <<CallOn("free_output", h)>>
      BY <2>3 DEF IInv, Unread
    <3>2. r # s
      <4>1. calls[r][1].call = "free_output"
        BY <3>1, Queues DEF CallOn
      <4> QED  BY <4>1, <1>2
    <3> QED  BY <1>5, <3>1, <3>2 DEF Others
  <2> QED  BY <1>1, <1>2, <2>1, <2>2, <2>3
<1> QED  BY <1>5, <1>6 DEF IInv

LEMMA FreedKeeps ==
  ASSUME NEW s \in Instances, IInv, Freed(s)
  PROVE  IInv'
<1>1. /\ s \in inside /\ calls[s][1].call \in Work /\ Left(s, Tail(calls[s]))
      /\ UNCHANGED <<held, live, opened>> /\ unfreed' = unfreed \ {calls[s][1].on}
  BY DEF Freed, In, Work
<1>2. Shapes' /\ Owners' /\ Locks' /\ Others(s)
  BY <1>1, DoneKeeps
<1>3. \A h \in unfreed' : calls[s] # <<CallOn("free_output", h)>>
  <2>1. \A h : calls[s] = <<CallOn("free_output", h)>> => calls[s][1].on = h
    BY Queues DEF CallOn
  <2> QED  BY <1>1, <2>1
<1>4. unfreed' \subseteq unfreed
  BY <1>1
<1> QED  BY <1>2, <1>3, <1>4, UnreadElsewhere DEF IInv

LEMMA ClosedKeeps ==
  ASSUME NEW s \in Instances, IInv, Closed(s)
  PROVE  IInv'
<1>1. /\ s \in inside /\ calls[s][1].call = "close" /\ Left(s, Tail(calls[s]))
      /\ UNCHANGED <<held, opened, unfreed>> /\ live' = live \ {calls[s][1].on}
  BY DEF Closed, In
<1>2. /\ Hand(s) # 0 /\ held[s] = 0 /\ calls[s][1] = CloseCall(Hand(s))
      /\ Tail(calls[s]) = <<>> \/ Tail(calls[s]) = <<OpenCall>>
  BY <1>1, CallInside
<1>3. Others(s) /\ calls'[s] = Tail(calls[s])
  BY <1>1, InsideCall DEF Others, Left
<1>4. Shape(s)' /\ Hand(s)' = 0
  <2>1. CASE calls'[s] = <<>>
    BY <1>1, <1>2, <2>1 DEF Shape, Hand
  <2>2. CASE calls'[s] = <<OpenCall>>
    <3>1. calls'[s][1].call = "open"
      BY <2>2, Queues DEF OpenCall
    <3> QED  BY <1>1, <1>2, <2>2, <3>1 DEF Shape, Hand
  <2> QED  BY <1>2, <1>3, <2>1, <2>2
<1>5. Shapes' /\ Owners'
  BY <1>1, <1>2, <1>3, <1>4, NoHand DEF IInv, CloseCall
<1>6. Locks'
  BY <1>1, <1>3, LocksLeft DEF IInv, Left
<1>7. Unread'
  <2>1. \A g : calls[s] # <<CallOn("free_output", g)>>
    BY <1>2, Queues DEF CallOn, CloseCall
  <2> QED  BY <1>1, <1>3, <2>1, UnreadElsewhere DEF IInv
<1> QED  BY <1>5, <1>6, <1>7 DEF IInv

-----------------------------------------------------------------------------
(* The invariant, and what follows from it *)

LEMMA IInvInit == ExtInit => IInv
<1> SUFFICES ASSUME ExtInit
             PROVE  IInv
  OBVIOUS
<1>1. \A s \in Instances : Hand(s) = 0 /\ Shape(s) /\ calls[s] = <<>> /\ held[s] = 0
  BY DEF ExtInit, Hand, Shape
<1>2. Shapes
  BY <1>1 DEF ExtInit, Shapes
<1>3. Owners
  BY <1>1 DEF ExtInit, Owners
<1>4. Locks /\ Unread
  BY DEF ExtInit, Locks, Unread
<1> QED  BY <1>2, <1>3, <1>4 DEF IInv

LEMMA NothingMoved ==
  ASSUME IInv, UNCHANGED <<held, calls, inside, lock, live, unfreed, opened>>
  PROVE  IInv'
<1>1. \A r : (Hand(r)' = Hand(r)) /\ (Shape(r)' <=> Shape(r))
  BY DEF Hand, Shape
<1> QED  BY <1>1 DEF IInv, Shapes, Owners, Locks, Unread

LEMMA IInvStep ==
  ASSUME IInv, [ExtNext]_extVars
  PROVE  IInv'
<1>1. CASE Recompile \/ HashFile \/ (\E ok \in BOOLEAN : OpenLibrary(ok)) \/ UNCHANGED extVars
  BY <1>1, NothingMoved DEF Recompile, HashFile, OpenLibrary, extVars
<1>2. ASSUME NEW s \in Instances, Stage(s)
      PROVE  IInv'
  <2>1. CASE Configure(s)
    BY <2>1, ConfigureKeeps
  <2>2. CASE Drop(s)
    BY <2>2, DropKeeps
  <2>3. CASE Enter(s)
    BY <2>3, EnterKeeps
  <2>4. CASE Begun(s) \/ Failed(s)
    BY <2>4, BegunKeeps
  <2>5. CASE Freed(s)
    BY <2>5, FreedKeeps
  <2>6. CASE Closed(s)
    BY <2>6, ClosedKeeps
  <2>7. CASE \E c \in {"begin_run", "process", "end_run"} : Use(s, c)
    BY <2>7, UseKeeps
  <2>8. CASE \E ok \in BOOLEAN : Opened(s, ok)
    BY <2>8, OpenedKeeps
  <2>9. CASE \E o \in Outputs : Worked(s, "process", o, Inputs) \/ Worked(s, "end_run", o, 0)
    BY <2>9, WorkedKeeps
  <2> QED  BY <1>2, <2>1, <2>2, <2>3, <2>4, <2>5, <2>6, <2>7, <2>8, <2>9 DEF Stage
<1> QED  BY <1>1, <1>2 DEF ExtNext

LEMMA AtMostOne ==
  ASSUME NEW S, \A x, y \in S : x = y
  PROVE  Cardinality(S) <= 1
<1>1. CASE S = {}
  BY <1>1, FS_EmptySet
<1>2. CASE S # {}
  <2>1. PICK x \in S : S = {x}
    BY <1>2
  <2>2. Cardinality({x}) = 1
    BY FS_Singleton
  <2> QED  BY <2>1, <2>2
<1> QED  BY <1>1, <1>2

LEMMA SoundOfIInv == IInv => HandlesAreSound
<1> SUFFICES ASSUME IInv
             PROVE  HandlesAreSound
  OBVIOUS
<1>1. WorkIsExclusive
  <2>1. SUFFICES ASSUME IsExclusive
                 PROVE  Cardinality({s \in inside : Locked(calls[s][1].call)}) <= 1
    BY DEF WorkIsExclusive
  <2> DEFINE S == {s \in inside : Locked(calls[s][1].call)}
  <2>2. \A x, y \in S : x = y
    BY <2>1 DEF IInv, Locks
  <2> HIDE DEF S
  <2>3. Cardinality(S) <= 1
    BY <2>2, AtMostOne
  <2> QED  BY <2>3 DEF S
<1>2. CallsAreOnLiveHandles
  <2>1. SUFFICES ASSUME NEW s \in inside, calls[s][1].call # "open"
                 PROVE  /\ calls[s][1].on \in live
                        /\ \A r \in inside \ {s} : calls[r][1].on # calls[s][1].on
                        /\ calls[s][1].call = "close" => calls[s][1].on \notin unfreed
    BY DEF CallsAreOnLiveHandles
  <2>2. \A r \in inside : r \in Instances /\ (calls[r][1].on = Hand(r) \/ calls[r][1].on = 0)
    BY CallInside DEF IInv, Locks
  <2>3. calls[s][1].on = Hand(s) /\ Hand(s) # 0
    BY <2>1, <2>2, CallInside
  <2>4. calls[s][1].on \in live
    BY <2>2, <2>3 DEF IInv, Owners
  <2>5. \A r \in inside \ {s} : calls[r][1].on # calls[s][1].on
    BY <2>2, <2>3 DEF IInv, Owners
  <2>6. ASSUME calls[s][1].call = "close", Hand(s) \in unfreed
        PROVE  FALSE
    <3>1. PICK r \in Instances : held[r] = Hand(s) /\ calls[r] = <<CallOn("free_output", Hand(s))>>
      BY <2>6 DEF IInv, Unread
    <3>2. Hand(r) = Hand(s)
      BY <2>3, <3>1 DEF Hand
    <3>3. r = s
      BY <2>2, <2>3, <3>1, <3>2 DEF IInv, Owners
    <3>4. calls[r][1].call = "free_output"
      BY <3>1, Queues DEF CallOn
    <3> QED  BY <2>6, <3>3, <3>4
  <2> QED  BY <2>3, <2>4, <2>5, <2>6
<1>3. NoHandleIsLost
  <2>1. SUFFICES ASSUME NEW h \in live
                 PROVE  \E s \in Instances : held[s] = h \/ \E i \in DOMAIN calls[s] : calls[s][i] = [call |-> "close", on |-> h]
    BY DEF NoHandleIsLost
  <2>2. PICK s \in Instances : Hand(s) = h
    BY DEF IInv, Owners
  <2>3. h # 0 /\ held[s] \in Nat /\ Shape(s)
    BY DEF IInv, Owners, Shapes
  <2>4. CASE held[s] # 0
    BY <2>2, <2>4 DEF Hand
  <2>5. CASE held[s] = 0
    <3>1. PICK g \in Nat \ {0} : calls[s] = <<CloseCall(g)>> \/ calls[s] = <<CloseCall(g), OpenCall>>
      BY <2>2, <2>3, <2>5, HandOf DEF Shape
    <3>2. g = h
      BY <2>2, <2>3, <3>1, HandOf
    <3>3. 1 \in DOMAIN calls[s] /\ calls[s][1] = CloseCall(h)
      <4>1. CASE calls[s] = <<CloseCall(g)>>
        BY <3>2, <4>1, Queues
      <4>2. CASE calls[s] = <<CloseCall(g), OpenCall>>
        BY <3>2, <4>2, Queues
      <4> QED  BY <3>1, <4>1, <4>2
    <3> QED  BY <3>3 DEF CloseCall
  <2> QED  BY <2>4, <2>5
<1> QED  BY <1>1, <1>2, <1>3 DEF HandlesAreSound

\* However many instances share a library, and whatever it answers and they ask: work
\* excludes work in one that asked for it, every call is on an open handle of the
\* caller's own, and no handle is lost (sp-ext stage.rs, library.rs).
THEOREM ExternalHandlesAreSound == ExtSpec => []HandlesAreSound
BY IInvInit, IInvStep, SoundOfIInv, PTL DEF ExtSpec


-----------------------------------------------------------------------------
(* The budget *)

BudgetInv == TypeOK /\ SeenIsPast /\ WithinCap /\ RefusalsStand /\ Compared

LEMMA SaturatingAddFits ==
  ASSUME NEW a \in Nat, NEW b \in Nat
  PROVE  /\ SaturatingAdd(a, b) \in Nat
         /\ SaturatingAdd(a, b) <= Cap => SaturatingAdd(a, b) = a + b
         /\ SaturatingAdd(a, b) <= Cap <=> a + b <= Cap
BY BudgetAssumption DEF SaturatingAdd

LEMMA BytesAreNumbers == \A c \in Claimants : Bytes[c] \in Nat
BY BudgetAssumption

LEMMA BudgetInvInit == Init => BudgetInv
BY BudgetAssumption
DEF Init, BudgetInv, TypeOK, SeenIsPast, WithinCap, RefusalsStand, Compared

LEMMA BudgetInvStep ==
  ASSUME BudgetInv, [Next]_vars
  PROVE  BudgetInv'
<1> USE BudgetAssumption, BytesAreNumbers
    DEF BudgetInv, TypeOK, SeenIsPast, WithinCap, RefusalsStand, Compared, Fits
<1>1. ASSUME NEW c \in Claimants, Load(c)
      PROVE  BudgetInv'
  BY <1>1 DEF Load, Wanted
<1>2. ASSUME NEW c \in Claimants, Refuse(c)
      PROVE  BudgetInv'
  <2>1. recorded + Bytes[c] > Cap
    <3>1. seen[c] \in Nat /\ Bytes[c] \in Nat /\ ~(Wanted(c) <= Cap)
      BY <1>2 DEF Refuse
    <3>2. seen[c] + Bytes[c] > Cap
      BY <3>1, SaturatingAddFits DEF Wanted
    <3> QED  BY <3>1, <3>2
  <2> QED  BY <1>2, <2>1 DEF Refuse, Fits, Wanted
<1>3. ASSUME NEW c \in Claimants, Fit(c)
      PROVE  BudgetInv'
  BY <1>3 DEF Fit, Wanted
<1>4. ASSUME NEW c \in Claimants, Exchange(c)
      PROVE  BudgetInv'
  <2>1. recorded' = recorded + Bytes[c] /\ recorded' <= Cap
    BY <1>4, SaturatingAddFits DEF Exchange, Unmoved, Wanted
  <2>2. UNCHANGED seen /\ pc' = [pc EXCEPT ![c] = "granted"]
    BY <1>4 DEF Exchange
  <2> QED  BY <2>1, <2>2 DEF Wanted
<1>5. ASSUME NEW c \in Claimants, Retry(c)
      PROVE  BudgetInv'
  BY <1>5 DEF Retry, Wanted
<1>6. CASE UNCHANGED vars
  BY <1>6 DEF vars, Wanted
<1> QED  BY <1>1, <1>2, <1>3, <1>4, <1>5, <1>6 DEF Next

\* The invariant the other theorems rest on.
THEOREM BudgetInvariant == Spec => []BudgetInv
BY BudgetInvInit, BudgetInvStep, PTL DEF Spec

\* However many groups claim at once, and however often an exchange fails,
\* they are granted no more than the cap.
THEOREM CapHolds == Spec => []WithinCap
<1>1. BudgetInv => WithinCap
  BY DEF BudgetInv
<1> QED  BY <1>1, BudgetInvariant, PTL

\* A claim that was turned away would still not fit.
THEOREM RefusalsAreRight == Spec => []RefusalsStand
<1>1. BudgetInv => RefusalsStand
  BY DEF BudgetInv
<1> QED  BY <1>1, BudgetInvariant, PTL

\* The loop implements the atomic claim: the exchange that succeeds, and the
\* comparison that fails, are the moments the claim is answered.
THEOREM LoopIsAtomic == Spec => ImplementsBudget
<1>1. Init => AtomicBudget!Init
  BY DEF Init, Answer, AtomicBudget!Init
<1>2. ASSUME BudgetInv, [Next]_vars
      PROVE  [AtomicBudget!Next]_(AtomicBudget!budget)
  <2> USE <1>2, BytesAreNumbers DEF BudgetInv, TypeOK
  <2>1. ASSUME NEW c \in Claimants, Load(c) \/ Fit(c) \/ Retry(c)
        PROVE  UNCHANGED AtomicBudget!budget
    <3>1. recorded' = recorded /\ Answer' = Answer
      BY <2>1 DEF Load, Fit, Retry, Answer
    <3> QED  BY <3>1 DEF AtomicBudget!budget
  <2>2. ASSUME NEW c \in Claimants, Refuse(c)
        PROVE  AtomicBudget!Claim(c)
    <3>1. recorded + Bytes[c] > Cap
      <4>1. seen[c] \in Nat /\ seen[c] <= recorded /\ ~(Wanted(c) <= Cap)
        BY <2>2 DEF Refuse, Fits, SeenIsPast
      <4>2. seen[c] + Bytes[c] > Cap
        BY <4>1, SaturatingAddFits, BudgetAssumption DEF Wanted
      <4> QED  BY <4>1, <4>2, BudgetAssumption
    <3>2. Answer[c] = "none" /\ recorded' = recorded
          /\ Answer' = [Answer EXCEPT ![c] = "refused"]
      BY <2>2 DEF Refuse, Answer
    <3> QED  BY <3>1, <3>2, BudgetAssumption DEF AtomicBudget!Claim
  <2>3. ASSUME NEW c \in Claimants, Exchange(c)
        PROVE  AtomicBudget!Claim(c)
    <3>1. recorded' = recorded + Bytes[c] /\ recorded + Bytes[c] <= Cap
      BY <2>3, SaturatingAddFits DEF Exchange, Unmoved, Fits, Wanted, Compared
    <3>2. Answer[c] = "none" /\ Answer' = [Answer EXCEPT ![c] = "granted"]
      BY <2>3 DEF Exchange, Answer
    <3> QED  BY <3>1, <3>2 DEF AtomicBudget!Claim
  <2>4. CASE UNCHANGED vars
    BY <2>4 DEF vars, Answer, AtomicBudget!budget
  <2> QED  BY <2>1, <2>2, <2>3, <2>4 DEF Next, AtomicBudget!Next
<1> QED  BY <1>1, <1>2, BudgetInvariant, PTL DEF Spec, ImplementsBudget, AtomicBudget!Spec

-----------------------------------------------------------------------------
(* Conformance: what the suite has established of the stage it is asked about,   *)
(* as far as it has got.                                                          *)

\* Nothing was waived and nothing found so far.
Unblemished == found = {} /\ skipped = {}

\* A case is vouched for if what the stage did of it is what it promised.
Vouched(c) ==
  /\ stage.answer[c] # "panics"
  /\ stage.answer[c] = "produces" /\ ~stage.tires =>
       stage.covers /\ stage.ports /\ (stage.pure => stage.drift = "none")

SuiteTypes ==
  /\ Suite!StageType(stage) /\ suiteCalls \in Nat /\ suiteLeft \subseteq Cases
  /\ suitePhase \in {"begin", "cases", "cancel", "report"}
  /\ suitePhase = "begin" => found = {} /\ suiteLeft = Cases
DeclaredWell == suitePhase # "begin" /\ Unblemished => stage.described /\ stage.configure \in {"ok", "once"}
TriedWell == Unblemished => \A c \in Cases \ suiteLeft : Vouched(c)
AllTried == suitePhase \in {"cancel", "report"} /\ found = {} => suiteLeft = {}
Heeded == suitePhase = "report" /\ Unblemished => stage.heeds = "heeds" /\ stage.configure # "once"
FindingsStand == \A f \in found : f[1] \in {"survival", "configuration"} \/ f[1] \notin skipped
SuiteInv == /\ SuiteTypes /\ DeclaredWell /\ TriedWell /\ AllTried /\ Heeded
            /\ FindingsStand /\ Suite!GoodStagesPass

\* What is found of a check that runs, and of one that was waived.
LEMMA GivenIs ==
  ASSUME NEW k \in {"declaration", "configuration", "contract", "ports", "determinism"}, NEW b \in BOOLEAN, NEW c
  PROVE  /\ \A f \in Suite!Given(k, b, c) : f[1] = k /\ k \notin skipped
         /\ k \notin skipped /\ Suite!Given(k, b, c) = {} => ~b
         /\ ~b => Suite!Given(k, b, c) = {}
<1> DEFINE Sane(x) == /\ \A f \in Suite!Given(k, x, c) : f[1] = k /\ k \notin skipped
                      /\ k \notin skipped /\ Suite!Given(k, x, c) = {} => ~x
                      /\ ~x => Suite!Given(k, x, c) = {}
<1>1. Sane(TRUE)
  <2>1. Suite!Given(k, TRUE, c) = IF k \notin skipped THEN {<<k, c>>} ELSE {}
    BY DEF Suite!Given, Suite!Runs
  <2>2. <<k, c>>[1] = k
    OBVIOUS
  <2> QED  BY <2>1, <2>2
<1>2. Sane(FALSE)
  <2>1. Suite!Given(k, FALSE, c) = {}
    BY DEF Suite!Given
  <2> QED  BY <2>1
<1>3. b = TRUE \/ b = FALSE
  OBVIOUS
<1> HIDE DEF Sane
<1>4. Sane(b)
  BY <1>1, <1>2, <1>3, Zenon
<1> QED  BY <1>4, Zenon DEF Sane

\* What is found when no fresh instance can be set up.
LEMMA UnsetIs == /\ \A f \in Suite!Unset : f[1] = "configuration"
                 /\ Suite!Unset = {} <=> stage.configure # "once"
<1>1. <<"configuration", "">>[1] = "configuration"
  OBVIOUS
<1>2. CASE stage.configure = "once"
  <2>1. Suite!Unset = {<<"configuration", "">>}
    BY <1>2 DEF Suite!Unset, Suite!Refreshed
  <2> QED  BY <1>1, <1>2, <2>1
<1>3. CASE stage.configure # "once"
  BY <1>3 DEF Suite!Unset, Suite!Refreshed
<1> QED  BY <1>2, <1>3

LEMMA SuiteAtFirst ==
  ASSUME Suite!ConInit
  PROVE  SuiteInv
BY JudgedIsTyped DEF JudgedAssumption, Suite!ConInit, SuiteInv, SuiteTypes, DeclaredWell, TriedWell, AllTried, Heeded, FindingsStand,
       Suite!GoodStagesPass

LEMMA BeginKeeps ==
  ASSUME SuiteInv, Suite!Begin
  PROVE  SuiteInv'
<1>1. /\ suitePhase = "begin" /\ suitePhase' \in {"cases", "report"} /\ suiteLeft = suiteLeft' /\ suiteCalls' = suiteCalls
      /\ stage' = stage /\ skipped' = skipped
  BY DEF Suite!Begin
<1>2. PICK told : /\ told = Suite!Given("declaration", ~stage.described, "")
                               \cup Suite!Given("configuration", stage.configure = "lax", "")
                  /\ \/ stage.configure = "rejects" /\ found' = told \cup {<<"configuration", "">>} /\ suitePhase' = "report"
                     \/ stage.configure # "rejects" /\ found' = told /\ suitePhase' = "cases"
  BY DEF Suite!Begin
<1> DEFINE D == Suite!Given("declaration", ~stage.described, "")
           C == Suite!Given("configuration", stage.configure = "lax", "")
<1>a. /\ \A f \in D : f[1] = "declaration" /\ f[1] \notin skipped
      /\ skipped = {} /\ D = {} => stage.described
      /\ stage.described => D = {}
  <2>1. (~stage.described) \in BOOLEAN /\ stage.described \in BOOLEAN
    BY DEF SuiteInv, SuiteTypes, Suite!StageType
  <2>2. PICK b \in BOOLEAN : b = ~stage.described
    BY <2>1
  <2>3. D = Suite!Given("declaration", b, "")
    BY <2>2
  <2>4. /\ \A f \in Suite!Given("declaration", b, "") : f[1] = "declaration" /\ "declaration" \notin skipped
        /\ "declaration" \notin skipped /\ Suite!Given("declaration", b, "") = {} => ~b
        /\ ~b => Suite!Given("declaration", b, "") = {}
    BY GivenIs, Zenon
  <2> HIDE DEF D
  <2>5. /\ \A f \in D : f[1] = "declaration" /\ "declaration" \notin skipped
        /\ "declaration" \notin skipped /\ D = {} => ~b
        /\ ~b => D = {}
    BY <2>3, <2>4, Zenon
  <2>6. ~b <=> stage.described
    BY <2>2, <2>1
  <2> QED  BY <2>5, <2>6
<1>b. /\ \A f \in C : f[1] = "configuration" /\ f[1] \notin skipped
      /\ skipped = {} /\ C = {} => stage.configure # "lax"
      /\ stage.configure # "lax" => C = {}
  <2>1. PICK b \in BOOLEAN : b = (stage.configure = "lax")
    OBVIOUS
  <2>2. C = Suite!Given("configuration", b, "")
    BY <2>1
  <2>3. /\ \A f \in Suite!Given("configuration", b, "") : f[1] = "configuration" /\ "configuration" \notin skipped
        /\ "configuration" \notin skipped /\ Suite!Given("configuration", b, "") = {} => ~b
        /\ ~b => Suite!Given("configuration", b, "") = {}
    BY GivenIs, Zenon
  <2> HIDE DEF C
  <2>4. /\ \A f \in C : f[1] = "configuration" /\ "configuration" \notin skipped
        /\ "configuration" \notin skipped /\ C = {} => ~b
        /\ ~b => C = {}
    BY <2>2, <2>3, Zenon
  <2>5. ~b <=> stage.configure # "lax"
    BY <2>1
  <2> QED  BY <2>4, <2>5
<1>c. told = D \cup C
  BY <1>2
<1> HIDE DEF C, D
<1>3. \A f \in told : f[1] \in {"declaration", "configuration"} /\ f[1] \notin skipped
  BY <1>a, <1>b, <1>c
<1>4. told = {} /\ skipped = {} => stage.described /\ stage.configure # "lax"
  BY <1>a, <1>b, <1>c
<1>5. FindingsStand'
  <2>1. <<"configuration", "">>[1] = "configuration"
    OBVIOUS
  <2>2. ASSUME NEW f \in found' PROVE f \in told \/ f = <<"configuration", "">>
    BY <1>2, <2>2
  <2>3. ASSUME NEW f \in found' PROVE f[1] \in {"survival", "configuration"} \/ f[1] \notin skipped
    <3>1. CASE f \in told
      BY <1>3, <3>1, Zenon
    <3>2. CASE f = <<"configuration", "">>
      BY <2>1, <3>2
    <3> QED  BY <2>2, <2>3, <3>1, <3>2
  <2> QED  BY <1>1, <2>3 DEF FindingsStand
<1>6. DeclaredWell'
  <2>1. stage.configure \in {"ok", "lax", "rejects", "once"}
    BY DEF SuiteInv, SuiteTypes, Suite!StageType
  <2> QED  BY <1>1, <1>2, <1>4, <2>1 DEF DeclaredWell, Unblemished
<1>7. TriedWell' /\ AllTried' /\ Heeded'
  BY <1>1, <1>2 DEF SuiteInv, SuiteTypes, TriedWell, AllTried, Heeded, Unblemished
<1>8. Suite!GoodStagesPass'
  <2>1. Suite!Good(stage) => stage.described /\ stage.configure = "ok"
    BY DEF Suite!Good
  <2>2. Suite!Good(stage) => found' = {}
    BY <1>2, <1>a, <1>b, <1>c, <2>1
  <2> QED  BY <1>1, <2>2 DEF Suite!GoodStagesPass, Suite!Good
<1>9. SuiteTypes'
  BY <1>1 DEF SuiteInv, SuiteTypes, Suite!StageType
<1> QED  BY <1>5, <1>6, <1>7, <1>8, <1>9 DEF SuiteInv

LEMMA TryKeeps ==
  ASSUME SuiteInv, NEW c \in Cases, Suite!Try(c)
  PROVE  SuiteInv'
<1>1. /\ suitePhase = "cases" /\ suitePhase' = "cases" /\ suiteLeft' = suiteLeft \ {c}
      /\ stage' = stage /\ skipped' = skipped
  BY DEF Suite!Try
<1>2. PICK a : a = Suite!Attempt(c, suiteCalls)
  OBVIOUS
<1>3. /\ suiteCalls \in Nat /\ stage.answer[c] \in {"produces", "errs", "panics"} /\ stage.tires \in BOOLEAN
      /\ stage.covers \in BOOLEAN /\ stage.ports \in BOOLEAN /\ stage.pure \in BOOLEAN
      /\ stage.drift \in {"none", "calls", "instances", "salt"}
  BY DEF SuiteInv, SuiteTypes, Suite!StageType, Suite!Answers
<1>4. \/ a = "panics" /\ found' = found \cup {<<"survival", c>>}
      \/ a = "errs" /\ found' = found
      \/ /\ a = "produces"
         /\ found' = found \cup Suite!Given("contract", ~stage.covers, c)
                           \cup Suite!Given("ports", ~stage.ports, c)
                           \cup Suite!Given("determinism", stage.pure /\ Suite!Unsteady(c), c)
                           \cup (IF Suite!Asked THEN Suite!Unset ELSE {})
  BY <1>2 DEF Suite!Try, Suite!Unsurvived
<1>5. suiteCalls' \in Nat
  BY <1>3 DEF Suite!Try
<1>6. FindingsStand'
  <2>1. \A f \in found' : \/ f \in found \/ f = <<"survival", c>> \/ f[1] = "configuration"
                          \/ f[1] \in {"contract", "ports", "determinism"} /\ f[1] \notin skipped
    <3>1. \A f \in Suite!Given("contract", ~stage.covers, c) : f[1] = "contract" /\ "contract" \notin skipped
      BY GivenIs
    <3>2. \A f \in Suite!Given("ports", ~stage.ports, c) : f[1] = "ports" /\ "ports" \notin skipped
      BY GivenIs
    <3>3. \A f \in Suite!Given("determinism", stage.pure /\ Suite!Unsteady(c), c) :
            f[1] = "determinism" /\ "determinism" \notin skipped
      BY GivenIs
    <3>4. \A f \in Suite!Unset : f[1] = "configuration"
      BY UnsetIs
    <3> QED  BY <1>4, <3>1, <3>2, <3>3, <3>4
  <2> QED  BY <1>1, <2>1 DEF SuiteInv, FindingsStand
<1>7. found' = {} => found = {}
  BY <1>4
<1>8. ASSUME Unblemished' PROVE Vouched(c)
  <2>1. skipped = {} /\ found' = {}
    BY <1>1, <1>8 DEF Unblemished
  <2>2. CASE a = "errs"
    BY <1>2, <1>3, <2>2 DEF Suite!Attempt, Vouched
  <2>3. CASE a = "produces"
    <3>1. stage.covers /\ stage.ports /\ ~(stage.pure /\ Suite!Unsteady(c))
          /\ (Suite!Asked => Suite!Refreshed)
      <4>1. /\ Suite!Given("contract", ~stage.covers, c) = {} /\ Suite!Given("ports", ~stage.ports, c) = {}
            /\ Suite!Given("determinism", stage.pure /\ Suite!Unsteady(c), c) = {}
            /\ (Suite!Asked => Suite!Unset = {})
        BY <1>4, <2>1, <2>3
      <4>2. Suite!Unset = {} => Suite!Refreshed
        BY DEF Suite!Unset
      <4> QED  BY <2>1, <4>1, <4>2, GivenIs
    <3>2. stage.answer[c] = "produces"
      BY <1>2, <1>3, <2>3 DEF Suite!Attempt
    <3>3. ASSUME ~stage.tires PROVE \A k : Suite!Attempt(c, k) = "produces"
      BY <3>2, <3>3 DEF Suite!Attempt
    <3>4. ASSUME ~stage.tires, stage.pure, stage.drift # "none" PROVE Suite!Unsteady(c)
      <4>0. Suite!Refreshed
        BY <2>1, <3>1, <3>4 DEF Suite!Asked, Suite!Runs
      <4>1. CASE stage.drift = "calls"
        <5>1. Suite!Digest(c, suiteCalls + 1, 1) # Suite!Digest(c, suiteCalls, 1)
          BY <1>3, <4>1 DEF Suite!Digest
        <5> QED  BY <3>3, <3>4, <5>1 DEF Suite!Unsteady
      <4>2. CASE stage.drift = "instances"
        <5>1. Suite!Digest(c, 0, 2) # Suite!Digest(c, suiteCalls, 1)
          BY <4>2 DEF Suite!Digest
        <5> QED  BY <3>3, <3>4, <4>0, <5>1 DEF Suite!Unsteady
      <4>3. CASE stage.drift = "salt"
        BY <4>0, <4>3 DEF Suite!Unsteady
      <4> QED  BY <1>3, <3>4, <4>1, <4>2, <4>3
    <3> QED  BY <3>1, <3>2, <3>4 DEF Vouched
  <2> QED  BY <1>4, <2>1, <2>2, <2>3
<1>9. TriedWell'
  <2>1. ASSUME Unblemished', NEW d \in Cases \ suiteLeft' PROVE Vouched(d)'
    <3>1. Unblemished
      BY <1>1, <1>7, <2>1 DEF Unblemished
    <3>2. Vouched(d)
      BY <1>1, <1>8, <2>1, <3>1 DEF SuiteInv, TriedWell
    <3> QED  BY <1>1, <3>2 DEF Vouched
  <2> QED  BY <2>1 DEF TriedWell
<1>10. DeclaredWell' /\ AllTried' /\ Heeded'
  BY <1>1, <1>7 DEF SuiteInv, DeclaredWell, AllTried, Heeded, Unblemished
<1>11. Suite!GoodStagesPass'
  <2>1. ASSUME Suite!Good(stage) PROVE found' = {}
    <3>1. /\ found = {} /\ stage.answer[c] # "panics" /\ stage.covers /\ stage.ports
          /\ stage.pure => stage.drift = "none"
          /\ Suite!Unset = {}
      BY <2>1 DEF SuiteInv, Suite!GoodStagesPass, Suite!Good, Suite!Unset, Suite!Refreshed
    <3>2. a # "panics"
      BY <1>2, <3>1 DEF Suite!Attempt
    <3>3. ~(stage.pure /\ Suite!Unsteady(c))
      BY <3>1 DEF Suite!Unsteady, Suite!Digest
    <3> QED  BY <1>4, <3>1, <3>2, <3>3, GivenIs
  <2> QED  BY <1>1, <2>1 DEF Suite!GoodStagesPass, Suite!Good
<1>12. SuiteTypes'
  BY <1>1, <1>5 DEF SuiteInv, SuiteTypes, Suite!StageType
<1> QED  BY <1>6, <1>9, <1>10, <1>11, <1>12 DEF SuiteInv

LEMMA TriedKeeps ==
  ASSUME SuiteInv, Suite!Tried
  PROVE  SuiteInv'
<1>1. /\ suitePhase = "cases" /\ suiteLeft = {} /\ suitePhase' = "cancel"
      /\ UNCHANGED <<stage, skipped, suiteLeft, suiteCalls, found>>
  BY DEF Suite!Tried
<1> QED
  BY <1>1 DEF SuiteInv, SuiteTypes, Suite!StageType, DeclaredWell, TriedWell, Vouched, AllTried, Heeded,
       FindingsStand, Suite!GoodStagesPass, Suite!Good, Unblemished

LEMMA CancelEnds ==
  ASSUME SuiteInv, Suite!Cancel
  PROVE  SuiteInv'
<1>1. PICK told : /\ told = IF ~Suite!Runs("cancellation") THEN {}
                            ELSE IF Suite!Refreshed THEN Suite!CancelFindings(FirstCase) ELSE Suite!Unset
                  /\ found' = found \cup told
  BY DEF Suite!Cancel
<1>2. /\ suitePhase = "cancel" /\ suitePhase' = "report" /\ stage' = stage /\ skipped' = skipped
      /\ suiteLeft' = suiteLeft /\ suiteCalls' = suiteCalls
  BY DEF Suite!Cancel
<1>3. \A f \in told : f[1] \in {"survival", "configuration"} \/ (f[1] = "cancellation" /\ f[1] \notin skipped)
  <2>1. \A f \in Suite!CancelFindings(FirstCase) : f[1] \in {"survival", "cancellation"}
    BY DEF Suite!CancelFindings, Suite!Unsurvived
  <2> QED  BY <1>1, <2>1, UnsetIs DEF Suite!Runs
<1>4. skipped = {} /\ told = {} => stage.heeds = "heeds" /\ stage.configure # "once"
  BY <1>1, UnsetIs DEF Suite!CancelFindings, Suite!Unsurvived, Suite!Refreshed, Suite!Runs
<1>5. stage.heeds = "heeds" /\ stage.configure # "once" => told = {}
  <2>1. ASSUME stage.heeds = "heeds" PROVE Suite!CancelFindings(FirstCase) = {}
    BY <2>1 DEF Suite!CancelFindings
  <2> QED  BY <1>1, <2>1 DEF Suite!Unset, Suite!Refreshed
<1>6. found' = {} => found = {} /\ told = {}
  BY <1>1
<1>7. FindingsStand'
  BY <1>1, <1>2, <1>3 DEF SuiteInv, FindingsStand
<1>8. DeclaredWell' /\ TriedWell' /\ AllTried' /\ Heeded'
  BY <1>2, <1>4, <1>6 DEF SuiteInv, DeclaredWell, TriedWell, Vouched, AllTried, Heeded, Unblemished
<1>9. Suite!GoodStagesPass'
  <2>1. Suite!Good(stage) => stage.heeds = "heeds" /\ stage.configure # "once" /\ found = {}
    BY DEF Suite!Good, SuiteInv, Suite!GoodStagesPass
  <2> QED  BY <1>1, <1>2, <1>5, <2>1 DEF Suite!GoodStagesPass, Suite!Good
<1>10. SuiteTypes'
  BY <1>2 DEF SuiteInv, SuiteTypes, Suite!StageType
<1> QED  BY <1>7, <1>8, <1>9, <1>10 DEF SuiteInv

LEMMA SuiteRests ==
  ASSUME SuiteInv, UNCHANGED Suite!conVars
  PROVE  SuiteInv'
BY DEF Suite!conVars, SuiteInv, SuiteTypes, Suite!StageType, DeclaredWell, TriedWell, Vouched, AllTried, Heeded,
       FindingsStand, Suite!GoodStagesPass, Suite!Good, Unblemished

LEMMA SuiteJudges == SuiteInv => Suite!ConTypeOK /\ Suite!PassIsEarned /\ Suite!GoodStagesPass
<1> SUFFICES ASSUME SuiteInv PROVE Suite!ConTypeOK /\ Suite!PassIsEarned /\ Suite!GoodStagesPass
  OBVIOUS
<1>1. Suite!ConTypeOK
  BY DEF SuiteInv, SuiteTypes, FindingsStand, Suite!ConTypeOK
<1>2. ASSUME Suite!Conforms, skipped = {}
      PROVE  /\ stage.described /\ stage.configure = "ok" /\ stage.heeds = "heeds"
             /\ \A c \in Cases : Vouched(c)
  BY <1>2 DEF Suite!Conforms, SuiteInv, SuiteTypes, DeclaredWell, TriedWell, AllTried, Heeded, Unblemished
<1>3. Suite!PassIsEarned
  BY <1>2 DEF Suite!PassIsEarned, Vouched
<1> QED  BY <1>1, <1>3 DEF SuiteInv

-----------------------------------------------------------------------------
(* What is finite has a largest and a smallest, and two lists of the same names  *)
(* are as long as each other.                                                     *)

LEMMA LeastNumber ==
  ASSUME NEW S \in SUBSET Nat, S # {}
  PROVE  \E m \in S : \A n \in S : m <= n
<1>1. PICK m \in S : \A n \in S : ~(<<n, m>> \in OpToRel(<, Nat))
  <2>1. S \subseteq Nat
    OBVIOUS
  <2> QED  BY <2>1, NatLessThanWellFounded, WFMin, Zenon
<1>2. \A n \in S : ~(n < m)
  BY <1>1 DEF OpToRel
<1> QED  BY <1>2

LEMMA HighestExists ==
  ASSUME NEW S \in SUBSET Int, IsFiniteSet(S), S # {}
  PROVE  \E x \in S : \A y \in S : y <= x
<1> DEFINE Above(x) == {z \in S : z > x}
           Counts == {Cardinality(Above(x)) : x \in S}
<1>1. \A x \in S : IsFiniteSet(Above(x)) /\ Cardinality(Above(x)) \in Nat
  BY FS_Subset, FS_CardinalityType
<1>2. Counts \in SUBSET Nat /\ Counts # {}
  BY <1>1
<1>3. PICK m \in Counts : \A n \in Counts : m <= n
  <2> HIDE DEF Counts
  <2> QED  BY <1>2, LeastNumber
<1>4. PICK x \in S : m = Cardinality(Above(x))
  BY <1>3
<1>5. ASSUME NEW y \in S, ~(y <= x) PROVE FALSE
  <2>0. y > x /\ ~(y > y) /\ \A z \in S : z > y => z > x
    BY <1>5
  <2>1. Above(y) \in SUBSET Above(x) /\ y \in Above(x) /\ y \notin Above(y)
    BY <2>0, Zenon
  <2>2. Cardinality(Above(y)) <= Cardinality(Above(x)) /\ Cardinality(Above(y)) # Cardinality(Above(x))
    <3> HIDE DEF Above
    <3> QED  BY <1>1, <2>1, FS_Subset
  <2>3. m <= Cardinality(Above(y))
    BY <1>3
  <2>4. Cardinality(Above(x)) \in Nat /\ Cardinality(Above(y)) \in Nat
    BY <1>1
  <2> HIDE DEF Above
  <2> QED  BY <1>4, <2>2, <2>3, <2>4
<1> QED  BY <1>5

LEMMA LowestExists ==
  ASSUME NEW S \in SUBSET Int, IsFiniteSet(S), S # {}
  PROVE  \E x \in S : \A y \in S : x <= y
<1> DEFINE Below(x) == {z \in S : z < x}
           Counts == {Cardinality(Below(x)) : x \in S}
<1>1. \A x \in S : IsFiniteSet(Below(x)) /\ Cardinality(Below(x)) \in Nat
  BY FS_Subset, FS_CardinalityType
<1>2. Counts \in SUBSET Nat /\ Counts # {}
  BY <1>1
<1>3. PICK m \in Counts : \A n \in Counts : m <= n
  <2> HIDE DEF Counts
  <2> QED  BY <1>2, LeastNumber
<1>4. PICK x \in S : m = Cardinality(Below(x))
  BY <1>3
<1>5. ASSUME NEW y \in S, ~(x <= y) PROVE FALSE
  <2>0. y < x /\ ~(y < y) /\ \A z \in S : z < y => z < x
    BY <1>5
  <2>1. Below(y) \in SUBSET Below(x) /\ y \in Below(x) /\ y \notin Below(y)
    BY <2>0, Zenon
  <2>2. Cardinality(Below(y)) <= Cardinality(Below(x)) /\ Cardinality(Below(y)) # Cardinality(Below(x))
    <3> HIDE DEF Below
    <3> QED  BY <1>1, <2>1, FS_Subset
  <2>3. m <= Cardinality(Below(y))
    BY <1>3
  <2>4. Cardinality(Below(x)) \in Nat /\ Cardinality(Below(y)) \in Nat
    BY <1>1
  <2> HIDE DEF Below
  <2> QED  BY <1>4, <2>2, <2>3, <2>4
<1> QED  BY <1>5

\* The values of a column are finitely many.
LEMMA ValuesFinite ==
  ASSUME NEW s \in Seq(Int)
  PROVE  /\ IsFiniteSet({s[i] : i \in DOMAIN s}) /\ {s[i] : i \in DOMAIN s} \in SUBSET Int
         /\ IsFiniteSet(Gate!Finite(s)) /\ Gate!Finite(s) \in SUBSET Int
<1> DEFINE V == {s[i] : i \in DOMAIN s}
<1>1. s \in Surjection(1 .. Len(s), V)
  BY DEF Surjection
<1>2. IsFiniteSet(1 .. Len(s))
  BY FS_Interval
<1>3. V \in SUBSET Int
  OBVIOUS
<1> HIDE DEF V
<1>4. IsFiniteSet(V)
  BY <1>1, <1>2, FS_Surjection
<1>5. Gate!Finite(s) \in SUBSET V
  BY DEF V, Gate!Finite
<1>6. IsFiniteSet(Gate!Finite(s))
  BY <1>4, <1>5, FS_Subset
<1> QED  BY <1>3, <1>4, <1>5, <1>6 DEF V

LEMMA ExtremesAre ==
  ASSUME NEW S \in SUBSET Int, IsFiniteSet(S), S # {}
  PROVE  Gate!Highest(S) \in Int /\ Gate!Lowest(S) \in Int
<1>1. \E x \in S : \A y \in S : y <= x
  BY HighestExists
<1>2. \E x \in S : \A y \in S : x <= y
  BY LowestExists
<1> QED  BY <1>1, <1>2 DEF Gate!Highest, Gate!Lowest

Differ(a) == \A i, j \in DOMAIN a : a[i].name = a[j].name => i = j
NamesWithin(a, b) == \A i \in DOMAIN a : \E j \in DOMAIN b : b[j].name = a[i].name
IsList(a) == Len(a) \in Nat /\ DOMAIN a = 1 .. Len(a)

LEMMA OneUpTo == ASSUME NEW n \in Nat PROVE IsFiniteSet(1 .. n) /\ Cardinality(1 .. n) = n
BY FS_Interval

LEMMA BothWays == ASSUME NEW m \in Nat, NEW n \in Nat, m <= n, n <= m PROVE m = n
OBVIOUS

\* A list whose names all differ, and are all in another list, is no longer than it.
LEMMA NoLonger ==
  ASSUME NEW a, NEW b, IsList(a), IsList(b), Differ(a), NamesWithin(a, b)
  PROVE  Len(a) <= Len(b)
<1> DEFINE f == [i \in 1 .. Len(a) |-> CHOOSE j \in 1 .. Len(b) : b[j].name = a[i].name]
<1>1. \A i \in 1 .. Len(a) : f[i] \in 1 .. Len(b) /\ b[f[i]].name = a[i].name
  BY DEF IsList, NamesWithin
<1>2. f \in Injection(1 .. Len(a), 1 .. Len(b))
  <2>1. f \in [1 .. Len(a) -> 1 .. Len(b)]
    BY <1>1
  <2> HIDE DEF f
  <2>2. \A i, j \in 1 .. Len(a) : f[i] = f[j] => i = j
    BY <1>1 DEF IsList, Differ
  <2> QED  BY <2>1, <2>2 DEF Injection, IsInjective
<1> HIDE DEF f
<1>3. Len(a) \in Nat /\ Len(b) \in Nat
  BY DEF IsList
<1>4. IsFiniteSet(1 .. Len(b)) /\ Cardinality(1 .. Len(b)) = Len(b) /\ Cardinality(1 .. Len(a)) = Len(a)
  BY <1>3, OneUpTo, Zenon
<1> QED  BY <1>2, <1>4, FS_Injection

LEMMA AsLong ==
  ASSUME NEW a, NEW b, IsList(a), IsList(b), Differ(a), Differ(b), NamesWithin(a, b), NamesWithin(b, a)
  PROVE  Len(a) = Len(b)
<1>1. Len(a) <= Len(b) /\ Len(b) <= Len(a)
  BY NoLonger
<1>2. Len(a) \in Nat /\ Len(b) \in Nat
  BY DEF IsList
<1> QED  BY <1>1, <1>2, BothWays, Zenon

-----------------------------------------------------------------------------
(* The regression gate: groups that compare clean agree in all that was          *)
(* recorded, and a group compares clean with itself.                              *)

LEMMA RecordFacts ==
  ASSUME NEW x, RecordType(x)
  PROVE  /\ Len(x.signals) \in Nat /\ DOMAIN x.signals = 1 .. Len(x.signals)
         /\ \A i \in DOMAIN x.signals : x.signals[i].samples \in Seq(Int) /\ x.signals[i].kept \in BOOLEAN
         /\ \A i, j \in DOMAIN x.signals : x.signals[i].name = x.signals[j].name => i = j
         /\ x.metric = {} \/ \E m \in Int : x.metric = {m}
         /\ x.artifact = {} \/ \E a \in Seq(Int) : x.artifact = {a}
<1>1. x.signals \in Seq([name : STRING, samples : Seq(Int), kept : BOOLEAN])
  BY DEF RecordType
<1>2. x.metric \in SUBSET Int /\ x.artifact \in SUBSET Seq(Int)
  BY DEF RecordType
<1>3. \A i, j \in DOMAIN x.signals : x.signals[i].name = x.signals[j].name => i = j
  BY DEF RecordType
<1>4. /\ \A m, n \in x.metric : m = n
      /\ \A a, b \in x.artifact : a = b
  BY DEF RecordType
<1>5. x.metric = {} \/ \E m \in Int : x.metric = {m}
  BY <1>2, <1>4
<1>6. x.artifact = {} \/ \E a \in Seq(Int) : x.artifact = {a}
  BY <1>2, <1>4
<1>7. Len(x.signals) \in Nat /\ DOMAIN x.signals = 1 .. Len(x.signals)
  BY <1>1
<1>8. ASSUME NEW i \in DOMAIN x.signals PROVE x.signals[i].samples \in Seq(Int) /\ x.signals[i].kept \in BOOLEAN
  <2>1. x.signals[i] \in [name : STRING, samples : Seq(Int), kept : BOOLEAN]
    BY <1>1, <1>7, ElementOfSeq
  <2> QED  BY <2>1
<1> QED  BY <1>3, <1>5, <1>6, <1>7, <1>8, Zenon

LEMMA FirstIs ==
  ASSUME NEW x, RecordType(x), NEW i \in DOMAIN x.signals
  PROVE  /\ Gate!Named(x.signals, x.signals[i].name) = {i}
         /\ Gate!FirstOf(x.signals, x.signals[i].name) = x.signals[i]
<1>1. Gate!Named(x.signals, x.signals[i].name) = {i}
  BY RecordFacts DEF Gate!Named
<1>2. i \in Nat
  BY RecordFacts
<1>3. (CHOOSE k \in {i} : \A j \in {i} : k <= j) = i
  BY <1>2
<1> QED  BY <1>1, <1>3 DEF Gate!FirstOf

LEMMA OnlyOf == \A e : Gate!Only({e}) = e
BY DEF Gate!Only

LEMMA GateCounts == ASSUME NEW S PROVE Gate!Cardinality(S) = Cardinality(S)
BY DEF Gate!Cardinality, Cardinality

\* Nothing is infinitely far from its like and within tolerance.
LEMMA InfiniteIsOut ==
  ASSUME limits \in Limits, NEW golden
  PROVE  ~Gate!Within(Gate!Inf, golden)
<1>1. limits.abs \in 0 .. Gate!Inf - 1
  BY RecordsAreTyped DEF RecordsAssumption
<1>2. ~(Gate!Inf <= limits.abs)
  BY <1>1 DEF Gate!Inf
<1> QED  BY <1>2 DEF Gate!Within

\* Where both signals were kept and match, every sample is near its like.
LEMMA MatchIsNear ==
  ASSUME limits \in Limits, NEW a, NEW b, a.samples \in Seq(Int), b.samples \in Seq(Int),
         a.kept, b.kept, Gate!SignalsMatch(a, b), NEW k \in DOMAIN a.samples
  PROVE  Gate!Near(a.samples[k], b.samples[k], a.samples)
<1>1. Gate!Within(Gate!ErrorOf(a.samples[k], b.samples[k]), a.samples)
  BY DEF Gate!SignalsMatch
<1>2. ~Gate!Within(Gate!Inf, a.samples)
  BY InfiniteIsOut
<1>3. CASE a.samples[k] = Gate!NaN /\ b.samples[k] = Gate!NaN
  BY <1>3 DEF Gate!Near
<1>4. CASE a.samples[k] # Gate!NaN /\ b.samples[k] # Gate!NaN
  BY <1>1, <1>4 DEF Gate!Near, Gate!ErrorOf
<1>5. CASE (a.samples[k] = Gate!NaN) # (b.samples[k] = Gate!NaN)
  BY <1>1, <1>2, <1>5 DEF Gate!ErrorOf
<1> QED  BY <1>3, <1>4, <1>5

LEMMA CleanAgrees ==
  ASSUME limits \in Limits, NEW x, NEW y, RecordType(x), RecordType(y), x.status = y.status,
         Gate!SignalsClean(x.signals, y.signals), Gate!MetricsClean(x.metric, y.metric),
         Gate!ArtifactsClean(x.artifact, y.artifact)
  PROVE  Gate!Agree(x, y)
<1> DEFINE a == x.signals
           b == y.signals
<1>1. ASSUME NEW i \in DOMAIN a
      PROVE  \E j \in DOMAIN b : b[j].name = a[i].name /\ Gate!SignalsMatch(a[i], b[j])
  <2>1. /\ Gate!Named(b, a[i].name) # {}
        /\ Gate!SignalsMatch(Gate!FirstOf(a, a[i].name), Gate!FirstOf(b, a[i].name))
    BY DEF Gate!SignalsClean
  <2>2. PICK j \in DOMAIN b : b[j].name = a[i].name
    BY <2>1 DEF Gate!Named
  <2>3. Gate!FirstOf(a, a[i].name) = a[i] /\ Gate!FirstOf(b, b[j].name) = b[j]
    BY FirstIs
  <2> QED  BY <2>1, <2>2, <2>3
<1>2. ASSUME NEW j \in DOMAIN b PROVE \E i \in DOMAIN a : a[i].name = b[j].name
  <2>1. Gate!Named(a, b[j].name) # {}
    BY DEF Gate!SignalsClean
  <2> QED  BY <2>1 DEF Gate!Named
<1>3. Len(a) = Len(b)
  <2>1. IsList(a) /\ IsList(b) /\ Differ(a) /\ Differ(b)
    BY RecordFacts DEF IsList, Differ
  <2>2. NamesWithin(a, b) /\ NamesWithin(b, a)
    BY <1>1, <1>2 DEF NamesWithin
  <2> HIDE DEF a, b
  <2> QED  BY <2>1, <2>2, AsLong, Zenon
<1>4. ASSUME NEW z, RecordType(z), NEW i \in DOMAIN z.signals PROVE Gate!Rank(z, i) = 1
  <2>1. {j \in 1 .. i : z.signals[j].name = z.signals[i].name} = {i}
    BY <1>4, RecordFacts
  <2>2. Cardinality({i}) = 1
    BY FS_Singleton
  <2> QED  BY <2>1, <2>2, GateCounts DEF Gate!Rank
<1>5. ASSUME NEW i \in DOMAIN a
      PROVE  \E j \in DOMAIN b :
               /\ a[i].name = b[j].name /\ Gate!Rank(x, i) = Gate!Rank(y, j)
               /\ Len(a[i].samples) = Len(b[j].samples)
               /\ (a[i].kept /\ b[j].kept) =>
                    \A k \in DOMAIN a[i].samples : Gate!Near(a[i].samples[k], b[j].samples[k], a[i].samples)
  <2>1. PICK j \in DOMAIN b : b[j].name = a[i].name /\ Gate!SignalsMatch(a[i], b[j])
    BY <1>1
  <2>2. Gate!Rank(x, i) = 1 /\ Gate!Rank(y, j) = 1
    BY <1>4
  <2>3. Len(a[i].samples) = Len(b[j].samples)
    BY <2>1 DEF Gate!SignalsMatch
  <2>4. a[i].samples \in Seq(Int) /\ b[j].samples \in Seq(Int)
    BY RecordFacts
  <2>5. ASSUME a[i].kept, b[j].kept, NEW k \in DOMAIN a[i].samples
        PROVE  Gate!Near(a[i].samples[k], b[j].samples[k], a[i].samples)
    <3> HIDE DEF a, b
    <3> QED  BY <2>1, <2>4, <2>5, MatchIsNear
  <2> QED  BY <2>1, <2>2, <2>3, <2>5
<1>6. (x.metric = {}) = (y.metric = {}) /\ (x.artifact = {}) = (y.artifact = {})
  BY DEF Gate!MetricsClean, Gate!ArtifactsClean
<1>7. ASSUME NEW m \in x.metric, NEW n \in y.metric
      PROVE  m = n \/ Gate!Abs(m - n) <= Gate!Big(limits.abs, limits.rel * Gate!Abs(m))
  <2>1. x.metric = {m} /\ y.metric = {n}
    BY RecordFacts
  <2> QED  BY <2>1, OnlyOf DEF Gate!MetricsClean
<1>8. ASSUME NEW p \in x.artifact, NEW q \in y.artifact PROVE Len(p) = Len(q)
  <2>1. x.artifact = {p} /\ y.artifact = {q}
    BY RecordFacts
  <2> QED  BY <2>1, OnlyOf DEF Gate!ArtifactsClean, Gate!FieldsAgree
<1> QED  BY <1>3, <1>5, <1>6, <1>7, <1>8 DEF Gate!Agree

\* A group compares clean with a group that recorded the same.
LEMMA SelfClean ==
  ASSUME limits \in Limits, NEW x, RecordType(x)
  PROVE  /\ Gate!SignalsClean(x.signals, x.signals) /\ Gate!MetricsClean(x.metric, x.metric)
         /\ Gate!ArtifactsClean(x.artifact, x.artifact)
<1>1. \A n \in Int : Gate!Abs(n - n) = 0
  BY DEF Gate!Abs, Gate!Big
<1>2. limits.abs \in Nat /\ limits.rel \in Nat
  BY RecordsAreTyped DEF RecordsAssumption
<1>3. \A golden : Gate!Within(0, golden)
  BY <1>2 DEF Gate!Within
<1>4. ASSUME NEW i \in DOMAIN x.signals PROVE Gate!SignalsMatch(x.signals[i], x.signals[i])
  <2>1. PICK s \in Seq(Int) : s = x.signals[i].samples
    BY RecordFacts
  <2>2. Gate!SummaryError(s, s) = 0
    <3>1. CASE Gate!Finite(s) = {}
      BY <3>1 DEF Gate!SummaryError
    <3>2. CASE Gate!Finite(s) # {}
      <4>1. Gate!Highest(Gate!Finite(s)) \in Int /\ Gate!Lowest(Gate!Finite(s)) \in Int
        BY <3>2, ValuesFinite, ExtremesAre
      <4>2. Gate!SummaryError(s, s) = Gate!Big(0, 0)
        BY <1>1, <3>2, <4>1 DEF Gate!SummaryError
      <4> QED  BY <4>2 DEF Gate!Big
    <3> QED  BY <3>1, <3>2
  <2>3. ASSUME NEW k \in DOMAIN s PROVE Gate!ErrorOf(s[k], s[k]) = 0
    <3>1. s[k] \in Int
      OBVIOUS
    <3>2. CASE s[k] = Gate!NaN
      BY <3>2 DEF Gate!ErrorOf
    <3>3. CASE s[k] # Gate!NaN
      BY <1>1, <3>1, <3>3 DEF Gate!ErrorOf
    <3> QED  BY <3>2, <3>3
  <2> QED  BY <1>3, <2>1, <2>2, <2>3 DEF Gate!SignalsMatch
<1>5. Gate!SignalsClean(x.signals, x.signals)
  <2>1. ASSUME NEW n \in {x.signals[i].name : i \in DOMAIN x.signals}
        PROVE  /\ Gate!Named(x.signals, n) # {}
               /\ Gate!SignalsMatch(Gate!FirstOf(x.signals, n), Gate!FirstOf(x.signals, n))
    <3>1. PICK i \in DOMAIN x.signals : n = x.signals[i].name
      BY <2>1
    <3>2. Gate!Named(x.signals, n) = {i} /\ Gate!FirstOf(x.signals, n) = x.signals[i]
      BY <3>1, FirstIs
    <3> QED  BY <1>4, <3>2
  <2> QED  BY <2>1 DEF Gate!SignalsClean
<1>6. Gate!MetricsClean(x.metric, x.metric)
  <2>1. CASE x.metric = {}
    BY <2>1 DEF Gate!MetricsClean
  <2>2. ASSUME NEW m \in Int, x.metric = {m} PROVE Gate!MetricsClean(x.metric, x.metric)
    <3>1. Gate!Abs(m) \in Nat
      BY DEF Gate!Abs, Gate!Big
    <3>2. limits.rel * Gate!Abs(m) \in Nat
      BY <1>2, <3>1
    <3>3. 0 <= Gate!Big(limits.abs, limits.rel * Gate!Abs(m))
      BY <1>2, <3>2 DEF Gate!Big
    <3> QED  BY <1>1, <2>2, <3>3, OnlyOf DEF Gate!MetricsClean
  <2> QED  BY <2>1, <2>2, RecordFacts
<1>7. Gate!ArtifactsClean(x.artifact, x.artifact)
  <2>1. CASE x.artifact = {}
    BY <2>1 DEF Gate!ArtifactsClean
  <2>2. ASSUME NEW a \in Seq(Int), x.artifact = {a} PROVE Gate!ArtifactsClean(x.artifact, x.artifact)
    <3>1. \A i \in DOMAIN a : a[i] \in Int
      OBVIOUS
    <3>2. Gate!FieldsAgree(a, a)
      BY <1>1, <1>2, <3>1 DEF Gate!FieldsAgree
    <3> QED  BY <2>2, <3>2, OnlyOf DEF Gate!ArtifactsClean
  <2> QED  BY <2>1, <2>2, RecordFacts
<1> QED  BY <1>5, <1>6, <1>7

-----------------------------------------------------------------------------
(* The check of a run against a golden one: what has been read of the two, and   *)
(* what has been found of the groups compared so far.                             *)

GateRecords == Records \cup {Gate!Swept(y) : y \in Records}

LEMMA SweptIsTyped ==
  ASSUME NEW y \in Records
  PROVE  RecordType(Gate!Swept(y)) /\ Gate!Swept(Gate!Swept(y)) = Gate!Swept(y)
<1> DEFINE L == [name : STRING, samples : Seq(Int), kept : BOOLEAN]
           F == [i \in DOMAIN y.signals |-> [y.signals[i] EXCEPT !.kept = FALSE]]
<1>1. RecordType(y)
  BY RecordsAreTyped DEF RecordsAssumption
<1>2. /\ y \in [status : STRING, metric : SUBSET Int, artifact : SUBSET Seq(Int), signals : Seq(L)]
      /\ \A i, j \in DOMAIN y.signals : y.signals[i].name = y.signals[j].name => i = j
      /\ \A m, n \in y.metric : m = n
      /\ \A a, b \in y.artifact : a = b
  BY <1>1 DEF RecordType
<1>3. y.signals \in Seq(L)
  BY <1>2
<1>4. \A i \in DOMAIN y.signals : y.signals[i] \in L
  <2>1. DOMAIN y.signals = 1 .. Len(y.signals)
    BY <1>3
  <2> HIDE DEF L
  <2> QED  BY <1>3, <2>1, ElementOfSeq
<1>5. \A i \in DOMAIN y.signals : F[i] \in L /\ F[i].name = y.signals[i].name /\ F[i].kept = FALSE
  BY <1>4
<1>6. F \in Seq(L) /\ DOMAIN F = DOMAIN y.signals
  <2>1. DOMAIN y.signals = 1 .. Len(y.signals) /\ Len(y.signals) \in Nat
    BY <1>3
  <2>2. F \in [1 .. Len(y.signals) -> L]
    BY <1>5, <2>1
  <2> QED  BY <2>1, <2>2
<1>7. Gate!Swept(y) = [y EXCEPT !.signals = F]
  BY DEF Gate!Swept
<1>8. [i \in DOMAIN F |-> [F[i] EXCEPT !.kept = FALSE]] = F
  <2>1. \A i \in DOMAIN y.signals : [F[i] EXCEPT !.kept = FALSE] = F[i]
    BY <1>5
  <2> QED  BY <1>6, <2>1
<1>9. RecordType([y EXCEPT !.signals = F])
  <2> HIDE DEF F
  <2>1. [y EXCEPT !.signals = F] \in [status : STRING, metric : SUBSET Int, artifact : SUBSET Seq(Int), signals : Seq(L)]
    BY <1>2, <1>6
  <2>2. /\ [y EXCEPT !.signals = F].signals = F /\ [y EXCEPT !.signals = F].metric = y.metric
        /\ [y EXCEPT !.signals = F].artifact = y.artifact
    BY <1>2
  <2> QED  BY <1>2, <1>5, <1>6, <2>1, <2>2 DEF RecordType
<1>10. Gate!Swept([y EXCEPT !.signals = F]) = [y EXCEPT !.signals = F]
  <2> DEFINE z == [y EXCEPT !.signals = F]
  <2>1. z.signals = F
    BY <1>2
  <2>2. Gate!Swept(z) = [z EXCEPT !.signals = F]
    BY <1>8, <2>1 DEF Gate!Swept
  <2> QED  BY <1>2, <2>2
<1> QED  BY <1>7, <1>9, <1>10

LEMMA GateRecordsAreTyped ==
  ASSUME NEW x \in GateRecords
  PROVE  RecordType(x) /\ Gate!Swept(x) \in GateRecords
BY RecordsAreTyped, SweptIsTyped DEF RecordsAssumption, GateRecords

NothingGone == /\ removed \in BOOLEAN /\ (gatePhase = "record" => ~removed)
               /\ (removed => \A g \in Groups : gateRecorded["cand"][g] = {})
Comparing == gatePhase \in {"diff", "closed"}
SeenTrue == Comparing /\ ~removed =>
              \A r \in Gate!Runs, g \in Groups : gateSeen[r][g] = {x.status : x \in gateRecorded[r][g]}
Noted == Comparing => Gate!Missing(gateSeen) \subseteq dirty /\ Gate!Extra(gateSeen) \subseteq dirty
CleanSoFar == Comparing /\ ~removed =>
                \A g \in Gate!Compared(gateSeen) \ gateLeft : g \in dirty \/ Gate!GroupClean(g)
SameIsClean == Comparing /\ ~removed /\ gateRecorded["base"] = gateRecorded["cand"] => dirty = {}
GateInv == /\ Gate!RegTypeOK /\ NothingGone /\ SeenTrue /\ Noted /\ CleanSoFar /\ SameIsClean
           /\ (gatePhase = "closed" => gateLeft = {})

\* What a run has of a group: nothing, or one record.
LEMMA RecordedIs ==
  ASSUME Gate!RegTypeOK, NEW r \in {"base", "cand"}, NEW g \in Groups
  PROVE  gateRecorded[r][g] = {} \/ \E x \in GateRecords : gateRecorded[r][g] = {x}
BY DEF Gate!RegTypeOK, Gate!Runs, GateRecords

LEMMA RowsAre ==
  ASSUME NEW r, NEW g, NEW x, gateRecorded[r][g] = {x}
  PROVE  /\ Gate!Rows(r, g).signals = x.signals /\ Gate!Rows(r, g).metric = x.metric
         /\ Gate!Rows(r, g).artifact = x.artifact
BY OnlyOf DEF Gate!Rows

LEMMA GateAtFirst ==
  ASSUME Gate!RegInit
  PROVE  GateInv
<1>1. Gate!Covered(gateSeen, "base") = {} /\ Gate!Covered(gateSeen, "cand") = {}
  BY DEF Gate!RegInit, Gate!Covered, Gate!Nobody, Gate!Runs
<1>2. Gate!RegTypeOK
  BY <1>1 DEF Gate!RegInit, Gate!RegTypeOK, Gate!Nobody
<1> QED
  BY <1>2 DEF Gate!RegInit, GateInv, NothingGone, Comparing, SeenTrue, Noted, CleanSoFar, SameIsClean

\* Until both runs are there nothing is compared.
LEMMA RecordingKeeps ==
  ASSUME GateInv, Gate!RegTypeOK', gatePhase = "record", gatePhase' \in {"record", "groups"}, removed' = removed
  PROVE  GateInv'
<1>1. NothingGone'
  BY DEF GateInv, NothingGone
<1> QED
  BY <1>1 DEF GateInv, Comparing, SeenTrue, Noted, CleanSoFar, SameIsClean

LEMMA CoveredStays == ASSUME gateSeen' = gateSeen, NEW r PROVE Gate!Covered(gateSeen, r)' = Gate!Covered(gateSeen, r)
BY DEF Gate!Covered

LEMMA RecordKeeps ==
  ASSUME GateInv, Gate!Record
  PROVE  GateInv'
<1>1. PICK r \in Gate!Runs, g \in Groups, x \in Records :
        /\ gatePhase = "record" /\ gateRecorded[r][g] = {}
        /\ gateRecorded' = [gateRecorded EXCEPT ![r][g] = {x}]
        /\ UNCHANGED <<limits, gatePhase, gateSeen, gateLeft, dirty, removed>>
  BY DEF Gate!Record
<1>2. Gate!RegTypeOK'
  <2>1. gateRecorded' \in [Gate!Runs -> [Groups -> {{}} \cup {{z} : z \in Records \cup {Gate!Swept(y) : y \in Records}}]]
    BY <1>1 DEF GateInv, Gate!RegTypeOK
  <2> QED  BY <1>1, <2>1, CoveredStays DEF GateInv, Gate!RegTypeOK
<1> QED  BY <1>1, <1>2, RecordingKeeps

LEMMA SweepKeeps ==
  ASSUME GateInv, Gate!Sweep
  PROVE  GateInv'
<1>1. PICK r \in Gate!Runs, g \in Groups :
        /\ gatePhase = "record" /\ gateRecorded[r][g] # {}
        /\ gateRecorded' = [gateRecorded EXCEPT ![r][g] = {Gate!Swept(Gate!Only(gateRecorded[r][g]))}]
        /\ UNCHANGED <<limits, gatePhase, gateSeen, gateLeft, dirty, removed>>
  BY DEF Gate!Sweep, GateInv, Gate!RegTypeOK
<1>2. PICK x \in GateRecords : gateRecorded[r][g] = {x}
  BY <1>1, RecordedIs DEF GateInv, Gate!Runs
<1>3. gateRecorded' = [gateRecorded EXCEPT ![r][g] = {Gate!Swept(x)}] /\ Gate!Swept(x) \in GateRecords
  BY <1>1, <1>2, OnlyOf, GateRecordsAreTyped
<1>4. Gate!RegTypeOK'
  <2>1. gateRecorded' \in [Gate!Runs -> [Groups -> {{}} \cup {{z} : z \in GateRecords}]]
    BY <1>3 DEF GateInv, Gate!RegTypeOK, GateRecords
  <2> QED  BY <1>1, <2>1, CoveredStays DEF GateInv, Gate!RegTypeOK, GateRecords
<1> QED  BY <1>1, <1>4, RecordingKeeps

LEMMA PromoteKeeps ==
  ASSUME GateInv, Gate!Promote
  PROVE  GateInv'
<1>1. /\ gatePhase = "record" /\ gatePhase' = "groups"
      /\ UNCHANGED <<gateRecorded, limits, gateSeen, gateLeft, dirty, removed>>
  BY DEF Gate!Promote
<1>2. Gate!RegTypeOK'
  BY <1>1, CoveredStays DEF GateInv, Gate!RegTypeOK
<1> QED  BY <1>1, <1>2, RecordingKeeps

LEMMA DeleteRunKeeps ==
  ASSUME GateInv, Gate!DeleteRun
  PROVE  GateInv'
<1>1. /\ gatePhase # "record" /\ removed' = TRUE
      /\ gateRecorded' = [gateRecorded EXCEPT !["cand"] = [g \in Groups |-> {}]]
      /\ UNCHANGED <<limits, gatePhase, gateSeen, gateLeft, dirty>>
  BY DEF Gate!DeleteRun
<1>2. Gate!RegTypeOK'
  <2>1. gateRecorded' \in [Gate!Runs -> [Groups -> {{}} \cup {{z} : z \in Records \cup {Gate!Swept(y) : y \in Records}}]]
    BY <1>1 DEF GateInv, Gate!RegTypeOK
  <2> QED  BY <1>1, <2>1, CoveredStays DEF GateInv, Gate!RegTypeOK
<1>3. \A g \in Groups : gateRecorded'["cand"][g] = {}
  BY <1>1 DEF GateInv, Gate!RegTypeOK, Gate!Runs
<1>4. NothingGone'
  BY <1>1, <1>3 DEF NothingGone
<1>5. Noted'
  BY <1>1, CoveredStays DEF GateInv, Noted, Comparing, Gate!Missing, Gate!Extra
<1> QED  BY <1>1, <1>2, <1>4, <1>5 DEF GateInv, SeenTrue, CleanSoFar, SameIsClean

\* What a comparison depends on.
LEMMA CleanStays ==
  ASSUME UNCHANGED <<gateRecorded, limits, gateSeen>>, NEW g
  PROVE  Gate!GroupClean(g)' <=> Gate!GroupClean(g)
<1>1. \A e, s : Gate!Within(e, s)' <=> Gate!Within(e, s)
  BY DEF Gate!Within
<1>2. \A a, b : Gate!SignalsMatch(a, b)' <=> Gate!SignalsMatch(a, b)
  BY <1>1 DEF Gate!SignalsMatch
<1>3. \A a, b : Gate!SignalsClean(a, b)' <=> Gate!SignalsClean(a, b)
  BY <1>2 DEF Gate!SignalsClean
<1>4. \A a, b : Gate!MetricsClean(a, b)' <=> Gate!MetricsClean(a, b)
  BY DEF Gate!MetricsClean
<1>5. \A a, b : Gate!FieldsAgree(a, b)' <=> Gate!FieldsAgree(a, b)
  BY DEF Gate!FieldsAgree
<1>6. \A a, b : Gate!ArtifactsClean(a, b)' <=> Gate!ArtifactsClean(a, b)
  BY <1>5 DEF Gate!ArtifactsClean
<1>7. Gate!Rows("base", g)' = Gate!Rows("base", g) /\ Gate!Rows("cand", g)' = Gate!Rows("cand", g)
  BY DEF Gate!Rows
<1> QED  BY <1>3, <1>4, <1>6, <1>7 DEF Gate!GroupClean

LEMMA ReadGroupsKeeps ==
  ASSUME GateInv, Gate!ReadGroups
  PROVE  GateInv'
<1>1. PICK s : /\ s = [r \in Gate!Runs |-> [g \in Groups |-> {x.status : x \in gateRecorded[r][g]}]]
               /\ gateSeen' = s /\ dirty' = Gate!Missing(s) \cup Gate!Extra(s)
               /\ gateLeft' = Gate!Compared(s)
  BY DEF Gate!ReadGroups
<1>2. /\ ~removed /\ removed' = removed /\ gatePhase = "groups" /\ gatePhase' = "diff"
      /\ gateRecorded' = gateRecorded /\ limits' = limits
  BY DEF Gate!ReadGroups
<1>3. /\ \A r \in Gate!Runs, g \in Groups : s[r][g] = {x.status : x \in gateRecorded[r][g]}
      /\ Gate!Covered(s, "base") \subseteq Groups /\ Gate!Covered(s, "cand") \subseteq Groups
  BY <1>1 DEF Gate!Runs, Gate!Covered
<1>4. /\ Gate!Covered(gateSeen, "base")' = Gate!Covered(s, "base")
      /\ Gate!Covered(gateSeen, "cand")' = Gate!Covered(s, "cand")
  BY <1>1 DEF Gate!Covered
<1>5. Gate!RegTypeOK'
  BY <1>1, <1>2, <1>3, <1>4 DEF GateInv, Gate!RegTypeOK, Gate!Compared, Gate!Missing, Gate!Extra
<1>6. NothingGone'
  BY <1>2 DEF GateInv, NothingGone
<1>7. SeenTrue'
  BY <1>1, <1>2, <1>3 DEF SeenTrue
<1>8. Noted'
  BY <1>1, <1>2, <1>4 DEF Noted, Gate!Missing, Gate!Extra
<1>9. CleanSoFar'
  BY <1>1, <1>4 DEF CleanSoFar, Gate!Compared
<1>10. SameIsClean'
  <2>1. ASSUME gateRecorded["base"] = gateRecorded["cand"] PROVE dirty' = {}
    <3>1. \A g \in Groups : s["base"][g] = s["cand"][g]
      BY <1>3, <2>1 DEF Gate!Runs
    <3>2. Gate!Covered(s, "base") = Gate!Covered(s, "cand")
      BY <3>1 DEF Gate!Covered
    <3> QED  BY <1>1, <3>2 DEF Gate!Missing, Gate!Extra
  <2> QED  BY <1>2, <2>1 DEF SameIsClean
<1> QED  BY <1>2, <1>5, <1>6, <1>7, <1>8, <1>9, <1>10 DEF GateInv

\* A group both runs cover has one record in each, and its rows are what those hold.
LEMMA ComparedRows ==
  ASSUME Gate!RegTypeOK, SeenTrue, Comparing, ~removed, NEW g \in Gate!Compared(gateSeen)
  PROVE  /\ g \in Groups
         /\ \E x \in GateRecords : gateRecorded["base"][g] = {x} /\ gateSeen["base"][g] = {x.status}
         /\ \E x \in GateRecords : gateRecorded["cand"][g] = {x} /\ gateSeen["cand"][g] = {x.status}
<1>1. g \in Groups /\ gateSeen["base"][g] # {} /\ gateSeen["cand"][g] # {}
  BY DEF Gate!Compared, Gate!Covered
<1>2. /\ gateSeen["base"][g] = {x.status : x \in gateRecorded["base"][g]}
      /\ gateSeen["cand"][g] = {x.status : x \in gateRecorded["cand"][g]}
  BY <1>1 DEF SeenTrue, Gate!Runs
<1>3. /\ gateRecorded["base"][g] = {} \/ \E x \in GateRecords : gateRecorded["base"][g] = {x}
      /\ gateRecorded["cand"][g] = {} \/ \E x \in GateRecords : gateRecorded["cand"][g] = {x}
  BY <1>1, RecordedIs
<1> QED  BY <1>1, <1>2, <1>3

LEMMA DiffGroupKeeps ==
  ASSUME GateInv, Gate!DiffGroup
  PROVE  GateInv'
<1>1. PICK g \in gateLeft :
        /\ gatePhase = "diff" /\ gateLeft' = gateLeft \ {g}
        /\ dirty' = IF Gate!GroupClean(g) THEN dirty ELSE dirty \cup {g}
        /\ UNCHANGED <<gateRecorded, limits, gatePhase, gateSeen, removed>>
  BY DEF Gate!DiffGroup
<1>2. g \in Gate!Compared(gateSeen) /\ g \in Groups
  BY DEF GateInv, Gate!RegTypeOK, Gate!Compared, Gate!Covered
<1>3. dirty \subseteq dirty' /\ dirty' \subseteq Groups
  BY <1>1, <1>2 DEF GateInv, Gate!RegTypeOK
<1>4. Gate!RegTypeOK'
  BY <1>1, <1>3, CoveredStays DEF GateInv, Gate!RegTypeOK
<1>5. NothingGone' /\ SeenTrue'
  BY <1>1 DEF GateInv, NothingGone, SeenTrue, Comparing
<1>6. Noted'
  BY <1>1, <1>3, CoveredStays DEF GateInv, Noted, Comparing, Gate!Missing, Gate!Extra
<1>7. CleanSoFar'
  <2>1. ASSUME ~removed, NEW h \in Gate!Compared(gateSeen) \ gateLeft', h \notin dirty' PROVE Gate!GroupClean(h)
    <3>1. CASE h = g
      BY <1>1, <2>1, <3>1
    <3>2. CASE h # g
      BY <1>1, <1>3, <2>1, <3>2 DEF GateInv, CleanSoFar, Comparing
    <3> QED  BY <3>1, <3>2
  <2>2. ASSUME ~removed', NEW h \in Gate!Compared(gateSeen)' \ gateLeft', h \notin dirty' PROVE Gate!GroupClean(h)'
    <3>1. h \in Gate!Compared(gateSeen) \ gateLeft'
      BY <1>1, <2>2 DEF Gate!Compared, Gate!Covered
    <3> QED  BY <1>1, <2>1, <2>2, <3>1, CleanStays
  <2> QED  BY <2>2 DEF CleanSoFar
<1>8. SameIsClean'
  <2>1. ASSUME ~removed, gateRecorded["base"] = gateRecorded["cand"] PROVE Gate!GroupClean(g)
    <3>1. Comparing /\ Gate!RegTypeOK /\ SeenTrue
      BY <1>1 DEF GateInv, Comparing
    <3>2. PICK x \in GateRecords : gateRecorded["base"][g] = {x} /\ gateSeen["base"][g] = {x.status}
      BY <1>2, <2>1, <3>1, ComparedRows
    <3>3. PICK y \in GateRecords : gateRecorded["cand"][g] = {y} /\ gateSeen["cand"][g] = {y.status}
      BY <1>2, <2>1, <3>1, ComparedRows
    <3>4. x = y
      BY <2>1, <3>2, <3>3
    <3>5. RecordType(x) /\ limits \in Limits
      BY <3>1, GateRecordsAreTyped DEF Gate!RegTypeOK
    <3>6. /\ Gate!Rows("base", g).signals = x.signals /\ Gate!Rows("base", g).metric = x.metric
          /\ Gate!Rows("base", g).artifact = x.artifact
          /\ Gate!Rows("cand", g).signals = x.signals /\ Gate!Rows("cand", g).metric = x.metric
          /\ Gate!Rows("cand", g).artifact = x.artifact
      BY <3>2, <3>3, <3>4, RowsAre
    <3>7. /\ Gate!SignalsClean(x.signals, x.signals) /\ Gate!MetricsClean(x.metric, x.metric)
          /\ Gate!ArtifactsClean(x.artifact, x.artifact)
      BY <3>5, SelfClean
    <3> QED  BY <3>2, <3>3, <3>4, <3>6, <3>7 DEF Gate!GroupClean
  <2> QED  BY <1>1, <2>1 DEF GateInv, SameIsClean, Comparing
<1> QED  BY <1>1, <1>4, <1>5, <1>6, <1>7, <1>8 DEF GateInv

LEMMA GateRests ==
  ASSUME GateInv, UNCHANGED <<gateRecorded, limits, gateSeen, gateLeft, dirty, removed>>,
         \/ gatePhase' = gatePhase
         \/ gatePhase = "diff" /\ gatePhase' = "closed" /\ gateLeft = {}
  PROVE  GateInv'
<1>1. /\ Gate!Covered(gateSeen, "base")' = Gate!Covered(gateSeen, "base")
      /\ Gate!Covered(gateSeen, "cand")' = Gate!Covered(gateSeen, "cand")
  BY DEF Gate!Covered
<1>2. Comparing' <=> Comparing
  BY DEF Comparing
<1>3. Gate!RegTypeOK' /\ NothingGone' /\ SeenTrue' /\ SameIsClean'
  BY <1>1, <1>2 DEF GateInv, Gate!RegTypeOK, NothingGone, SeenTrue, SameIsClean
<1>4. Noted'
  BY <1>1, <1>2 DEF GateInv, Noted, Gate!Missing, Gate!Extra
<1>5. CleanSoFar'
  <2>1. ASSUME ~removed', Comparing', NEW h \in Gate!Compared(gateSeen)' \ gateLeft', h \notin dirty'
        PROVE  Gate!GroupClean(h)'
    <3>1. h \in Gate!Compared(gateSeen) \ gateLeft /\ h \notin dirty
      BY <1>1, <2>1 DEF Gate!Compared
    <3>2. Gate!GroupClean(h)
      BY <1>2, <2>1, <3>1 DEF GateInv, CleanSoFar
    <3> QED  BY <3>2, CleanStays
  <2> QED  BY <2>1 DEF CleanSoFar
<1> QED  BY <1>3, <1>4, <1>5 DEF GateInv

LEMMA GateSteps ==
  ASSUME GateInv, Gate!RegNext \/ UNCHANGED Gate!regVars
  PROVE  GateInv'
<1>1. CASE Gate!Close
  BY <1>1, GateRests DEF Gate!Close
<1>2. CASE UNCHANGED Gate!regVars
  BY <1>2, GateRests DEF Gate!regVars
<1> QED
  BY <1>1, <1>2, RecordKeeps, SweepKeeps, PromoteKeeps, DeleteRunKeeps, ReadGroupsKeeps, DiffGroupKeeps
  DEF Gate!RegNext

-----------------------------------------------------------------------------
(* What a pass vouches for, and when it is given.                                *)

LEMMA GateVouches ==
  ASSUME GateInv
  PROVE  Gate!GateIsSound
<1> SUFFICES ASSUME Gate!Passed, ~removed, NEW g \in Groups
             PROVE  /\ gateRecorded["base"][g] # {} => gateRecorded["cand"][g] # {}
                    /\ gateRecorded["cand"][g] # {} /\ gateRecorded["base"][g] = {} => limits.new
                    /\ \A x \in gateRecorded["base"][g], y \in gateRecorded["cand"][g] : Gate!Agree(x, y)
  BY DEF Gate!GateIsSound
<1>1. gatePhase = "closed" /\ dirty = {} /\ Comparing /\ gateLeft = {}
  BY DEF Gate!Passed, Comparing, GateInv
<1>2. Gate!Missing(gateSeen) = {} /\ Gate!Extra(gateSeen) = {}
  BY <1>1 DEF GateInv, Noted
<1>3. /\ gateSeen["base"][g] = {x.status : x \in gateRecorded["base"][g]}
      /\ gateSeen["cand"][g] = {x.status : x \in gateRecorded["cand"][g]}
  BY <1>1 DEF GateInv, SeenTrue, Gate!Runs
<1>4. /\ g \in Gate!Covered(gateSeen, "base") <=> gateRecorded["base"][g] # {}
      /\ g \in Gate!Covered(gateSeen, "cand") <=> gateRecorded["cand"][g] # {}
  BY <1>3 DEF Gate!Covered
<1>5. gateRecorded["base"][g] # {} => gateRecorded["cand"][g] # {}
  BY <1>2, <1>4 DEF Gate!Missing
<1>6. gateRecorded["cand"][g] # {} /\ gateRecorded["base"][g] = {} => limits.new
  BY <1>2, <1>4 DEF Gate!Extra
<1>7. ASSUME NEW x \in gateRecorded["base"][g], NEW y \in gateRecorded["cand"][g] PROVE Gate!Agree(x, y)
  <2>1. gateRecorded["base"][g] = {x} /\ gateRecorded["cand"][g] = {y} /\ x \in GateRecords /\ y \in GateRecords
    BY RecordedIs DEF GateInv
  <2>2. g \in Gate!Compared(gateSeen)
    BY <1>4, <2>1 DEF Gate!Compared
  <2>3. Gate!GroupClean(g)
    BY <1>1, <2>2 DEF GateInv, CleanSoFar
  <2>4. x.status = y.status
    BY <1>3, <2>1, <2>3 DEF Gate!GroupClean
  <2>5. /\ Gate!Rows("base", g).signals = x.signals /\ Gate!Rows("base", g).metric = x.metric
        /\ Gate!Rows("base", g).artifact = x.artifact
        /\ Gate!Rows("cand", g).signals = y.signals /\ Gate!Rows("cand", g).metric = y.metric
        /\ Gate!Rows("cand", g).artifact = y.artifact
    BY <2>1, RowsAre
  <2>6. /\ Gate!SignalsClean(x.signals, y.signals) /\ Gate!MetricsClean(x.metric, y.metric)
        /\ Gate!ArtifactsClean(x.artifact, y.artifact)
    BY <2>3, <2>5 DEF Gate!GroupClean
  <2>7. RecordType(x) /\ RecordType(y) /\ limits \in Limits
    BY <2>1, GateRecordsAreTyped DEF GateInv, Gate!RegTypeOK
  <2> QED  BY <2>4, <2>6, <2>7, CleanAgrees
<1> QED  BY <1>5, <1>6, <1>7

LEMMA DeletionShows ==
  ASSUME GateInv
  PROVE  Gate!DeletionIsNoticed
<1> SUFFICES ASSUME gatePhase = "diff", removed, NEW g \in gateLeft,
                    NEW x \in gateRecorded["base"][g], x.signals # <<>>
             PROVE  ~Gate!GroupClean(g)
  BY DEF Gate!DeletionIsNoticed
<1>1. g \in Groups
  BY DEF GateInv, Gate!RegTypeOK, Gate!Covered
<1>2. gateRecorded["base"][g] = {x} /\ RecordType(x)
  BY <1>1, RecordedIs, GateRecordsAreTyped DEF GateInv
<1>3. Gate!Rows("base", g).signals = x.signals
  BY <1>2, RowsAre
<1>4. Gate!Rows("cand", g).signals = <<>>
  BY <1>1 DEF GateInv, NothingGone, Gate!Rows
<1>5. PICK i \in DOMAIN x.signals : TRUE
  <2>1. x.signals \in Seq([name : STRING, samples : Seq(Int), kept : BOOLEAN])
    BY <1>2 DEF RecordType
  <2>2. Len(x.signals) \in Nat \ {0} /\ DOMAIN x.signals = 1 .. Len(x.signals)
    BY <2>1, EmptySeq, LenProperties
  <2>3. 1 \in DOMAIN x.signals
    BY <2>2
  <2> QED  BY <2>3
<1>6. Gate!Named(<<>>, x.signals[i].name) = {}
  BY DEF Gate!Named
<1>7. ~Gate!SignalsClean(x.signals, <<>>)
  BY <1>5, <1>6 DEF Gate!SignalsClean
<1> QED  BY <1>3, <1>4, <1>7 DEF Gate!GroupClean

LEMMA ResolveIs ==
  ASSUME NEW x, RecordType(x), NEW s \in Gate!Subjects
  PROVE  Gate!Resolve(x, s) = {} \/ \E k \in Int : Gate!Resolve(x, s) = {k}
<1>1. CASE s = "metric"
  BY <1>1, RecordFacts DEF Gate!Resolve
<1>2. CASE s = "max"
  <2> DEFINE J == {j \in DOMAIN x.signals : j = 1 /\ Gate!Finite(x.signals[j].samples) # {}}
  <2>1. Gate!Resolve(x, s) = {Gate!Highest(Gate!Finite(t.samples)) : t \in {x.signals[i] : i \in J}}
    BY <1>2 DEF Gate!Resolve
  <2>2. CASE J = {}
    BY <2>1, <2>2
  <2>3. CASE J # {}
    <3>1. J = {1} /\ 1 \in DOMAIN x.signals /\ Gate!Finite(x.signals[1].samples) # {}
      BY <2>3
    <3>2. Gate!Highest(Gate!Finite(x.signals[1].samples)) \in Int
      BY <3>1, RecordFacts, ValuesFinite, ExtremesAre
    <3>3. Gate!Resolve(x, s) = {Gate!Highest(Gate!Finite(x.signals[1].samples))}
      BY <2>1, <3>1
    <3> QED  BY <3>2, <3>3
  <2> QED  BY <2>2, <2>3
<1>3. CASE s = "samples"
  <2>1. Gate!Resolve(x, s) = {Len(x.signals[i].samples) : i \in DOMAIN x.signals \cap {1}}
    BY <1>3 DEF Gate!Resolve
  <2>2. 1 \in DOMAIN x.signals => Len(x.signals[1].samples) \in Int
    BY RecordFacts
  <2> QED  BY <2>1, <2>2
<1>4. CASE s = "rows"
  <2>1. Gate!Resolve(x, s) = {Len(a) : a \in x.artifact}
    BY <1>4 DEF Gate!Resolve
  <2> QED  BY <2>1, RecordFacts
<1>5. CASE s = "largest"
  <2> DEFINE Top(b) == Gate!Highest({b[i] : i \in DOMAIN b})
  <2>1. Gate!Resolve(x, s) = {Top(b) : b \in x.artifact \ {<<>>}}
    BY <1>5 DEF Gate!Resolve
  <2>2. CASE x.artifact \ {<<>>} = {}
    BY <2>1, <2>2
  <2>3. CASE x.artifact \ {<<>>} # {}
    <3>1. PICK a \in Seq(Int) : x.artifact \ {<<>>} = {a} /\ a # <<>>
      BY <2>3, RecordFacts
    <3>2. {a[i] : i \in DOMAIN a} # {}
      <4>1. Len(a) # 0
        BY <3>1, EmptySeq
      <4> QED  BY <4>1
    <3>3. Top(a) \in Int
      BY <3>2, ValuesFinite, ExtremesAre
    <3> HIDE DEF Top
    <3>4. Gate!Resolve(x, s) = {Top(a)}
      BY <2>1, <3>1
    <3> QED  BY <3>3, <3>4
  <2> QED  BY <2>2, <2>3
<1> QED  BY <1>1, <1>2, <1>3, <1>4, <1>5 DEF Gate!Subjects

\* An assertion does not apply, is in error, or is about two numbers.
LEMMA EvaluateIs ==
  ASSUME NEW x, RecordType(x), NEW golden, golden = {} \/ \E y : RecordType(y) /\ golden = {y},
         NEW s \in Gate!Subjects, NEW o \in Gate!Operands
  PROVE  \/ \A t : t.operand = o => Gate!Evaluate(x, golden, s, t) \in {"not_applicable", "error"}
         \/ /\ Gate!Resolve(x, s) # {} /\ (o.golden => golden # {} /\ Gate!Resolve(Gate!Only(golden), s) # {})
            /\ \E k, l \in Int : \A t : t.operand = o =>
                 Gate!Evaluate(x, golden, s, t) = IF Gate!Holds(t, k, l) THEN "pass" ELSE "fail"
<1>1. CASE Gate!Resolve(x, s) = {}
  BY <1>1 DEF Gate!Evaluate
<1>2. CASE Gate!Resolve(x, s) # {} /\ o.golden /\ golden = {}
  BY <1>2 DEF Gate!Evaluate
<1>3. ASSUME NEW k \in Int, Gate!Resolve(x, s) = {k}, ~(o.golden /\ golden = {})
      PROVE  \/ \A t : t.operand = o => Gate!Evaluate(x, golden, s, t) \in {"not_applicable", "error"}
             \/ /\ o.golden => golden # {} /\ Gate!Resolve(Gate!Only(golden), s) # {}
                /\ \E l \in Int : \A t : t.operand = o =>
                     Gate!Evaluate(x, golden, s, t) = IF Gate!Holds(t, k, l) THEN "pass" ELSE "fail"
  <2> DEFINE R == IF o.golden THEN Gate!Resolve(Gate!Only(golden), s) ELSE {o.n}
  <2>1. R = {} \/ \E l \in Int : R = {l}
    <3>1. CASE o.golden
      <4>1. PICK y : RecordType(y) /\ golden = {y}
        BY <1>3, <3>1
      <4>2. R = Gate!Resolve(y, s)
        BY <3>1, <4>1, OnlyOf
      <4> QED  BY <4>1, <4>2, ResolveIs
    <3>2. CASE ~o.golden
      <4>1. o.n \in Int
        BY <3>2, RecordsAreTyped DEF Gate!Operands, RecordsAssumption
      <4> QED  BY <3>2, <4>1
    <3> QED  BY <3>1, <3>2
  <2>2. CASE R = {}
    <3>1. \A t : t.operand = o => Gate!Evaluate(x, golden, s, t) = "error"
      BY <1>3, <2>2 DEF Gate!Evaluate
    <3> QED  BY <3>1
  <2>3. ASSUME NEW l \in Int, R = {l}
        PROVE  /\ o.golden => golden # {} /\ Gate!Resolve(Gate!Only(golden), s) # {}
               /\ \A t : t.operand = o =>
                    Gate!Evaluate(x, golden, s, t) = IF Gate!Holds(t, k, l) THEN "pass" ELSE "fail"
    <3>1. Gate!Only(Gate!Resolve(x, s)) = k /\ Gate!Only(R) = l
      BY <1>3, <2>3, OnlyOf
    <3>2. ASSUME NEW t, t.operand = o
          PROVE  Gate!Evaluate(x, golden, s, t) = IF Gate!Holds(t, k, l) THEN "pass" ELSE "fail"
      BY <1>3, <2>3, <3>1, <3>2 DEF Gate!Evaluate
    <3> QED  BY <1>3, <2>3, <3>2
  <2> QED  BY <2>1, <2>2, <2>3
<1> QED
  <2>1. CASE Gate!Resolve(x, s) # {} /\ ~(o.golden /\ golden = {})
    <3>1. PICK k \in Int : Gate!Resolve(x, s) = {k}
      BY <2>1, ResolveIs
    <3> QED  BY <1>3, <2>1, <3>1
  <2> QED  BY <1>1, <1>2, <2>1

LEMMA AssertionsStand ==
  ASSUME GateInv
  PROVE  Gate!AssertionsAreTrue
<1> SUFFICES ASSUME NEW g \in Groups, NEW s \in Gate!Subjects,
                    NEW golden \in {{}, gateRecorded["base"][g]}, NEW x \in gateRecorded["cand"][g]
             PROVE  /\ \A t \in Gate!Tests : Gate!Evaluate(x, golden, s, t) = "pass" =>
                         /\ Gate!Resolve(x, s) # {}
                         /\ t.operand.golden => golden # {} /\ Gate!Resolve(Gate!Only(golden), s) # {}
                    /\ \A o \in Gate!Operands :
                         LET Verdict(op) == Gate!Evaluate(x, golden, s, [op |-> op, operand |-> o, amount |-> 0])
                             passing == {op \in {"<", "==", ">"} : Verdict(op) = "pass"}
                         IN /\ \A p, q \in passing : p = q
                            /\ Verdict("==") \in {"pass", "fail"} => passing # {}
                            /\ (Verdict("!=") = "pass") = (Verdict("==") = "fail")
  BY DEF Gate!AssertionsAreTrue
<1>1. RecordType(x) /\ (golden = {} \/ \E y : RecordType(y) /\ golden = {y})
  BY RecordedIs, GateRecordsAreTyped DEF GateInv
<1>2. ASSUME NEW t \in Gate!Tests, Gate!Evaluate(x, golden, s, t) = "pass"
      PROVE  /\ Gate!Resolve(x, s) # {}
             /\ t.operand.golden => golden # {} /\ Gate!Resolve(Gate!Only(golden), s) # {}
  <2>1. t.operand \in Gate!Operands
    BY DEF Gate!Tests
  <2> QED  BY <1>1, <1>2, <2>1, EvaluateIs
<1>3. ASSUME NEW o \in Gate!Operands
      PROVE  LET Verdict(op) == Gate!Evaluate(x, golden, s, [op |-> op, operand |-> o, amount |-> 0])
                 passing == {op \in {"<", "==", ">"} : Verdict(op) = "pass"}
             IN /\ \A p, q \in passing : p = q
                /\ Verdict("==") \in {"pass", "fail"} => passing # {}
                /\ (Verdict("!=") = "pass") = (Verdict("==") = "fail")
  <2> DEFINE Test(op) == [op |-> op, operand |-> o, amount |-> 0]
             Verdict(op) == Gate!Evaluate(x, golden, s, Test(op))
  <2>1. CASE \A op : Verdict(op) \in {"not_applicable", "error"}
    BY <2>1
  <2>2. ASSUME NEW k \in Int, NEW l \in Int,
               \A op : Verdict(op) = IF Gate!Holds(Test(op), k, l) THEN "pass" ELSE "fail"
        PROVE  /\ \A p, q \in {op \in {"<", "==", ">"} : Verdict(op) = "pass"} : p = q
               /\ {op \in {"<", "==", ">"} : Verdict(op) = "pass"} # {}
               /\ (Verdict("!=") = "pass") = (Verdict("==") = "fail")
    <3>1. /\ Gate!Holds(Test("<"), k, l) <=> k < l
          /\ Gate!Holds(Test("=="), k, l) <=> k = l
          /\ Gate!Holds(Test(">"), k, l) <=> k > l
          /\ Gate!Holds(Test("!="), k, l) <=> k # l
      BY DEF Gate!Holds
    <3>2. /\ Verdict("<") = "pass" <=> k < l
          /\ Verdict("==") = "pass" <=> k = l
          /\ Verdict(">") = "pass" <=> k > l
          /\ Verdict("!=") = "pass" <=> k # l
          /\ Verdict("==") = "fail" <=> k # l
      BY <2>2, <3>1
    <3>3. \/ k < l /\ ~(k > l) /\ k # l
          \/ k > l /\ ~(k < l) /\ k # l
          \/ k = l /\ ~(k < l) /\ ~(k > l)
      OBVIOUS
    <3> HIDE DEF Verdict
    <3> QED  BY <3>2, <3>3
  <2>3. \A op : Test(op).operand = o
    OBVIOUS
  <2>4. \/ \A op : Verdict(op) \in {"not_applicable", "error"}
        \/ \E k, l \in Int : \A op : Verdict(op) = IF Gate!Holds(Test(op), k, l) THEN "pass" ELSE "fail"
    <3> HIDE DEF Test
    <3>1. \/ \A t : t.operand = o => Gate!Evaluate(x, golden, s, t) \in {"not_applicable", "error"}
          \/ \E k, l \in Int : \A t : t.operand = o =>
               Gate!Evaluate(x, golden, s, t) = IF Gate!Holds(t, k, l) THEN "pass" ELSE "fail"
      BY <1>1, EvaluateIs, Zenon
    <3>2. CASE \A t : t.operand = o => Gate!Evaluate(x, golden, s, t) \in {"not_applicable", "error"}
      BY <2>3, <3>2, Zenon
    <3>3. ASSUME NEW k \in Int, NEW l \in Int,
                 \A t : t.operand = o =>
                   Gate!Evaluate(x, golden, s, t) = IF Gate!Holds(t, k, l) THEN "pass" ELSE "fail"
          PROVE  \A op : Verdict(op) = IF Gate!Holds(Test(op), k, l) THEN "pass" ELSE "fail"
      BY <2>3, <3>3, Zenon
    <3> QED  BY <3>1, <3>2, <3>3
  <2> QED  BY <2>1, <2>2, <2>4
<1> QED  BY <1>2, <1>3

-----------------------------------------------------------------------------
(* Pipelines: what the editor can have written, and what the hash makes of it.   *)

ParamNames == UNION {{spec.name : spec \in Descriptor[k].params} : k \in Kinds}
ParamValues == Values \cup (UNION {{<<"int", n>> : n \in raw.int} : raw \in Typed})
                      \cup (UNION {{<<"float", n>> : n \in raw.float} : raw \in Typed})
ParamSets == UNION {[D -> ParamValues] : D \in SUBSET ParamNames}
WrittenStage == [kind : Kinds, params : ParamSets, enabled : BOOLEAN]
Pipeline(p) == p \in Seq(WrittenStage) /\ Len(p) <= MaxStages

LEMMA PipelineFacts ==
  ASSUME NEW p, Pipeline(p)
  PROVE  /\ Len(p) \in Nat /\ DOMAIN p = 1 .. Len(p)
         /\ \A i \in DOMAIN p : p[i] \in WrittenStage
         /\ Pipelines!Enabled(p) \subseteq 1 .. Len(p)
<1>1. p \in Seq(WrittenStage)
  BY DEF Pipeline
<1>2. Len(p) \in Nat /\ DOMAIN p = 1 .. Len(p)
  BY <1>1, LenProperties
<1>3. \A i \in DOMAIN p : p[i] \in WrittenStage
  BY <1>1, <1>2, ElementOfSeq
<1> QED  BY <1>2, <1>3 DEF Pipelines!Enabled

LEMMA PipelinesCount == ASSUME NEW S PROVE Pipelines!Cardinality(S) = Cardinality(S)
BY DEF Pipelines!Cardinality, Cardinality

\* The stages that are enabled are numbered from 1 on, without a gap.
LEMMA RanksAre ==
  ASSUME NEW p, Pipeline(p)
  PROVE  /\ Cardinality(Pipelines!Enabled(p)) \in Nat
         /\ \A i \in Pipelines!Enabled(p) : Pipelines!Rank(p, i) \in 1 .. Cardinality(Pipelines!Enabled(p))
         /\ \A i, j \in Pipelines!Enabled(p) : Pipelines!Rank(p, i) = Pipelines!Rank(p, j) => i = j
         /\ \A n \in 1 .. Cardinality(Pipelines!Enabled(p)) :
              \E i \in Pipelines!Enabled(p) : Pipelines!Rank(p, i) = n
<1> DEFINE E == Pipelines!Enabled(p)
           C == Cardinality(E)
           To(i) == {j \in E : j <= i}
           R(i) == Cardinality(To(i))
<1>1. Len(p) \in Nat /\ E \in SUBSET (1 .. Len(p))
  BY PipelineFacts
<1>2. IsFiniteSet(E) /\ C \in Nat
  BY <1>1, OneUpTo, FS_Subset, FS_CardinalityType
<1>3. \A i \in E : Pipelines!Rank(p, i) = R(i)
  BY PipelinesCount DEF Pipelines!Rank
<1>4. \A i \in E : i \in Nat
  BY <1>1
<1> HIDE DEF E
<1>5. ASSUME NEW i \in E PROVE To(i) \in SUBSET E /\ i \in To(i)
  BY <1>4
<1>6. ASSUME NEW i \in E PROVE IsFiniteSet(To(i)) /\ R(i) \in 1 .. C
  <2> HIDE DEF To
  <2>1. IsFiniteSet(To(i)) /\ R(i) <= C /\ R(i) \in Nat
    BY <1>2, <1>5, FS_Subset, FS_CardinalityType
  <2>2. R(i) # 0
    BY <1>5, <2>1, FS_EmptySet
  <2> QED  BY <1>2, <2>1, <2>2
<1>7. ASSUME NEW i \in E, NEW j \in E, i < j PROVE R(i) # R(j)
  <2>1. To(i) \in SUBSET To(j) /\ j \in To(j) /\ j \notin To(i)
    BY <1>4, <1>7
  <2> HIDE DEF To
  <2> QED  BY <1>6, <2>1, FS_Subset
<1>8. ASSUME NEW i \in E, NEW j \in E, R(i) = R(j) PROVE i = j
  <2>1. i < j \/ j < i \/ i = j
    BY <1>4
  <2> HIDE DEF R
  <2> QED  BY <1>7, <1>8, <2>1
<1> DEFINE f == [i \in E |-> R(i)]
<1>9. f \in Injection(E, 1 .. C)
  <2> HIDE DEF R, C
  <2> QED  BY <1>6, <1>8 DEF Injection, IsInjective
<1>10. IsFiniteSet(1 .. C) /\ Cardinality(1 .. C) = C
  BY <1>2, OneUpTo, Zenon
<1>11. f \in Surjection(E, 1 .. C)
  <2> HIDE DEF f
  <2> QED  BY <1>9, <1>10, FS_Injection
<1>12. \A n \in 1 .. C : \E i \in E : R(i) = n
  <2> HIDE DEF R, C
  <2> QED  BY <1>11 DEF Surjection
<1> HIDE DEF R, C
<1> QED  BY <1>2, <1>3, <1>6, <1>8, <1>12 DEF E, C

\* What a stage is told of each parameter is what its parameters resolve to.
LEMMA ResolvedIsTold ==
  ASSUME NEW k \in Kinds, Pipelines!Consistent(Descriptor[k]), NEW s,
         Pipelines!ValidParams(s.params, Descriptor[k].params)
  PROVE  LET R == Pipelines!Resolved(s.params, Descriptor[k].params)
         IN  /\ DOMAIN R = {spec.name : spec \in Descriptor[k].params}
             /\ \A spec \in Descriptor[k].params : Pipelines!Told(s, spec) = {R[spec.name]}
<1> DEFINE specs == Descriptor[k].params
           R == Pipelines!Resolved(s.params, specs)
           D == {spec \in specs : spec.default # {} /\ spec.name \notin DOMAIN s.params}
<1>1. R = [n \in DOMAIN s.params \cup {spec.name : spec \in D} |->
             IF n \in DOMAIN s.params THEN s.params[n]
             ELSE CHOOSE v \in (CHOOSE spec \in D : spec.name = n).default : TRUE]
  BY DEF Pipelines!Resolved
<1>2. /\ \A n \in DOMAIN s.params : \E spec \in specs : spec.name = n
      /\ \A spec \in specs : spec.default = {} => spec.name \in DOMAIN s.params
  BY DEF Pipelines!ValidParams
<1>3. \A x, y \in specs : x.name = y.name => x = y
  BY DEF Pipelines!Consistent
<1>4. \A spec \in specs : spec.default = {} \/ \E v \in spec.default : spec.default = {v}
  BY PortsAgree DEF DescriptorAssumption
<1> HIDE DEF specs
<1>5. DOMAIN R = {spec.name : spec \in specs}
  <2>1. DOMAIN R = DOMAIN s.params \cup {spec.name : spec \in D}
    BY <1>1
  <2> QED  BY <1>2, <2>1
<1>6. ASSUME NEW spec \in specs PROVE Pipelines!Told(s, spec) = {R[spec.name]}
  <2>1. CASE spec.name \in DOMAIN s.params
    BY <1>1, <2>1 DEF Pipelines!Told
  <2>2. CASE spec.name \notin DOMAIN s.params
    <3>1. spec \in D
      BY <1>2, <2>2
    <3>2. (CHOOSE x \in D : x.name = spec.name) = spec
      BY <1>3, <3>1
    <3>3. PICK v : spec.default = {v}
      BY <1>4, <3>1
    <3>4. (CHOOSE w \in {v} : TRUE) = v
      OBVIOUS
    <3>5. spec.name \in DOMAIN s.params \cup {x.name : x \in D}
      BY <3>1
    <3>6. R[spec.name] = v
      BY <1>1, <2>2, <3>2, <3>3, <3>4, <3>5
    <3> QED  BY <2>2, <3>3, <3>6 DEF Pipelines!Told
  <2> QED  BY <2>1, <2>2
<1> QED  BY <1>5, <1>6 DEF specs

\* Two stages resolve alike exactly if they are of one kind and told the same.
LEMMA SameWork ==
  ASSUME NEW s, NEW t, s.kind \in Kinds, t.kind \in Kinds,
         Pipelines!Consistent(Descriptor[s.kind]), Pipelines!Consistent(Descriptor[t.kind]),
         Pipelines!ValidParams(s.params, Descriptor[s.kind].params),
         Pipelines!ValidParams(t.params, Descriptor[t.kind].params)
  PROVE  Pipelines!OfStage(s) = Pipelines!OfStage(t) <=>
           /\ s.kind = t.kind
           /\ \A x \in Descriptor[s.kind].params : Pipelines!Told(s, x) = Pipelines!Told(t, x)
<1> DEFINE A == Pipelines!Resolved(s.params, Descriptor[s.kind].params)
           B == Pipelines!Resolved(t.params, Descriptor[t.kind].params)
<1>1. /\ DOMAIN A = {spec.name : spec \in Descriptor[s.kind].params}
      /\ \A spec \in Descriptor[s.kind].params : Pipelines!Told(s, spec) = {A[spec.name]}
  BY ResolvedIsTold
<1>2. /\ DOMAIN B = {spec.name : spec \in Descriptor[t.kind].params}
      /\ \A spec \in Descriptor[t.kind].params : Pipelines!Told(t, spec) = {B[spec.name]}
  BY ResolvedIsTold
<1>3. A = [n \in DOMAIN A |-> A[n]] /\ B = [n \in DOMAIN B |-> B[n]]
  BY DEF Pipelines!Resolved
<1>4. Pipelines!OfStage(s) = Pipelines!OfStage(t) <=> s.kind = t.kind /\ A = B
  <2>1. /\ Pipelines!OfStage(s) = <<s.kind, Descriptor[s.kind].version, A>>
        /\ Pipelines!OfStage(t) = <<t.kind, Descriptor[t.kind].version, B>>
    BY DEF Pipelines!OfStage
  <2> HIDE DEF A, B
  <2> QED  BY <2>1
<1> HIDE DEF A, B
<1>5. ASSUME s.kind = t.kind, A = B, NEW x \in Descriptor[s.kind].params
      PROVE  Pipelines!Told(s, x) = Pipelines!Told(t, x)
  BY <1>1, <1>2, <1>5
<1>6. ASSUME s.kind = t.kind, \A x \in Descriptor[s.kind].params : Pipelines!Told(s, x) = Pipelines!Told(t, x)
      PROVE  A = B
  <2>1. DOMAIN A = DOMAIN B
    BY <1>1, <1>2, <1>6
  <2>2. ASSUME NEW n \in DOMAIN A PROVE A[n] = B[n]
    <3>1. PICK x \in Descriptor[s.kind].params : n = x.name
      BY <1>1
    <3>2. {A[n]} = {B[n]}
      BY <1>1, <1>2, <1>6, <3>1
    <3> QED  BY <3>2
  <2> QED  BY <1>3, <2>1, <2>2
<1> QED  BY <1>4, <1>5, <1>6

LEMMA NthIs ==
  ASSUME NEW p, Pipeline(p), NEW i \in Pipelines!Enabled(p)
  PROVE  Pipelines!Nth(p, Pipelines!Rank(p, i)) = i
<1>1. \A j \in Pipelines!Enabled(p) : Pipelines!Rank(p, j) = Pipelines!Rank(p, i) => j = i
  BY RanksAre
<1> QED  BY <1>1 DEF Pipelines!Nth

LEMMA SameCount == ASSUME NEW m \in Nat, NEW n \in Nat, 1 .. m = 1 .. n PROVE m = n
<1>1. m \in 1 .. m \/ m = 0
  OBVIOUS
<1>2. n \in 1 .. n \/ n = 0
  OBVIOUS
<1> QED  BY <1>1, <1>2

\* The hash is of the work: pipelines that can be hashed have one hash exactly if they are alike.
LEMMA HashMeansAlike ==
  ASSUME NEW p, NEW q, Pipeline(p), Pipeline(q), Pipelines!Hashes(p), Pipelines!Hashes(q),
         \A k \in registry : k \in Kinds /\ Pipelines!Consistent(Descriptor[k])
  PROVE  Pipelines!Hash(p) = Pipelines!Hash(q) <=> Pipelines!Alike(p, q)
<1> DEFINE E == Pipelines!Enabled(p)
           F == Pipelines!Enabled(q)
           C == Cardinality(E)
           D == Cardinality(F)
           Same(i, j) == /\ p[i].kind = q[j].kind
                         /\ \A x \in Descriptor[p[i].kind].params : Pipelines!Told(p[i], x) = Pipelines!Told(q[j], x)
<1>1. /\ Pipelines!Hash(p) = [n \in 1 .. C |-> Pipelines!OfStage(p[Pipelines!Nth(p, n)])]
      /\ Pipelines!Hash(q) = [n \in 1 .. D |-> Pipelines!OfStage(q[Pipelines!Nth(q, n)])]
  BY PipelinesCount DEF Pipelines!Hash
<1>2. Pipelines!Alike(p, q) <=>
        C = D /\ \A i \in E, j \in F : Pipelines!Rank(p, i) = Pipelines!Rank(q, j) => Same(i, j)
  BY PipelinesCount DEF Pipelines!Alike
<1>3. ASSUME NEW i \in E, NEW j \in F
      PROVE  Pipelines!OfStage(p[i]) = Pipelines!OfStage(q[j]) <=> Same(i, j)
  <2>1. /\ p[i].kind \in registry /\ Pipelines!ValidParams(p[i].params, Descriptor[p[i].kind].params)
        /\ q[j].kind \in registry /\ Pipelines!ValidParams(q[j].params, Descriptor[q[j].kind].params)
    BY DEF Pipelines!Hashes
  <2> QED  BY <2>1, SameWork
<1>4. /\ C \in Nat /\ D \in Nat
      /\ \A i \in E : Pipelines!Rank(p, i) \in 1 .. C
      /\ \A j \in F : Pipelines!Rank(q, j) \in 1 .. D
  BY RanksAre
<1>5. /\ \A n \in 1 .. C : \E i \in E : Pipelines!Rank(p, i) = n
      /\ \A n \in 1 .. D : \E j \in F : Pipelines!Rank(q, j) = n
  BY RanksAre
<1>6. /\ \A i \in E : Pipelines!Nth(p, Pipelines!Rank(p, i)) = i
      /\ \A j \in F : Pipelines!Nth(q, Pipelines!Rank(q, j)) = j
  BY NthIs
<1> HIDE DEF E, F, Same
<1>7. ASSUME Pipelines!Hash(p) = Pipelines!Hash(q)
      PROVE  C = D /\ \A i \in E, j \in F : Pipelines!Rank(p, i) = Pipelines!Rank(q, j) => Same(i, j)
  <2>1. C = D
    <3>1. 1 .. C = DOMAIN Pipelines!Hash(p) /\ 1 .. D = DOMAIN Pipelines!Hash(q)
      BY <1>1
    <3> HIDE DEF C, D
    <3> QED  BY <1>4, <1>7, <3>1, SameCount
  <2>2. ASSUME NEW i \in E, NEW j \in F, Pipelines!Rank(p, i) = Pipelines!Rank(q, j) PROVE Same(i, j)
    <3>1. Pipelines!Rank(p, i) \in 1 .. C /\ Pipelines!Rank(q, j) \in 1 .. D
      BY <1>4
    <3>2. Pipelines!Hash(p)[Pipelines!Rank(p, i)] = Pipelines!OfStage(p[i])
      BY <1>1, <1>6, <3>1
    <3>3. Pipelines!Hash(q)[Pipelines!Rank(q, j)] = Pipelines!OfStage(q[j])
      BY <1>1, <1>6, <3>1
    <3>4. Pipelines!OfStage(p[i]) = Pipelines!OfStage(q[j])
      BY <1>7, <2>2, <3>2, <3>3
    <3> QED  BY <1>3, <3>4
  <2> QED  BY <2>1, <2>2
<1>8. ASSUME C = D, \A i \in E, j \in F : Pipelines!Rank(p, i) = Pipelines!Rank(q, j) => Same(i, j)
      PROVE  Pipelines!Hash(p) = Pipelines!Hash(q)
  <2>1. ASSUME NEW n \in 1 .. C
        PROVE  Pipelines!OfStage(p[Pipelines!Nth(p, n)]) = Pipelines!OfStage(q[Pipelines!Nth(q, n)])
    <3>1. PICK i \in E : Pipelines!Rank(p, i) = n
      BY <1>5
    <3>2. PICK j \in F : Pipelines!Rank(q, j) = n
      BY <1>5, <1>8
    <3>3. Pipelines!Nth(p, n) = i /\ Pipelines!Nth(q, n) = j
      BY <1>6, <3>1, <3>2
    <3>4. Pipelines!OfStage(p[i]) = Pipelines!OfStage(q[j])
      BY <1>3, <1>8, <3>1, <3>2
    <3> QED  BY <3>3, <3>4
  <2> QED  BY <1>1, <1>8, <2>1
<1> QED  BY <1>2, <1>7, <1>8

LEMMA GateJudges ==
  ASSUME GateInv
  PROVE  /\ Gate!RegTypeOK /\ Gate!GateIsSound /\ Gate!SameRunPasses
         /\ Gate!DeletionIsNoticed /\ Gate!AssertionsAreTrue
<1>1. Gate!SameRunPasses
  <2>1. gatePhase = "closed" /\ ~removed => Comparing
    BY DEF Comparing
  <2> QED  BY <2>1 DEF GateInv, SameIsClean, Gate!SameRunPasses
<1> QED  BY <1>1, GateVouches, DeletionShows, AssertionsStand DEF GateInv

\* Every required artifact of an enabled stage is an output of an enabled stage before it.
Served == \A i \in DOMAIN stages : stages[i].enabled =>
            /\ stages[i].kind \in registry
            /\ \A port \in Descriptor[stages[i].kind].inputs : port.required /\ port.kind[1] = "artifact" =>
                 \E j \in DOMAIN stages : /\ j < i /\ stages[j].enabled
                                          /\ \E out \in Descriptor[stages[j].kind].outputs : out.kind = port.kind
\* What is on the frame was published by a stage that has run.
Published == \A x \in ports : /\ x.by \in DOMAIN stages /\ x.by < pipelinesAt /\ stages[x.by].enabled
                              /\ \E out \in Descriptor[stages[x.by].kind].outputs :
                                   out.kind[1] = "artifact" /\ out.name = x.name /\ out.kind = x.kind
\* What the stages that have run publish is there, under whichever name.
Delivered == \A j \in DOMAIN stages : j < pipelinesAt /\ stages[j].enabled =>
               \A out \in Descriptor[stages[j].kind].outputs : out.kind[1] = "artifact" =>
                 \E x \in ports : x.kind = out.kind
EditorType == /\ Pipeline(stages) /\ registry \subseteq Kinds
              /\ \A k \in registry : Pipelines!Consistent(Descriptor[k])
              /\ \A r \in rows : Pipelines!Parses(r.stages) => Pipeline(Pipelines!FromRows(r.stages))
              /\ pipelinesAt \in 0 .. MaxStages + 1
DefInv == /\ EditorType
          /\ (pipelinesAt > 0 => Served)
          /\ Published /\ Delivered /\ ~starved

LEMMA NothingAdded == <<>> \in ParamSets
<1>1. <<>> \in [{} -> ParamValues]
  OBVIOUS
<1> QED  BY <1>1 DEF ParamSets

LEMMA EmptyPipeline == Pipeline(<<>>)
<1>1. <<>> \in Seq(WrittenStage) /\ Len(<<>>) = 0
  BY EmptySeq
<1>2. MaxStages \in Nat
  BY PortsAgree DEF DescriptorAssumption
<1> QED  BY <1>1, <1>2 DEF Pipeline

LEMMA WithIsSet ==
  ASSUME NEW params \in ParamSets, NEW n \in ParamNames, NEW v \in ParamValues
  PROVE  Pipelines!With(params, n, v) \in ParamSets
<1>1. PICK D \in SUBSET ParamNames : params \in [D -> ParamValues]
  BY DEF ParamSets
<1>2. Pipelines!With(params, n, v) \in [D \cup {n} -> ParamValues]
  BY <1>1 DEF Pipelines!With
<1> HIDE DEF ParamNames, ParamValues
<1>3. D \cup {n} \in SUBSET ParamNames
  OBVIOUS
<1> QED  BY <1>2, <1>3 DEF ParamSets

LEMMA WithoutIsSet ==
  ASSUME NEW params \in ParamSets, NEW n
  PROVE  [m \in DOMAIN params \ {n} |-> params[m]] \in ParamSets
<1>1. PICK D \in SUBSET ParamNames : params \in [D -> ParamValues]
  BY DEF ParamSets
<1>2. [m \in DOMAIN params \ {n} |-> params[m]] \in [D \ {n} -> ParamValues]
  BY <1>1
<1> HIDE DEF ParamNames, ParamValues
<1>3. D \ {n} \in SUBSET ParamNames
  OBVIOUS
<1> QED  BY <1>2, <1>3 DEF ParamSets

\* A stage put in the place of another leaves a pipeline.
LEMMA StageReplaced ==
  ASSUME NEW p, Pipeline(p), NEW i \in DOMAIN p, NEW s \in WrittenStage
  PROVE  Pipeline([p EXCEPT ![i] = s]) /\ DOMAIN [p EXCEPT ![i] = s] = DOMAIN p
<1>1. p \in Seq(WrittenStage) /\ Len(p) <= MaxStages
  BY DEF Pipeline
<1>2. i \in 1 .. Len(p) /\ Len(p) \in Nat
  BY PipelineFacts
<1>3. [p EXCEPT ![i] = s] \in Seq(WrittenStage) /\ Len([p EXCEPT ![i] = s]) = Len(p)
  <2> HIDE DEF WrittenStage
  <2> QED  BY <1>1, <1>2, ExceptSeq
<1> QED  BY <1>1, <1>3 DEF Pipeline

LEMMA StageChanged ==
  ASSUME NEW s \in WrittenStage
  PROVE  /\ [s EXCEPT !.enabled = ~s.enabled] \in WrittenStage
         /\ \A params \in ParamSets : [s EXCEPT !.params = params] \in WrittenStage
BY DEF WrittenStage

LEMMA StageAdded ==
  ASSUME NEW p, Pipeline(p), Len(p) < MaxStages, NEW s \in WrittenStage
  PROVE  Pipeline(Append(p, s))
<1>1. p \in Seq(WrittenStage) /\ Len(p) \in Nat
  BY PipelineFacts DEF Pipeline
<1>2. Append(p, s) \in Seq(WrittenStage) /\ Len(Append(p, s)) = Len(p) + 1
  <2> HIDE DEF WrittenStage
  <2> QED  BY <1>1, AppendProperties
<1>3. MaxStages \in Nat
  BY PortsAgree DEF DescriptorAssumption
<1> QED  BY <1>1, <1>2, <1>3 DEF Pipeline

LEMMA StageRemoved ==
  ASSUME NEW p, Pipeline(p), NEW i \in DOMAIN p
  PROVE  Pipeline(SubSeq(p, 1, i - 1) \o SubSeq(p, i + 1, Len(p)))
<1>1. p \in Seq(WrittenStage) /\ Len(p) \in Nat /\ i \in 1 .. Len(p) /\ Len(p) <= MaxStages
  BY PipelineFacts DEF Pipeline
<1>2. MaxStages \in Nat
  BY PortsAgree DEF DescriptorAssumption
<1> HIDE DEF WrittenStage
<1> DEFINE a == SubSeq(p, 1, i - 1)
           b == SubSeq(p, i + 1, Len(p))
<1>3. a \in Seq(WrittenStage) /\ Len(a) = i - 1
  BY <1>1
<1>4. b \in Seq(WrittenStage) /\ Len(b) = Len(p) - i
  BY <1>1
<1>5. a \o b \in Seq(WrittenStage) /\ Len(a \o b) = Len(a) + Len(b)
  <2> HIDE DEF a, b
  <2> QED  BY <1>3, <1>4, ConcatProperties
<1> HIDE DEF a, b
<1>6. Len(a \o b) <= MaxStages
  BY <1>1, <1>2, <1>3, <1>4, <1>5
<1>7. Pipeline(a \o b)
  BY <1>5, <1>6 DEF Pipeline
<1> QED  BY <1>7 DEF a, b

LEMMA StageMoved ==
  ASSUME NEW p, Pipeline(p), NEW i \in DOMAIN p, i + 1 \in DOMAIN p
  PROVE  Pipeline([p EXCEPT ![i] = p[i + 1], ![i + 1] = p[i]])
<1>1. p[i] \in WrittenStage /\ p[i + 1] \in WrittenStage
  BY PipelineFacts
<1> DEFINE q == [p EXCEPT ![i] = p[i + 1]]
<1>2. Pipeline(q) /\ i + 1 \in DOMAIN q
  BY <1>1, StageReplaced
<1>3. Pipeline([q EXCEPT ![i + 1] = p[i]])
  <2> HIDE DEF q
  <2> QED  BY <1>1, <1>2, StageReplaced
<1> QED  BY <1>3

\* What validate checks is what the walk needs, and what the hash needs.
LEMMA ValidServes ==
  ASSUME Pipeline(stages), registry \subseteq Kinds, Pipelines!Validate(stages, assertions)
  PROVE  Served
<1>1. Pipelines!Issues(stages, assertions) = {}
  BY DEF Pipelines!Validate
<1> SUFFICES ASSUME NEW i \in DOMAIN stages, stages[i].enabled
             PROVE  /\ stages[i].kind \in registry
                    /\ \A port \in Descriptor[stages[i].kind].inputs :
                         port.required /\ port.kind[1] = "artifact" =>
                           \E j \in DOMAIN stages : /\ j < i /\ stages[j].enabled
                             /\ \E out \in Descriptor[stages[j].kind].outputs : out.kind = port.kind
  BY DEF Served
<1>2. i \in Pipelines!Enabled(stages)
  BY DEF Pipelines!Enabled
<1>3. stages[i].kind \in registry
  <2>1. stages[i].kind \notin registry => <<"unknown", i>> \in Pipelines!Issues(stages, assertions)
    BY <1>2 DEF Pipelines!Issues
  <2> QED  BY <1>1, <2>1
<1>4. Pipelines!Unsatisfied(stages, i) = {}
  <2>1. Pipelines!Unsatisfied(stages, i) # {} => <<"port", i>> \in Pipelines!Issues(stages, assertions)
    BY <1>2, <1>3 DEF Pipelines!Issues
  <2> QED  BY <1>1, <2>1
<1>5. ASSUME NEW port \in Descriptor[stages[i].kind].inputs, port.required, port.kind[1] = "artifact"
      PROVE  \E j \in DOMAIN stages : /\ j < i /\ stages[j].enabled
               /\ \E out \in Descriptor[stages[j].kind].outputs : out.kind = port.kind
  <2>1. PICK have \in Pipelines!Produced(stages, i) : Pipelines!Accepts(port.kind, have)
    BY <1>4, <1>5 DEF Pipelines!Unsatisfied
  <2>2. have # Pipelines!Signals
    <3> SUFFICES ASSUME have = Pipelines!Signals PROVE FALSE
      OBVIOUS
    <3>1. have[1] = "signals"
      BY DEF Pipelines!Signals
    <3> QED  BY <1>5, <2>1, <3>1 DEF Pipelines!Accepts
  <2>3. PICK j \in Pipelines!Upstream(stages, i) :
          \E out \in Descriptor[stages[j].kind].outputs : have = out.kind /\ stages[j].kind \in Kinds
    <3>1. have \in UNION {{q.kind : q \in Descriptor[stages[j].kind].outputs} :
                            j \in {k \in Pipelines!Upstream(stages, i) : stages[k].kind \in registry}}
      BY <2>1, <2>2 DEF Pipelines!Produced
    <3>2. PICK j \in {k \in Pipelines!Upstream(stages, i) : stages[k].kind \in registry} :
            have \in {q.kind : q \in Descriptor[stages[j].kind].outputs}
      BY <3>1
    <3> QED  BY <3>2
  <2>7. PICK out \in Descriptor[stages[j].kind].outputs : have = out.kind /\ stages[j].kind \in Kinds
    BY <2>3
  <2>4. j \in DOMAIN stages /\ stages[j].enabled /\ j < i
    BY <2>3 DEF Pipelines!Upstream, Pipelines!Enabled
  <2>5. out.kind[1] \in {"signals", "artifact"}
    BY <2>7, PortsAgree DEF DescriptorAssumption
  <2>6. out.kind = port.kind
    BY <1>5, <2>1, <2>7, <2>5 DEF Pipelines!Accepts
  <2> QED  BY <2>7, <2>4, <2>6
<1> QED  BY <1>3, <1>5

LEMMA ValidIsHashed == Pipelines!ValidatedHashes
<1> SUFFICES ASSUME Pipelines!Validate(stages, assertions), NEW i \in Pipelines!Enabled(stages)
             PROVE  /\ stages[i].kind \in registry
                    /\ Pipelines!ValidParams(stages[i].params, Descriptor[stages[i].kind].params)
  BY DEF Pipelines!ValidatedHashes, Pipelines!Hashes
<1>1. Pipelines!Issues(stages, assertions) = {}
  BY DEF Pipelines!Validate
<1>2. stages[i].kind \in registry
  <2>1. stages[i].kind \notin registry => <<"unknown", i>> \in Pipelines!Issues(stages, assertions)
    BY DEF Pipelines!Issues
  <2> QED  BY <1>1, <2>1
<1>3. i \notin Pipelines!BadParams(stages)
  <2>1. i \in Pipelines!BadParams(stages) => <<"params", i>> \in Pipelines!Issues(stages, assertions)
    BY DEF Pipelines!Issues
  <2> QED  BY <1>1, <2>1
<1> QED  BY <1>2, <1>3 DEF Pipelines!BadParams

LEMMA PipelinesJudged ==
  ASSUME DefInv
  PROVE  /\ Pipelines!DefTypeOK /\ Pipelines!PortsArrive
         /\ Pipelines!ValidatedHashes /\ Pipelines!HashIsWork
<1>1. Pipelines!DefTypeOK
  BY DEF DefInv, EditorType, Published, Pipeline, Pipelines!DefTypeOK
<1>2. Pipelines!HashIsWork
  <2> DEFINE Loaded(r) == Pipelines!FromRows(r.stages)
  <2> SUFFICES ASSUME NEW r \in rows, Pipelines!Parses(r.stages),
                      Pipelines!Hashes(stages), Pipelines!Hashes(Loaded(r))
               PROVE  Pipelines!Hash(stages) = Pipelines!Hash(Loaded(r)) <=> Pipelines!Alike(stages, Loaded(r))
    BY DEF Pipelines!HashIsWork
  <2>1. Pipeline(stages) /\ Pipeline(Loaded(r))
    BY DEF DefInv, EditorType
  <2>2. \A k \in registry : k \in Kinds /\ Pipelines!Consistent(Descriptor[k])
    BY DEF DefInv, EditorType
  <2> QED  BY <2>1, <2>2, HashMeansAlike
<1> QED  BY <1>1, <1>2, ValidIsHashed DEF DefInv, Pipelines!PortsArrive

LEMMA EditorAtFirst ==
  ASSUME Pipelines!DefInit
  PROVE  DefInv
<1>1. pipelinesAt \in 0 .. MaxStages + 1
  BY PortsAgree DEF Pipelines!DefInit, DescriptorAssumption
<1>2. Pipeline(stages) /\ DOMAIN stages = {}
  BY EmptyPipeline DEF Pipelines!DefInit
<1> QED  BY <1>1, <1>2 DEF Pipelines!DefInit, DefInv, EditorType, Published, Delivered

\* While nothing runs, the frame is empty and any pipeline will do.
LEMMA EditingKeeps ==
  ASSUME DefInv, pipelinesAt = 0, pipelinesAt' = 0, ports' = ports, starved' = starved,
         EditorType'
  PROVE  DefInv'
<1>1. Pipeline(stages) /\ Pipeline(stages')
  BY DEF DefInv, EditorType, Pipeline, WrittenStage, ParamSets, ParamValues, ParamNames
<1>2. DOMAIN stages \subseteq Nat /\ DOMAIN stages' \subseteq Nat \ {0}
  BY <1>1, PipelineFacts
<1>3. ports = {}
  BY <1>1, PipelineFacts DEF DefInv, Published
<1>4. Published'
  BY <1>3 DEF Published
<1>5. Delivered'
  BY <1>2 DEF Delivered
<1> QED  BY <1>4, <1>5 DEF DefInv

LEMMA EditedKeeps ==
  ASSUME DefInv, NEW p, Pipeline(p), Pipelines!Edited(p)
  PROVE  DefInv'
<1>1. /\ pipelinesAt = 0 /\ pipelinesAt' = 0 /\ ports' = ports /\ starved' = starved
      /\ stages' = p /\ registry' = registry /\ rows' = rows
  BY DEF Pipelines!Edited
<1>2. EditorType'
  <2> HIDE DEF Pipeline
  <2>1. Pipeline(stages')
    BY <1>1
  <2> QED  BY <1>1, <2>1 DEF DefInv, EditorType
<1> QED  BY <1>1, <1>2, EditingKeeps

LEMMA RegisterKeeps ==
  ASSUME DefInv, NEW k \in Kinds, Pipelines!Register(k)
  PROVE  DefInv'
<1>1. EditorType'
  BY DEF DefInv, EditorType, Pipelines!Register
<1> QED  BY <1>1, EditingKeeps DEF Pipelines!Register

\* What is typed or set in a box of stage i.
LEMMA ParamKeeps ==
  ASSUME DefInv, NEW i \in DOMAIN stages, NEW n \in Pipelines!Names(i), NEW v \in ParamValues
  PROVE  Pipeline([stages EXCEPT ![i].params = Pipelines!With(@, n, v)])
<1>1. stages[i] \in WrittenStage /\ Pipeline(stages)
  BY PipelineFacts DEF DefInv, EditorType
<1>2. n \in ParamNames
  BY <1>1 DEF WrittenStage, Pipelines!Names, ParamNames
<1>3. stages[i].params \in ParamSets
  BY <1>1 DEF WrittenStage
<1> DEFINE q == Pipelines!With(stages[i].params, n, v)
<1>4. q \in ParamSets
  BY <1>2, <1>3, WithIsSet
<1>5. [stages EXCEPT ![i].params = Pipelines!With(@, n, v)] = [stages EXCEPT ![i] = [stages[i] EXCEPT !.params = q]]
  OBVIOUS
<1> HIDE DEF q
<1> QED  BY <1>1, <1>4, <1>5, StageChanged, StageReplaced

LEMMA TypeParamKeeps ==
  ASSUME DefInv, NEW i \in DOMAIN stages, NEW n \in Pipelines!Names(i), NEW raw \in Typed,
         Pipelines!TypeParam(i, n, raw)
  PROVE  DefInv'
<1>1. /\ pipelinesAt = 0 /\ pipelinesAt' = 0 /\ ports' = ports /\ starved' = starved
      /\ registry' = registry /\ rows' = rows
  BY DEF Pipelines!TypeParam
<1>2. Pipeline(stages')
  <2>1. CASE UNCHANGED stages
    BY <2>1 DEF DefInv, EditorType
  <2>2. CASE stages' # stages
    <3>1. PICK v \in Pipelines!Read(Pipelines!SpecOf(i, n), raw) :
            stages' = [stages EXCEPT ![i].params = Pipelines!With(@, n, v)]
      BY <2>2 DEF Pipelines!TypeParam
    <3>2. v \in {<<"int", x>> : x \in raw.int} \/ v \in {<<"float", x>> : x \in raw.float}
      BY DEF Pipelines!Read
    <3>3. v \in ParamValues
      <4>1. \/ v \in UNION {{<<"int", x>> : x \in r.int} : r \in Typed}
            \/ v \in UNION {{<<"float", x>> : x \in r.float} : r \in Typed}
        BY <3>2, Zenon
      <4> QED  BY <4>1, Zenon DEF ParamValues
    <3> HIDE DEF Pipeline
    <3> QED  BY <3>1, <3>3, ParamKeeps
  <2> QED  BY <2>1, <2>2
<1>3. EditorType'
  <2> HIDE DEF Pipeline
  <2> QED  BY <1>1, <1>2 DEF DefInv, EditorType
<1> QED  BY <1>1, <1>3, EditingKeeps

LEMMA EditKeeps ==
  ASSUME DefInv, NEW i \in DOMAIN stages,
         \/ Pipelines!RemoveStage(i) \/ Pipelines!MoveStage(i) \/ Pipelines!ToggleStage(i)
         \/ \E n \in Pipelines!Names(i) :
              \/ Pipelines!ClearParam(i, n)
              \/ \E raw \in Typed : Pipelines!TypeParam(i, n, raw)
              \/ \E v \in Values : Pipelines!SpecOf(i, n).kind \notin Pipelines!Boxed /\ Pipelines!SetParam(i, n, v)
  PROVE  DefInv'
<1>1. stages[i] \in WrittenStage /\ Pipeline(stages)
  BY PipelineFacts DEF DefInv, EditorType
<1>2. CASE Pipelines!RemoveStage(i)
  BY <1>1, <1>2, StageRemoved, EditedKeeps DEF Pipelines!RemoveStage
<1>3. CASE Pipelines!MoveStage(i)
  BY <1>1, <1>3, StageMoved, EditedKeeps DEF Pipelines!MoveStage
<1>4. CASE Pipelines!ToggleStage(i)
  <2> DEFINE q == [stages EXCEPT ![i].enabled = ~@]
  <2>1. q = [stages EXCEPT ![i] = [stages[i] EXCEPT !.enabled = ~stages[i].enabled]]
    OBVIOUS
  <2> HIDE DEF q
  <2>2. Pipeline(q)
    BY <1>1, <2>1, StageChanged, StageReplaced
  <2>3. /\ pipelinesAt = 0 /\ pipelinesAt' = 0 /\ ports' = ports /\ starved' = starved
        /\ stages' = q /\ registry' = registry /\ rows' = rows
    BY <1>4 DEF Pipelines!ToggleStage, q
  <2>4. EditorType'
    <3> HIDE DEF Pipeline
    <3>1. Pipeline(stages')
      BY <2>2, <2>3
    <3> QED  BY <2>3, <3>1 DEF DefInv, EditorType
  <2> QED  BY <2>3, <2>4, EditingKeeps
<1>5. ASSUME NEW n \in Pipelines!Names(i), Pipelines!ClearParam(i, n) PROVE DefInv'
  <2> DEFINE q == [m \in DOMAIN stages[i].params \ {n} |-> stages[i].params[m]]
  <2>1. stages[i].params \in ParamSets
    BY <1>1 DEF WrittenStage
  <2>2. q \in ParamSets
    BY <2>1, WithoutIsSet
  <2>3. Pipelines!Edited([stages EXCEPT ![i] = [stages[i] EXCEPT !.params = q]])
    BY <1>5 DEF Pipelines!ClearParam
  <2> HIDE DEF q
  <2>4. Pipeline([stages EXCEPT ![i] = [stages[i] EXCEPT !.params = q]])
    BY <1>1, <2>2, StageChanged, StageReplaced
  <2> QED  BY <2>3, <2>4, EditedKeeps
<1>6. ASSUME NEW n \in Pipelines!Names(i), NEW v \in Values, Pipelines!SetParam(i, n, v) PROVE DefInv'
  <2>1. v \in ParamValues
    BY DEF ParamValues
  <2> QED  BY <1>6, <2>1, ParamKeeps, EditedKeeps DEF Pipelines!SetParam
<1> QED  BY <1>2, <1>3, <1>4, <1>5, <1>6, TypeParamKeeps

LEMMA AddStageKeeps ==
  ASSUME DefInv, NEW k \in Kinds, Pipelines!AddStage(k)
  PROVE  DefInv'
<1>1. [kind |-> k, params |-> <<>>, enabled |-> TRUE] \in WrittenStage
  <2> HIDE DEF ParamSets
  <2> QED  BY NothingAdded DEF WrittenStage
<1>2. Pipeline(stages)
  BY DEF DefInv, EditorType
<1> QED  BY <1>1, <1>2, StageAdded, EditedKeeps DEF Pipelines!AddStage

\* What is saved is what is loaded.
LEMMA RowsReadBack ==
  ASSUME NEW p, Pipeline(p)
  PROVE  /\ Pipelines!Parses(Pipelines!ToRows(p))
         /\ Pipelines!FromRows(Pipelines!ToRows(p)) = p
<1> DEFINE back == Pipelines!FromRows(Pipelines!ToRows(p))
<1>1. DOMAIN Pipelines!ToRows(p) = DOMAIN p /\ DOMAIN back = DOMAIN p
  BY DEF Pipelines!ToRows, Pipelines!FromRows
<1>2. p \in [1 .. Len(p) -> WrittenStage] /\ DOMAIN p = 1 .. Len(p)
  BY PipelineFacts DEF Pipeline
<1>3. ASSUME NEW i \in DOMAIN p PROVE back[i] = p[i]
  <2>1. back[i] = [kind |-> p[i].kind, params |-> p[i].params, enabled |-> p[i].enabled]
    BY DEF Pipelines!ToRows, Pipelines!FromRows
  <2>2. p[i] \in WrittenStage
    BY <1>2
  <2> HIDE DEF back
  <2> QED  BY <2>1, <2>2 DEF WrittenStage
<1>4. back = [i \in DOMAIN p |-> back[i]] /\ p = [i \in DOMAIN p |-> p[i]]
  BY <1>2 DEF Pipelines!ToRows, Pipelines!FromRows
<1>5. Pipelines!Parses(Pipelines!ToRows(p))
  BY DEF Pipelines!ToRows, Pipelines!Parses
<1> HIDE DEF back
<1>6. back = p
  BY <1>1, <1>3, <1>4
<1> QED  BY <1>5, <1>6 DEF back

LEMMA KeepingKeeps ==
  ASSUME DefInv, Pipelines!Save \/ Pipelines!Load \/ Pipelines!WriteOver \/ (\E e \in Expressions : Pipelines!Assert({e}))
  PROVE  DefInv'
<1>1. CASE Pipelines!Save
  <2>1. \A r \in rows' : r.stages = Pipelines!ToRows(stages)
    BY <1>1 DEF Pipelines!Save
  <2>2. Pipeline(stages) /\ stages' = stages /\ registry' = registry /\ pipelinesAt' = pipelinesAt
    BY <1>1 DEF DefInv, EditorType, Pipelines!Save
  <2>3. EditorType'
    <3> HIDE DEF Pipeline
    <3>1. Pipelines!FromRows(Pipelines!ToRows(stages)) = stages
      BY <2>2, RowsReadBack
    <3>2. \A r \in rows' : Pipeline(Pipelines!FromRows(r.stages))
      BY <2>1, <2>2, <3>1
    <3> QED  BY <2>2, <3>2 DEF DefInv, EditorType
  <2> QED  BY <1>1, <2>3, EditingKeeps DEF Pipelines!Save
<1>2. CASE Pipelines!Load
  <2>1. PICK r \in rows : \/ Pipelines!Parses(r.stages) /\ stages' = Pipelines!FromRows(r.stages)
                          \/ stages' = stages
    BY <1>2 DEF Pipelines!Load
  <2>2. /\ pipelinesAt = 0 /\ pipelinesAt' = 0 /\ ports' = ports /\ starved' = starved
        /\ registry' = registry /\ rows' = rows
    BY <1>2 DEF Pipelines!Load
  <2>3. Pipeline(stages')
    <3> HIDE DEF Pipeline
    <3> QED  BY <2>1 DEF DefInv, EditorType
  <2>4. EditorType'
    <3> HIDE DEF Pipeline
    <3> QED  BY <2>2, <2>3 DEF DefInv, EditorType
  <2> QED  BY <2>2, <2>4, EditingKeeps
<1>4. CASE Pipelines!WriteOver
  <2>1. /\ pipelinesAt = 0 /\ pipelinesAt' = 0 /\ ports' = ports /\ starved' = starved
        /\ registry' = registry /\ stages' = stages
    BY <1>4 DEF Pipelines!WriteOver
  <2>2. PICK r \in rows : \E i \in DOMAIN r.stages :
          rows' = {[stages |-> [r.stages EXCEPT ![i] = Pipelines!Spoilt(@)], assertions |-> r.assertions]}
    BY <1>4 DEF Pipelines!WriteOver
  <2>5. PICK i \in DOMAIN r.stages :
          rows' = {[stages |-> [r.stages EXCEPT ![i] = Pipelines!Spoilt(@)], assertions |-> r.assertions]}
    BY <2>2
  <2>3. \A x \in rows' : ~Pipelines!Parses(x.stages)
    <3> DEFINE q == [r.stages EXCEPT ![i] = Pipelines!Spoilt(@)]
    <3>1. i \in DOMAIN q /\ q[i].json = {}
      BY DEF Pipelines!Spoilt
    <3>2. \A x \in rows' : x.stages = q
      BY <2>5
    <3> HIDE DEF q
    <3> QED  BY <3>1, <3>2 DEF Pipelines!Parses
  <2>4. EditorType'
    <3> HIDE DEF Pipeline
    <3> QED  BY <2>1, <2>3 DEF DefInv, EditorType
  <2> QED  BY <2>1, <2>4, EditingKeeps
<1>3. CASE \E e \in Expressions : Pipelines!Assert({e})
  <2>1. EditorType'
    BY <1>3 DEF DefInv, EditorType, Pipelines!Assert
  <2> QED  BY <1>3, <2>1, EditingKeeps DEF Pipelines!Assert
<1> QED  BY <1>1, <1>2, <1>3, <1>4

LEMMA StartKeeps ==
  ASSUME DefInv, Pipelines!Start
  PROVE  DefInv'
<1>1. /\ stages' = stages /\ registry' = registry /\ rows' = rows /\ pipelinesAt' = 1
      /\ ports' = {} /\ starved' = FALSE /\ Pipelines!Validate(stages, assertions)
  BY DEF Pipelines!Start
<1>2. MaxStages \in Nat
  BY PortsAgree DEF DescriptorAssumption
<1>3. Pipeline(stages) /\ registry \subseteq Kinds
  BY DEF DefInv, EditorType
<1>4. Served
  BY <1>1, <1>3, ValidServes
<1>5. Served'
  BY <1>1, <1>4 DEF Served
<1>6. DOMAIN stages \subseteq Nat \ {0}
  BY <1>3, PipelineFacts
<1>7. EditorType'
  <2> HIDE DEF Pipeline
  <2>1. Pipeline(stages')
    BY <1>1, <1>3
  <2> QED  BY <1>1, <1>2, <2>1 DEF DefInv, EditorType
<1>8. Published' /\ Delivered'
  BY <1>1, <1>6 DEF Published, Delivered
<1> QED  BY <1>1, <1>5, <1>7, <1>8 DEF DefInv

LEMMA StopKeeps ==
  ASSUME DefInv, Pipelines!Stop
  PROVE  DefInv'
<1>1. /\ stages' = stages /\ registry' = registry /\ rows' = rows /\ pipelinesAt' = 0
      /\ ports' = {} /\ starved' = FALSE
  BY DEF Pipelines!Stop
<1>2. MaxStages \in Nat
  BY PortsAgree DEF DescriptorAssumption
<1>3. Pipeline(stages)
  BY DEF DefInv, EditorType
<1>4. DOMAIN stages \subseteq Nat \ {0}
  BY <1>3, PipelineFacts
<1>5. EditorType'
  <2> HIDE DEF Pipeline
  <2>1. Pipeline(stages')
    BY <1>1, <1>3
  <2> QED  BY <1>1, <1>2, <2>1 DEF DefInv, EditorType
<1>6. Published' /\ Delivered'
  BY <1>1, <1>4 DEF Published, Delivered
<1> QED  BY <1>1, <1>5, <1>6 DEF DefInv

\* What a required port of a stage asks for is there when the walk reaches the stage.
LEMMA PortsFound ==
  ASSUME DefInv, pipelinesAt \in DOMAIN stages, stages[pipelinesAt].enabled,
         NEW port \in Descriptor[stages[pipelinesAt].kind].inputs, port.required
  PROVE  Pipelines!Found(port.kind)
<1>1. CASE port.kind[1] # "artifact"
  BY <1>1 DEF Pipelines!Found
<1>2. CASE port.kind[1] = "artifact"
  <2>1. pipelinesAt > 0
    BY PipelineFacts DEF DefInv, EditorType
  <2>2. PICK j \in DOMAIN stages : /\ j < pipelinesAt /\ stages[j].enabled
                                   /\ \E out \in Descriptor[stages[j].kind].outputs : out.kind = port.kind
    BY <1>2, <2>1 DEF DefInv, Served
  <2>3. PICK out \in Descriptor[stages[j].kind].outputs : out.kind = port.kind
    BY <2>2
  <2>4. \E x \in ports : x.kind = out.kind
    BY <1>2, <2>2, <2>3 DEF DefInv, Delivered
  <2> QED  BY <2>3, <2>4 DEF Pipelines!Found
<1> QED  BY <1>1, <1>2

\* A stage that publishes replaces only artifacts of its own artifacts' kinds.
LEMMA PublishingDelivers ==
  ASSUME DefInv, pipelinesAt \in DOMAIN stages, stages[pipelinesAt].enabled,
         NEW given \in SUBSET {port \in Descriptor[stages[pipelinesAt].kind].outputs : port.kind[1] = "artifact"},
         \A port \in Descriptor[stages[pipelinesAt].kind].outputs \ given : port.required => port.kind[1] # "artifact",
         ports' = {x \in ports : \A port \in given : port.name # x.name}
                  \cup {[name |-> port.name, kind |-> port.kind, by |-> pipelinesAt] : port \in given},
         stages' = stages, pipelinesAt' = pipelinesAt + 1
  PROVE  Published' /\ Delivered'
<1>1. Pipeline(stages) /\ pipelinesAt \in Nat /\ DOMAIN stages \subseteq Nat
  BY PipelineFacts DEF DefInv, EditorType
<1>2. \A i \in DOMAIN stages : stages[i].kind \in Kinds
  BY <1>1, PipelineFacts DEF WrittenStage
<1>3. ASSUME NEW i \in DOMAIN stages, NEW out \in Descriptor[stages[i].kind].outputs, out.kind[1] = "artifact",
             NEW j \in DOMAIN stages, NEW q \in Descriptor[stages[j].kind].outputs, q.kind[1] = "artifact",
             out.name = q.name
      PROVE  out.kind = q.kind
  BY <1>2, <1>3, PortsAgree DEF DescriptorAssumption
<1>4. \A port \in given : port \in Descriptor[stages[pipelinesAt].kind].outputs /\ port.kind[1] = "artifact"
  OBVIOUS
<1>5. ASSUME NEW x \in ports'
      PROVE  /\ x.by \in DOMAIN stages /\ x.by < pipelinesAt + 1 /\ stages[x.by].enabled
             /\ \E out \in Descriptor[stages[x.by].kind].outputs :
                  out.kind[1] = "artifact" /\ out.name = x.name /\ out.kind = x.kind
  <2>1. CASE x \in ports
    <3>1. /\ x.by \in DOMAIN stages /\ x.by < pipelinesAt /\ stages[x.by].enabled
          /\ \E out \in Descriptor[stages[x.by].kind].outputs :
               out.kind[1] = "artifact" /\ out.name = x.name /\ out.kind = x.kind
      BY <2>1 DEF DefInv, Published
    <3> QED  BY <1>1, <3>1
  <2>2. CASE x \notin ports
    <3>1. PICK port \in given : x = [name |-> port.name, kind |-> port.kind, by |-> pipelinesAt]
      BY <2>2
    <3> QED  BY <1>1, <1>4, <3>1
  <2> QED  BY <2>1, <2>2
<1>6. Published'
  BY <1>5 DEF Published
<1>7. ASSUME NEW port \in given PROVE \E x \in ports' : x.kind = port.kind
  <2>1. [name |-> port.name, kind |-> port.kind, by |-> pipelinesAt] \in ports'
    OBVIOUS
  <2> QED  BY <2>1
<1>8. ASSUME NEW j \in DOMAIN stages, j < pipelinesAt + 1, stages[j].enabled,
             NEW out \in Descriptor[stages[j].kind].outputs, out.kind[1] = "artifact"
      PROVE  \E x \in ports' : x.kind = out.kind
  <2>1. CASE j = pipelinesAt
    <3>1. out.required
      BY <1>2, <1>8, PortsAgree DEF DescriptorAssumption
    <3>2. out \in given
      BY <1>8, <2>1, <3>1
    <3> QED  BY <1>7, <3>2
  <2>2. CASE j # pipelinesAt
    <3>1. j < pipelinesAt
      BY <1>1, <1>8, <2>2
    <3>2. PICK x \in ports : x.kind = out.kind
      BY <1>8, <3>1 DEF DefInv, Delivered
    <3>3. CASE \A port \in given : port.name # x.name
      BY <3>2, <3>3
    <3>4. ASSUME NEW port \in given, port.name = x.name PROVE \E y \in ports' : y.kind = out.kind
      <4>1. PICK r \in Descriptor[stages[x.by].kind].outputs :
              r.kind[1] = "artifact" /\ r.name = x.name /\ r.kind = x.kind /\ x.by \in DOMAIN stages
        BY DEF DefInv, Published
      <4>2. port.kind = r.kind
        BY <1>3, <1>4, <3>4, <4>1
      <4> QED  BY <1>7, <3>2, <4>1, <4>2
    <3> QED  BY <3>3, <3>4
  <2> QED  BY <2>1, <2>2
<1>9. Delivered'
  BY <1>8 DEF Delivered
<1> QED  BY <1>6, <1>9

LEMMA ProcessKeeps ==
  ASSUME DefInv, Pipelines!Process
  PROVE  DefInv'
<1>1. /\ stages' = stages /\ registry' = registry /\ rows' = rows
      /\ pipelinesAt \in DOMAIN stages /\ pipelinesAt' = pipelinesAt + 1
  BY DEF Pipelines!Process
<1>2. MaxStages \in Nat
  BY PortsAgree DEF DescriptorAssumption
<1>3. Pipeline(stages) /\ registry \subseteq Kinds
  BY DEF DefInv, EditorType
<1>4. pipelinesAt \in 1 .. Len(stages) /\ Len(stages) \in Nat /\ Len(stages) <= MaxStages
      /\ DOMAIN stages \subseteq Nat
  BY <1>1, <1>3, PipelineFacts DEF Pipeline
<1>5. EditorType'
  <2> HIDE DEF Pipeline
  <2>1. Pipeline(stages')
    BY <1>1, <1>3
  <2>2. pipelinesAt + 1 \in 0 .. MaxStages + 1
    BY <1>2, <1>4
  <2> QED  BY <1>1, <2>1, <2>2 DEF DefInv, EditorType
<1>6. Served'
  <2>1. Served
    BY <1>4 DEF DefInv
  <2> QED  BY <1>1, <2>1 DEF Served
<1>7. CASE ~stages[pipelinesAt].enabled /\ UNCHANGED <<ports, starved>>
  <2>1. \A j \in DOMAIN stages : j < pipelinesAt => j < pipelinesAt + 1
    BY <1>4
  <2>2. Published'
    BY <1>1, <1>7, <2>1 DEF DefInv, Published
  <2>3. \A j \in DOMAIN stages : j < pipelinesAt + 1 => j < pipelinesAt \/ j = pipelinesAt
    BY <1>4
  <2>4. Delivered'
    BY <1>1, <1>7, <2>3 DEF DefInv, Delivered
  <2> QED  BY <1>5, <1>6, <1>7, <2>2, <2>4 DEF DefInv
<1>8. CASE stages[pipelinesAt].enabled
  <2>1. \A port \in Descriptor[stages[pipelinesAt].kind].inputs : port.required => Pipelines!Found(port.kind)
    BY <1>1, <1>8, PortsFound
  <2>2. PICK given \in SUBSET {port \in Descriptor[stages[pipelinesAt].kind].outputs : port.kind[1] = "artifact"} :
          /\ \A port \in Descriptor[stages[pipelinesAt].kind].outputs \ given :
               port.required => port.kind[1] # "artifact"
          /\ ports' = {x \in ports : \A port \in given : port.name # x.name}
                      \cup {[name |-> port.name, kind |-> port.kind, by |-> pipelinesAt] : port \in given}
          /\ starved' = starved
    BY <1>8, <2>1 DEF Pipelines!Process
  <2>3. Published' /\ Delivered'
    BY <1>1, <1>8, <2>2, PublishingDelivers
  <2> QED  BY <1>5, <1>6, <2>2, <2>3 DEF DefInv
<1>9. ~stages[pipelinesAt].enabled => UNCHANGED <<ports, starved>>
  BY DEF Pipelines!Process
<1> QED  BY <1>7, <1>8, <1>9

LEMMA EditorSteps ==
  ASSUME DefInv, Pipelines!DefNext \/ UNCHANGED PipelinesVars
  PROVE  DefInv'
<1>1. CASE UNCHANGED PipelinesVars
  <2>1. /\ stages' = stages /\ registry' = registry /\ rows' = rows /\ pipelinesAt' = pipelinesAt
        /\ ports' = ports /\ starved' = starved
    BY <1>1 DEF PipelinesVars
  <2>2. Pipeline(stages')
    BY <2>1 DEF DefInv, EditorType
  <2>3. EditorType'
    <3> HIDE DEF Pipeline
    <3> QED  BY <2>1, <2>2 DEF DefInv, EditorType
  <2>4. (pipelinesAt > 0 => Served)'
    BY <2>1 DEF DefInv, Served
  <2> QED  BY <2>1, <2>3, <2>4 DEF DefInv, Published, Delivered
<1>2. CASE Pipelines!DefNext
  <2>1. \/ \E k \in Kinds : Pipelines!Register(k) \/ Pipelines!AddStage(k)
        \/ \E i \in DOMAIN stages :
             \/ Pipelines!RemoveStage(i) \/ Pipelines!MoveStage(i) \/ Pipelines!ToggleStage(i)
             \/ \E n \in Pipelines!Names(i) :
                  \/ Pipelines!ClearParam(i, n)
                  \/ \E raw \in Typed : Pipelines!TypeParam(i, n, raw)
                  \/ \E v \in Values : Pipelines!SpecOf(i, n).kind \notin Pipelines!Boxed /\ Pipelines!SetParam(i, n, v)
        \/ Pipelines!Save \/ Pipelines!Load \/ Pipelines!WriteOver \/ (\E e \in Expressions : Pipelines!Assert({e}))
        \/ Pipelines!Start \/ Pipelines!Process \/ Pipelines!Stop
    BY <1>2 DEF Pipelines!DefNext
  <2> QED
    BY <2>1, RegisterKeeps, AddStageKeeps, EditKeeps, KeepingKeeps, StartKeeps, ProcessKeeps, StopKeeps
<1> QED  BY <1>1, <1>2

VettingInv == /\ (part = "conformance" => SuiteInv)
              /\ (part = "regression" => GateInv)
              /\ (part = "definition" => DefInv)

\* No step of one part touches another.
LEMMA VettingSteps ==
  ASSUME VettingInv, [VettingNext]_VettingVars
  PROVE  VettingInv'
<1>1. /\ part' = part
      /\ part = "definition" => Pipelines!DefNext \/ UNCHANGED PipelinesVars
      /\ part = "conformance" => Suite!ConNext \/ UNCHANGED SuiteVars
      /\ part = "regression" => Gate!RegNext \/ UNCHANGED GateVars
  BY DEF VettingNext, VettingVars
<1>2. part = "definition" => DefInv'
  BY <1>1, EditorSteps DEF VettingInv
<1>3. part = "conformance" => SuiteInv'
  <2>1. UNCHANGED SuiteVars => UNCHANGED Suite!conVars
    BY DEF SuiteVars, Suite!conVars
  <2> QED
    BY <1>1, <2>1, BeginKeeps, TryKeeps, TriedKeeps, CancelEnds, SuiteRests DEF VettingInv, Suite!ConNext
<1>4. part = "regression" => GateInv'
  <2>1. UNCHANGED GateVars => UNCHANGED Gate!regVars
    BY DEF GateVars, Gate!regVars
  <2> QED  BY <1>1, <2>1, GateSteps DEF VettingInv
<1> QED  BY <1>1, <1>2, <1>3, <1>4 DEF VettingInv

\* A stage the conformance kit passes kept its promises, a check that passes against a golden
\* run missed nothing, an assertion passes only of what was recorded; and the stage or the run
\* that deserves its pass is given it (conform.rs, regress.rs, compare.rs, assert.rs).
THEOREM PassesEarned == VettingSpec => []PassesAreEarned
<1>1. VettingInit => VettingInv
  BY SuiteAtFirst, GateAtFirst, EditorAtFirst DEF VettingInit, VettingInv
<1>2. VettingInv /\ [VettingNext]_VettingVars => VettingInv'
  BY VettingSteps
<1>3. VettingInv => PassesAreEarned
  BY SuiteJudges, GateJudges DEF VettingInv, PassesAreEarned
<1> QED  BY <1>1, <1>2, <1>3, PTL DEF VettingSpec

\* A pipeline that validates is walked with every artifact its stages need on the frame, can be
\* hashed, and its hash is that of the pipelines that compute the same and of no other
\* (pipeline.rs validate, hash; registry.rs; frame.rs).
THEOREM PipelinesAreVetted == VettingSpec => []ValidatedRuns
<1>1. VettingInit => VettingInv
  BY SuiteAtFirst, GateAtFirst, EditorAtFirst DEF VettingInit, VettingInv
<1>2. VettingInv /\ [VettingNext]_VettingVars => VettingInv'
  BY VettingSteps
<1>3. VettingInv => ValidatedRuns
  BY PipelinesJudged DEF VettingInv, ValidatedRuns
<1> QED  BY <1>1, <1>2, <1>3, PTL DEF VettingSpec
=================================================================================
