----------------------------- MODULE SessionProofs -----------------------------
(***************************************************************************)
(* Theorems about Session, for any set of threads and of buffers, whatever *)
(* errors the socket gives and whether or not DisconnectEx may fail.       *)
(***************************************************************************)
EXTENDS Session, FiniteSetTheorems, SequenceTheorems, TLAPS

\* A stack has one of some places on it.
On(s, places) == \E i \in DOMAIN s : s[i] \in places

\* What a thread may still have to return to, below a place on its stack.
Below(place) ==
    CASE place \in {"disconnect", "registerDisconnect"} ->
            {"sendFailed", "unregister", "handle", "unlock", "recvFailed"}
      [] place = "sendFailed" -> {"unregister", "handle", "unlock"}
      [] place \in {"enqueue", "registerSend", "drain", "post", "unregister"} -> {"handle", "unlock"}
      [] OTHER -> {}

\* The shape of a stack: in particular, a thread that fails to send unregisters next.
Shape(s) ==
    /\ s \in Seq(Places)
    /\ \A i, k \in DOMAIN s : i < k => s[k] \in Below(s[i])
    /\ On(s, {"sendFailed"}) => On(s, {"unregister"})

Stacks == \A t \in Threads : Shape(stack[t])

\* The send that is registered has one place: a thread that will post it, has
\* failed to or handles its end, or the operation.
SendPlaces == {"registerSend", "drain", "post", "unregister", "processSend"}
OneSend ==
    /\ \A t, u \in Threads : On(stack[t], SendPlaces) /\ On(stack[u], SendPlaces) => t = u
    /\ \A t \in Threads : On(stack[t], SendPlaces) => pending.send = "none" /\ sendRegistered
    /\ pending.send # "none" => sendRegistered /\ owner.send
    /\ \A t \in Threads : On(stack[t], {"drain", "post"}) => owner.send

\* There is something to send when it is posted; _sendEvent has buffers only from
\* then on, to the end of the operation.
SendHasBuffers ==
    /\ \A t \in Threads : On(stack[t], {"registerSend", "drain"}) => sendQueue # <<>>
    /\ \A t \in Threads : On(stack[t], {"post"}) => sendBuffers # <<>>
    /\ sendBuffers # <<>> => pending.send # "none" \/ \E t \in Threads : On(stack[t], {"post", "sendFailed"})
    /\ pending.send # "none" => /\ Len(sendBuffers) \in 1..Len(wire)
                                /\ sendBuffers = SubSeq(wire, Len(wire) - Len(sendBuffers) + 1, Len(wire))

\* The connection and the receive loop that follows it have one place, too.
RecvPlaces == {"connect", "addSession", "onConnected", "registerRecv", "postRecv", "recvFailed", "handle"}
OneRecv ==
    /\ \A t, u \in Threads : On(stack[t], RecvPlaces) /\ On(stack[u], RecvPlaces) => t = u
    /\ \A t \in Threads : On(stack[t], RecvPlaces) => pending.connect = "none" /\ pending.recv = "none"
    /\ pending.connect # "none" => pending.recv = "none" /\ owner.connect
    /\ pending.recv # "none" => owner.recv
    /\ \A t \in Threads : On(stack[t], {"postRecv"}) => owner.recv

\* Until the Session is in the Service, nothing else happens to it.
Early ==
    /\ pending.connect # "none" => \A t \in Threads : stack[t] = <<>>
    /\ \A t \in Threads : On(stack[t], {"connect", "addSession"}) => \A u \in Threads \ {t} : stack[u] = <<>>
    /\ pending.connect # "none" \/ (\E t \in Threads : On(stack[t], {"connect", "addSession"})) =>
          ~entered /\ \A e \in Events \ {"connect"} : pending[e] = "none"

\* It is disconnected once, and stays in the Service until then.
DisconnectPlaces == {"registerDisconnect", "onDisconnected", "release"}
OneDisconnect ==
    /\ \A t, u \in Threads : On(stack[t], DisconnectPlaces) /\ On(stack[u], DisconnectPlaces) => t = u
    /\ \A t \in Threads : On(stack[t], DisconnectPlaces) =>
          pending.disconnect = "none" /\ ~connected /\ inService
    /\ pending.disconnect # "none" => ~connected /\ inService /\ owner.disconnect
    /\ connected => inService \/ \E t \in Threads : On(stack[t], {"addSession"})

\* A buffer is in one place until it is sent or lost.
InOnePlace ==
    /\ InSeq(sendQueue) \cap (InSeq(wire) \cup InSeq(sendBuffers)) = {}
    /\ pending.send = "none" => InSeq(sendBuffers) \cap InSeq(wire) = {}
    /\ \A t \in Threads :
          /\ sending[t] \cap (InSeq(wire) \cup InSeq(sendBuffers) \cup InSeq(sendQueue)) = {}
          /\ \A u \in Threads \ {t} : sending[t] \cap sending[u] = {}

\* A connection and a disconnection end without an error.
Ends == pending.connect # "zero" /\ pending.disconnect # "zero"

\* What every step preserves.
Inv == TypeOK /\ Ends /\ Stacks /\ OneSend /\ SendHasBuffers /\ OneRecv /\ Early /\ OneDisconnect /\ InOnePlace

\* Literal stacks.
LEMMA OnLiterals ==
    ASSUME NEW S
    PROVE  /\ ~On(<<>>, S)
           /\ \A a : On(<<a>>, S) <=> a \in S
           /\ \A a, b : On(<<a, b>>, S) <=> a \in S \/ b \in S
           /\ \A a, b, c : On(<<a, b, c>>, S) <=> a \in S \/ b \in S \/ c \in S
<1>1. ~On(<<>>, S)
  BY DEF On
<1>2. ASSUME NEW a
      PROVE  On(<<a>>, S) <=> a \in S
  <2>1. DOMAIN <<a>> = {1} /\ <<a>>[1] = a
    OBVIOUS
  <2>. QED
    BY <2>1 DEF On
<1>3. ASSUME NEW a, NEW b
      PROVE  On(<<a, b>>, S) <=> a \in S \/ b \in S
  <2>1. DOMAIN <<a, b>> = {1, 2} /\ <<a, b>>[1] = a /\ <<a, b>>[2] = b
    OBVIOUS
  <2>. QED
    BY <2>1 DEF On
<1>4. ASSUME NEW a, NEW b, NEW c
      PROVE  On(<<a, b, c>>, S) <=> a \in S \/ b \in S \/ c \in S
  <2>1. /\ DOMAIN <<a, b, c>> = {1, 2, 3}
        /\ <<a, b, c>>[1] = a /\ <<a, b, c>>[2] = b /\ <<a, b, c>>[3] = c
    OBVIOUS
  <2>. QED
    BY <2>1 DEF On
<1>. QED
  BY <1>1, <1>2, <1>3, <1>4

\* The places that a step puts on a stack.
LEMMA ShapeLiterals ==
    /\ Shape(<<>>)
    /\ \A p \in Places \ {"sendFailed"} : Shape(<<p>>)
    /\ Shape(<<"registerSend", "unlock">>)
    /\ Shape(<<"sendFailed", "unregister">>)
    /\ Shape(<<"disconnect", "sendFailed", "unregister">>)
    /\ Shape(<<"disconnect", "recvFailed">>)
<1>1. Shape(<<>>)
  BY EmptySeq, OnLiterals DEF Shape
<1>2. ASSUME NEW p \in Places \ {"sendFailed"}
      PROVE  Shape(<<p>>)
  <2>1. <<p>> \in Seq(Places) /\ DOMAIN <<p>> = {1}
    OBVIOUS
  <2>2. ~On(<<p>>, {"sendFailed"})
    BY OnLiterals
  <2>. QED
    BY <2>1, <2>2 DEF Shape
<1>3. ASSUME NEW p \in Places, NEW q \in Places, q \in Below(p), p = "sendFailed" => q = "unregister", q # "sendFailed"
      PROVE  Shape(<<p, q>>)
  <2>1. <<p, q>> \in Seq(Places) /\ DOMAIN <<p, q>> = {1, 2} /\ <<p, q>>[1] = p /\ <<p, q>>[2] = q
    OBVIOUS
  <2>2. /\ On(<<p, q>>, {"sendFailed"}) <=> p = "sendFailed"
        /\ On(<<p, q>>, {"unregister"}) <=> p = "unregister" \/ q = "unregister"
    BY <1>3, OnLiterals
  <2>. QED
    BY <1>3, <2>1, <2>2 DEF Shape
<1>4. /\ Shape(<<"registerSend", "unlock">>)
      /\ Shape(<<"sendFailed", "unregister">>)
      /\ Shape(<<"disconnect", "recvFailed">>)
  BY <1>3 DEF Below, Places
<1>5. Shape(<<"disconnect", "sendFailed", "unregister">>)
  <2> DEFINE s == <<"disconnect", "sendFailed", "unregister">>
  <2>1. /\ s \in Seq(Places) /\ DOMAIN s = {1, 2, 3}
        /\ s[1] = "disconnect" /\ s[2] = "sendFailed" /\ s[3] = "unregister"
    BY DEF Places
  <2>2. On(s, {"unregister"})
    BY <2>1 DEF On
  <2> HIDE DEF s
  <2>3. \A i, k \in DOMAIN s : i < k => s[k] \in Below(s[i])
    BY <2>1 DEF Below
  <2>. QED
    BY <2>1, <2>2, <2>3 DEF Shape, s
<1>. QED
  BY <1>1, <1>2, <1>4, <1>5

\* Two sequences, one after the other.
LEMMA OnConcat ==
    ASSUME NEW s \in Seq(Places), NEW r \in Seq(Places), NEW S
    PROVE  /\ On(s \o r, S) <=> On(s, S) \/ On(r, S)
           /\ s \o r \in Seq(Places)
<1>1. /\ Len(s) \in Nat /\ DOMAIN s = 1..Len(s) /\ Len(r) \in Nat /\ DOMAIN r = 1..Len(r)
      /\ s \o r \in Seq(Places)
      /\ \A i \in 1..(Len(s) + Len(r)) : (s \o r)[i] = IF i <= Len(s) THEN s[i] ELSE r[i - Len(s)]
      /\ DOMAIN (s \o r) = 1..(Len(s) + Len(r))
  BY LenProperties, ConcatProperties
<1>2. ASSUME On(s \o r, S)
      PROVE  On(s, S) \/ On(r, S)
  <2>1. PICK i \in 1..(Len(s) + Len(r)) : (s \o r)[i] \in S
    BY <1>1, <1>2 DEF On
  <2>2. CASE i <= Len(s)
    BY <1>1, <2>1, <2>2 DEF On
  <2>3. CASE ~(i <= Len(s))
    <3>1. i - Len(s) \in DOMAIN r /\ r[i - Len(s)] \in S
      BY <1>1, <2>1, <2>3
    <3>. QED
      BY <3>1 DEF On
  <2>. QED
    BY <2>2, <2>3
<1>3. ASSUME On(s, S)
      PROVE  On(s \o r, S)
  <2>1. PICK i \in 1..Len(s) : s[i] \in S
    BY <1>1, <1>3 DEF On
  <2>2. i \in DOMAIN (s \o r) /\ (s \o r)[i] = s[i]
    BY <1>1
  <2>. QED
    BY <2>1, <2>2 DEF On
<1>4. ASSUME On(r, S)
      PROVE  On(s \o r, S)
  <2>1. PICK i \in 1..Len(r) : r[i] \in S
    BY <1>1, <1>4 DEF On
  <2>2. /\ Len(s) + i \in 1..(Len(s) + Len(r)) /\ ~(Len(s) + i <= Len(s)) /\ (Len(s) + i) - Len(s) = i
    BY <1>1
  <2>3. Len(s) + i \in DOMAIN (s \o r) /\ (s \o r)[Len(s) + i] = r[i]
    BY <1>1, <2>2
  <2>. QED
    BY <2>1, <2>3 DEF On
<1>. QED
  BY <1>1, <1>2, <1>3, <1>4

\* Two literal sequences, one after the other.
LEMMA Concats ==
    /\ \A s \in Seq(Places) : <<>> \o s = s
    /\ \A a, b \in Places : <<a>> \o <<b>> = <<a, b>>
    /\ \A a, b, c \in Places : <<a>> \o <<b, c>> = <<a, b, c>>
<1>1. ASSUME NEW s \in Seq(Places)
      PROVE  <<>> \o s = s
  BY ConcatEmptySeq
<1>2. ASSUME NEW a \in Places, NEW b \in Places
      PROVE  <<a>> \o <<b>> = <<a, b>>
  <2> DEFINE x == <<a>>
             y == <<b>>
             z == <<a, b>>
  <2>1. /\ x \in Seq(Places) /\ Len(x) = 1 /\ x[1] = a
        /\ y \in Seq(Places) /\ Len(y) = 1 /\ y[1] = b
        /\ z \in Seq(Places) /\ Len(z) = 2 /\ z[1] = a /\ z[2] = b
    OBVIOUS
  <2> HIDE DEF x, y, z
  <2>2. /\ x \o y \in Seq(Places) /\ Len(x \o y) = 2
        /\ \A i \in 1..2 : (x \o y)[i] = IF i <= 1 THEN x[i] ELSE y[i - 1]
    BY <2>1, ConcatProperties
  <2>3. \A i \in 1..2 : (x \o y)[i] = z[i]
    BY <2>1, <2>2
  <2>4. x \o y = z
    BY <2>1, <2>2, <2>3, SeqEqual
  <2>. QED
    BY <2>4 DEF x, y, z
<1>3. ASSUME NEW a \in Places, NEW b \in Places, NEW c \in Places
      PROVE  <<a>> \o <<b, c>> = <<a, b, c>>
  <2> DEFINE x == <<a>>
             y == <<b, c>>
             z == <<a, b, c>>
  <2>1. /\ x \in Seq(Places) /\ Len(x) = 1 /\ x[1] = a
        /\ y \in Seq(Places) /\ Len(y) = 2 /\ y[1] = b /\ y[2] = c
        /\ z \in Seq(Places) /\ Len(z) = 3 /\ z[1] = a /\ z[2] = b /\ z[3] = c
    OBVIOUS
  <2> HIDE DEF x, y, z
  <2>a. /\ x \o y \in Seq(Places) /\ Len(x \o y) = Len(x) + Len(y)
        /\ \A i \in 1..(Len(x) + Len(y)) :
              (x \o y)[i] = IF i <= Len(x) THEN x[i] ELSE y[i - Len(x)]
    BY <2>1, ConcatProperties
  <2>2. /\ x \o y \in Seq(Places) /\ Len(x \o y) = 3
        /\ \A i \in 1..3 : (x \o y)[i] = IF i <= 1 THEN x[i] ELSE y[i - 1]
    BY <2>1, <2>a
  <2>3. \A i \in 1..3 : (x \o y)[i] = z[i]
    BY <2>1, <2>2
  <2>4. x \o y = z
    BY <2>1, <2>2, <2>3, SeqEqual
  <2>. QED
    BY <2>4 DEF x, y, z
<1>. QED
  BY <1>1, <1>2, <1>3

\* One sequence of places above another, if every place there may have them below.
LEMMA ShapeConcat ==
    ASSUME NEW s, Shape(s), NEW r, Shape(r),
           \A i \in DOMAIN s, k \in DOMAIN r : r[k] \in Below(s[i])
    PROVE  Shape(s \o r)
<1>1. s \in Seq(Places) /\ r \in Seq(Places)
  BY DEF Shape
<1>2. /\ Len(s) \in Nat /\ DOMAIN s = 1..Len(s) /\ Len(r) \in Nat /\ DOMAIN r = 1..Len(r)
      /\ s \o r \in Seq(Places)
      /\ \A i \in 1..(Len(s) + Len(r)) : (s \o r)[i] = IF i <= Len(s) THEN s[i] ELSE r[i - Len(s)]
      /\ DOMAIN (s \o r) = 1..(Len(s) + Len(r))
  BY <1>1, LenProperties, ConcatProperties
<1>3. ASSUME NEW i \in DOMAIN (s \o r), NEW k \in DOMAIN (s \o r), i < k
      PROVE  (s \o r)[k] \in Below((s \o r)[i])
  <2>1. CASE k <= Len(s)
    <3>1. /\ i \in DOMAIN s /\ k \in DOMAIN s /\ i <= Len(s)
          /\ (s \o r)[i] = s[i] /\ (s \o r)[k] = s[k]
      BY <1>2, <1>3, <2>1
    <3>. QED
      BY <1>3, <3>1 DEF Shape
  <2>2. CASE ~(k <= Len(s)) /\ i <= Len(s)
    <3>1. i \in DOMAIN s /\ k - Len(s) \in DOMAIN r /\ (s \o r)[i] = s[i] /\ (s \o r)[k] = r[k - Len(s)]
      BY <1>2, <1>3, <2>2
    <3>. QED
      BY <3>1
  <2>3. CASE ~(k <= Len(s)) /\ ~(i <= Len(s))
    <3>1. /\ i - Len(s) \in DOMAIN r /\ k - Len(s) \in DOMAIN r /\ i - Len(s) < k - Len(s)
          /\ (s \o r)[i] = r[i - Len(s)] /\ (s \o r)[k] = r[k - Len(s)]
      BY <1>2, <1>3, <2>3
    <3>. QED
      BY <3>1 DEF Shape
  <2>. QED
    BY <2>1, <2>2, <2>3
<1>4. On(s \o r, {"sendFailed"}) => On(s \o r, {"unregister"})
  BY <1>1, OnConcat DEF Shape
<1>. QED
  BY <1>2, <1>3, <1>4 DEF Shape

\* The top of a stack, and the rest of it.
LEMMA TopAndRest ==
    ASSUME NEW s, Shape(s), s # <<>>
    PROVE  /\ Head(s) \in Places /\ Shape(Tail(s))
           /\ \A S : On(s, S) <=> Head(s) \in S \/ On(Tail(s), S)
           /\ \A i \in DOMAIN Tail(s) : Tail(s)[i] \in Below(Head(s))
           /\ \A S : On(Tail(s), S) => \E p \in S : p \in Below(Head(s))
           /\ Head(s) = "sendFailed" => On(Tail(s), {"unregister"})
<1>1. s \in Seq(Places)
  BY DEF Shape
<1>2. /\ Len(s) \in Nat /\ Len(s) >= 1 /\ DOMAIN s = 1..Len(s)
      /\ Head(s) = s[1] /\ Head(s) \in Places
      /\ Tail(s) \in Seq(Places) /\ Len(Tail(s)) = Len(s) - 1
      /\ \A i \in 1..Len(Tail(s)) : Tail(s)[i] = s[i + 1]
  BY <1>1, LenProperties, EmptySeq, HeadTailProperties
<1>3. DOMAIN Tail(s) = 1..(Len(s) - 1)
  BY <1>2, LenProperties
<1>4. ASSUME NEW S
      PROVE  On(s, S) <=> Head(s) \in S \/ On(Tail(s), S)
  <2>1. ASSUME On(s, S), s[1] \notin S
        PROVE  On(Tail(s), S)
    <3>1. PICK i \in DOMAIN s : s[i] \in S
      BY <2>1 DEF On
    <3>2. i - 1 \in DOMAIN Tail(s) /\ Tail(s)[i - 1] = s[i]
      BY <1>2, <1>3, <2>1, <3>1
    <3>. QED
      BY <3>1, <3>2 DEF On
  <2>2. ASSUME On(Tail(s), S)
        PROVE  On(s, S)
    <3>1. PICK i \in DOMAIN Tail(s) : Tail(s)[i] \in S
      BY <2>2 DEF On
    <3>2. i + 1 \in DOMAIN s /\ s[i + 1] = Tail(s)[i]
      BY <1>2, <1>3
    <3>. QED
      BY <3>1, <3>2 DEF On
  <2>3. s[1] \in S => On(s, S)
    BY <1>2 DEF On
  <2>. QED
    BY <1>2, <2>1, <2>2, <2>3
<1>5. ASSUME NEW i \in DOMAIN Tail(s)
      PROVE  Tail(s)[i] \in Below(Head(s))
  <2>1. 1 \in DOMAIN s /\ i + 1 \in DOMAIN s /\ 1 < i + 1 /\ Tail(s)[i] = s[i + 1]
    BY <1>2, <1>3
  <2>. QED
    BY <1>2, <2>1 DEF Shape
<1>6. ASSUME NEW S, On(Tail(s), S)
      PROVE  \E p \in S : p \in Below(Head(s))
  BY <1>5, <1>6 DEF On
<1>7. ASSUME NEW i \in DOMAIN Tail(s), NEW k \in DOMAIN Tail(s), i < k
      PROVE  Tail(s)[k] \in Below(Tail(s)[i])
  <2>1. /\ i + 1 \in DOMAIN s /\ k + 1 \in DOMAIN s /\ i + 1 < k + 1
        /\ Tail(s)[i] = s[i + 1] /\ Tail(s)[k] = s[k + 1]
    BY <1>2, <1>3, <1>7
  <2>. QED
    BY <2>1 DEF Shape
<1>8. On(s, {"sendFailed"}) => On(s, {"unregister"})
  BY DEF Shape
<1>9. Head(s) = "sendFailed" => On(Tail(s), {"unregister"})
  BY <1>4, <1>8
<1>10. On(Tail(s), {"sendFailed"}) => On(Tail(s), {"unregister"})
  <2>1. ASSUME On(Tail(s), {"sendFailed"})
        PROVE  Head(s) # "unregister"
    BY <1>6, <2>1 DEF Below
  <2>. QED
    BY <1>4, <1>8, <2>1
<1>11. Shape(Tail(s))
  BY <1>2, <1>7, <1>10 DEF Shape
<1>. QED
  BY <1>2, <1>4, <1>5, <1>6, <1>9, <1>11

\* A thread goes on at other places, and then where it would have gone anyway.
LEMMA Moves ==
    ASSUME TypeOK, Stacks, NEW t \in Threads, NEW place, At(t, place), NEW places, Shape(places),
           \A p \in Places : On(places, {p}) => Below(place) \subseteq Below(p),
           GoTo(t, places)
    PROVE  /\ stack' \in [Threads -> Seq(Places)] /\ Stacks'
           /\ \A u \in Threads \ {t} : stack'[u] = stack[u]
           /\ stack[t] # <<>> /\ place \in Places
           /\ \A S : On(stack[t], S) <=> place \in S \/ On(Tail(stack[t]), S)
           /\ \A S : On(stack'[t], S) <=> On(places, S) \/ On(Tail(stack[t]), S)
           /\ \A S : On(Tail(stack[t]), S) => \E p \in S : p \in Below(place)
           /\ place = "sendFailed" => On(Tail(stack[t]), {"unregister"})
<1>1. stack[t] # <<>> /\ Head(stack[t]) = place /\ Shape(stack[t]) /\ stack \in [Threads -> Seq(Places)]
  BY DEF At, Stacks, TypeOK
<1> DEFINE rest == Tail(stack[t])
<1>2. /\ place \in Places /\ Shape(rest)
      /\ \A S : On(stack[t], S) <=> place \in S \/ On(rest, S)
      /\ \A i \in DOMAIN rest : rest[i] \in Below(place)
      /\ \A S : On(rest, S) => \E p \in S : p \in Below(place)
      /\ place = "sendFailed" => On(rest, {"unregister"})
  BY <1>1, TopAndRest
<1> HIDE DEF rest
<1>3. places \in Seq(Places) /\ rest \in Seq(Places)
  BY <1>2 DEF Shape
<1>4. ASSUME NEW i \in DOMAIN places, NEW k \in DOMAIN rest
      PROVE  rest[k] \in Below(places[i])
  <2>1. places[i] \in Places /\ On(places, {places[i]})
    BY <1>3, ElementOfSeq, LenProperties DEF On
  <2>. QED
    BY <1>2, <2>1
<1>5. Shape(places \o rest)
  BY <1>2, <1>4, ShapeConcat
<1>6. /\ places \o rest \in Seq(Places)
      /\ \A S : On(places \o rest, S) <=> On(places, S) \/ On(rest, S)
  BY <1>3, OnConcat
<1>7. stack' = [stack EXCEPT ![t] = places \o rest]
  BY DEF GoTo, rest
<1>8. /\ stack' \in [Threads -> Seq(Places)] /\ stack'[t] = places \o rest
      /\ \A u \in Threads \ {t} : stack'[u] = stack[u]
  BY <1>1, <1>6, <1>7
<1>9. Stacks'
  BY <1>5, <1>8 DEF Stacks
<1>. QED
  BY <1>1, <1>2, <1>6, <1>8, <1>9 DEF rest

\* A thread is called to some places, from nowhere or from OnRecv.
LEMMA Calls ==
    ASSUME TypeOK, Stacks, NEW t \in Threads, stack[t] = <<>> \/ At(t, "handle"), NEW places, Shape(places),
           \A p \in Places : On(places, {p}) /\ stack[t] # <<>> => "handle" \in Below(p),
           Call(t, places)
    PROVE  /\ stack' \in [Threads -> Seq(Places)] /\ Stacks'
           /\ \A u \in Threads \ {t} : stack'[u] = stack[u]
           /\ \A S : On(stack'[t], S) <=> On(places, S) \/ On(stack[t], S)
           /\ \A S : On(stack[t], S) => "handle" \in S
<1>1. Shape(stack[t]) /\ stack \in [Threads -> Seq(Places)] /\ stack[t] \in Seq(Places) /\ places \in Seq(Places)
  BY DEF Stacks, TypeOK, Shape
<1>2. ASSUME NEW k \in DOMAIN stack[t]
      PROVE  stack[t][k] = "handle" /\ stack[t] # <<>>
  <2>1. stack[t] # <<>>
    BY <1>2
  <2>2. Head(stack[t]) = "handle"
    BY <2>1 DEF At
  <2>3. \A i \in DOMAIN Tail(stack[t]) : FALSE
    BY <1>1, <2>1, <2>2, TopAndRest DEF Below
  <2>4. /\ Len(stack[t]) \in Nat /\ DOMAIN stack[t] = 1..Len(stack[t])
        /\ Len(Tail(stack[t])) = Len(stack[t]) - 1 /\ Tail(stack[t]) \in Seq(Places)
    BY <1>1, <2>1, LenProperties, HeadTailProperties
  <2>5. DOMAIN Tail(stack[t]) = 1..(Len(stack[t]) - 1)
    BY <2>4, LenProperties
  <2>6. ~(Len(stack[t]) >= 2)
    <3>1. ASSUME Len(stack[t]) >= 2
          PROVE  FALSE
      <4>1. 1 \in 1..(Len(stack[t]) - 1)
        BY <2>4, <3>1
      <4>. QED
        BY <2>3, <2>5, <4>1
    <3>. QED
      BY <3>1
  <2>7. k = 1
    BY <1>2, <2>4, <2>6
  <2>. QED
    BY <1>1, <2>1, <2>2, <2>7
<1>3. \A S : On(stack[t], S) => "handle" \in S
  BY <1>2 DEF On
<1>4. ASSUME NEW i \in DOMAIN places, NEW k \in DOMAIN stack[t]
      PROVE  stack[t][k] \in Below(places[i])
  <2>1. places[i] \in Places /\ On(places, {places[i]})
    BY <1>1, ElementOfSeq, LenProperties DEF On
  <2>. QED
    BY <1>2, <2>1
<1>5. Shape(places \o stack[t])
  BY <1>1, <1>4, ShapeConcat
<1>6. /\ places \o stack[t] \in Seq(Places)
      /\ \A S : On(places \o stack[t], S) <=> On(places, S) \/ On(stack[t], S)
  BY <1>1, OnConcat
<1>7. /\ stack' \in [Threads -> Seq(Places)] /\ stack'[t] = places \o stack[t]
      /\ \A u \in Threads \ {t} : stack'[u] = stack[u]
  BY <1>1, <1>6 DEF Call
<1>8. Stacks'
  BY <1>1, <1>5, <1>7 DEF Stacks
<1>. QED
  BY <1>3, <1>6, <1>7, <1>8

-----------------------------------------------------------------------------
\* What a step of t keeps of each part of the invariant that it has little to do with:
\* the send, ...
LEMMA SendKept ==
    ASSUME OneSend, SendHasBuffers, InOnePlace, NEW t \in Threads,
           \A u \in Threads \ {t} : stack'[u] = stack[u],
           \A S \in SUBSET (SendPlaces \cup {"sendFailed"}) : On(stack'[t], S) <=> On(stack[t], S),
           pending'["send"] = pending["send"], owner'["send"] = owner["send"],
           UNCHANGED <<sendQueue, sendRegistered, sendBuffers, wire>>
    PROVE  OneSend' /\ SendHasBuffers' /\ (UNCHANGED sending => InOnePlace')
<1>1. /\ SendPlaces \in SUBSET (SendPlaces \cup {"sendFailed"})
      /\ {"drain", "post"} \in SUBSET (SendPlaces \cup {"sendFailed"})
      /\ {"registerSend", "drain"} \in SUBSET (SendPlaces \cup {"sendFailed"})
      /\ {"post"} \in SUBSET (SendPlaces \cup {"sendFailed"})
      /\ {"post", "sendFailed"} \in SUBSET (SendPlaces \cup {"sendFailed"})
  BY DEF SendPlaces
<1>2. \A u \in Threads :
         /\ On(stack'[u], SendPlaces) <=> On(stack[u], SendPlaces)
         /\ On(stack'[u], {"drain", "post"}) <=> On(stack[u], {"drain", "post"})
         /\ On(stack'[u], {"registerSend", "drain"}) <=> On(stack[u], {"registerSend", "drain"})
         /\ On(stack'[u], {"post"}) <=> On(stack[u], {"post"})
         /\ On(stack'[u], {"post", "sendFailed"}) <=> On(stack[u], {"post", "sendFailed"})
  BY <1>1
<1>3. OneSend'
  BY <1>2 DEF OneSend
<1>4. SendHasBuffers'
  BY <1>2 DEF SendHasBuffers
<1>5. UNCHANGED sending => InOnePlace'
  BY DEF InOnePlace
<1>. QED
  BY <1>3, <1>4, <1>5

\* ... the receive loop, ...
LEMMA RecvKept ==
    ASSUME OneRecv, NEW t \in Threads,
           \A u \in Threads \ {t} : stack'[u] = stack[u],
           On(stack'[t], RecvPlaces) => On(stack[t], RecvPlaces),
           On(stack'[t], {"postRecv"}) => On(stack[t], {"postRecv"}),
           pending'["connect"] = pending["connect"], pending'["recv"] = pending["recv"],
           owner'["connect"] = owner["connect"], owner'["recv"] = owner["recv"]
    PROVE  OneRecv'
<1>1. \A u \in Threads : /\ On(stack'[u], RecvPlaces) => On(stack[u], RecvPlaces)
                         /\ On(stack'[u], {"postRecv"}) => On(stack[u], {"postRecv"})
  OBVIOUS
<1>. QED
  BY <1>1 DEF OneRecv

\* ... the disconnection, ...
LEMMA DisconnectKept ==
    ASSUME OneDisconnect, NEW t \in Threads,
           \A u \in Threads \ {t} : stack'[u] = stack[u],
           On(stack'[t], DisconnectPlaces) => On(stack[t], DisconnectPlaces),
           On(stack[t], {"addSession"}) => On(stack'[t], {"addSession"}),
           pending'["disconnect"] = pending["disconnect"], owner'["disconnect"] = owner["disconnect"],
           UNCHANGED <<connected, inService>>
    PROVE  OneDisconnect'
<1>1. \A u \in Threads : /\ On(stack'[u], DisconnectPlaces) => On(stack[u], DisconnectPlaces)
                         /\ On(stack[u], {"addSession"}) => On(stack'[u], {"addSession"})
  OBVIOUS
<1>. QED
  BY <1>1 DEF OneDisconnect

\* ... and the beginning: it is over when a thread is elsewhere.
LEMMA BeginningIsOver ==
    ASSUME Stacks, Early, NEW t \in Threads, NEW place, At(t, place), place \notin {"connect", "addSession"}
    PROVE  pending["connect"] = "none" /\ \A u \in Threads : ~On(stack[u], {"connect", "addSession"})
<1>1. stack[t] # <<>> /\ Head(stack[t]) = place /\ Shape(stack[t])
  BY DEF At, Stacks
<1>2. pending["connect"] = "none"
  BY <1>1 DEF Early
<1>3. \A u \in Threads \ {t} : ~On(stack[u], {"connect", "addSession"})
  BY <1>1 DEF Early
<1>4. On(Tail(stack[t]), {"connect", "addSession"}) => \E p \in {"connect", "addSession"} : p \in Below(place)
  BY <1>1, TopAndRest
<1>5. ~On(stack[t], {"connect", "addSession"})
  <2>1. ~On(Tail(stack[t]), {"connect", "addSession"})
    BY <1>4 DEF Below
  <2>. QED
    BY <1>1, <2>1, TopAndRest
<1>. QED
  BY <1>2, <1>3, <1>5

\* It does not come back.
LEMMA NeverEarlyAgain ==
    ASSUME NEW t \in Threads, \A u \in Threads \ {t} : stack'[u] = stack[u],
           pending'["connect"] = "none", ~On(stack'[t], {"connect", "addSession"}),
           \A u \in Threads : ~On(stack[u], {"connect", "addSession"})
    PROVE  Early'
<1>1. \A u \in Threads : ~On(stack'[u], {"connect", "addSession"})
  OBVIOUS
<1>. QED
  BY <1>1 DEF Early

-----------------------------------------------------------------------------
\* The steps of a new connection and of the receive loop.
LEMMA ConnectKeeps ==
    ASSUME Inv, NEW t \in Threads, SetConnected(t) \/ AddSession(t) \/ OnConnected(t)
    PROVE  Inv'
<1> USE DEF Inv
<1>1. PICK place \in {"connect", "addSession", "onConnected"},
           next \in {"addSession", "onConnected", "registerRecv"} :
         /\ At(t, place) /\ GoTo(t, <<next>>)
         /\ UNCHANGED <<lock, sending, sendVars, ioVars, entered>>
         /\ connected' \in BOOLEAN /\ inService' \in BOOLEAN /\ inManager' \in BOOLEAN
         /\ place = "connect" => next = "addSession" /\ connected' = TRUE /\ UNCHANGED inService
         /\ place = "addSession" => next = "onConnected" /\ inService' = TRUE /\ UNCHANGED connected
         /\ place = "onConnected" => next = "registerRecv" /\ UNCHANGED <<connected, inService>>
  <2>1. CASE SetConnected(t)
    BY <2>1 DEF SetConnected, TypeOK, memberVars
  <2>2. CASE AddSession(t)
    BY <2>2 DEF AddSession, TypeOK
  <2>3. CASE OnConnected(t)
    BY <2>3 DEF OnConnected, TypeOK
  <2>. QED
    BY <2>1, <2>2, <2>3
<1>2. Shape(<<next>>) /\ \A S : On(<<next>>, S) <=> next \in S
  BY ShapeLiterals, OnLiterals DEF Places
<1>3. /\ stack' \in [Threads -> Seq(Places)] /\ Stacks'
      /\ \A u \in Threads \ {t} : stack'[u] = stack[u]
      /\ stack[t] # <<>> /\ place \in Places
      /\ \A S : On(stack[t], S) <=> place \in S \/ On(Tail(stack[t]), S)
      /\ \A S : On(stack'[t], S) <=> On(<<next>>, S) \/ On(Tail(stack[t]), S)
      /\ \A S : On(Tail(stack[t]), S) => \E p \in S : p \in Below(place)
  <2> DEFINE places == <<next>>
  <2>1. Shape(places) /\ At(t, place) /\ GoTo(t, places) /\ TypeOK /\ Stacks
    BY <1>1, <1>2
  <2>2. \A p \in Places : On(places, {p}) => Below(place) \subseteq Below(p)
    BY <1>1 DEF Below
  <2>3. \A S : On(places, S) <=> On(<<next>>, S)
    OBVIOUS
  <2> HIDE DEF places
  <2>. QED
    BY <2>1, <2>2, <2>3, Moves
<1>4. (\A S : ~On(Tail(stack[t]), S)) /\ (\A S : On(stack[t], S) <=> place \in S)
      /\ (\A S : On(stack'[t], S) <=> next \in S)
  <2>1. Below(place) = {}
    BY <1>1 DEF Below
  <2>. QED
    BY <1>2, <1>3, <2>1
<1>5. TypeOK' /\ Ends'
  BY <1>1, <1>3 DEF TypeOK, Ends, sendVars, ioVars
<1>6. OneSend' /\ SendHasBuffers' /\ InOnePlace'
  BY <1>1, <1>3, <1>4, SendKept DEF sendVars, ioVars, SendPlaces
<1>7. OneRecv'
  BY <1>1, <1>3, <1>4, RecvKept DEF ioVars, RecvPlaces
<1>8. Early'
  <2>1. CASE place = "onConnected"
    <3>1. pending["connect"] = "none" /\ \A u \in Threads : ~On(stack[u], {"connect", "addSession"})
      BY <1>1, <2>1, BeginningIsOver
    <3>. QED
      BY <1>1, <1>3, <1>4, <2>1, <3>1, NeverEarlyAgain DEF ioVars
  <2>2. CASE place \in {"connect", "addSession"}
    <3>1. /\ \A u \in Threads \ {t} : stack[u] = <<>>
          /\ ~entered /\ \A e \in Events \ {"connect"} : pending[e] = "none"
      BY <1>4, <2>2 DEF Early
    <3>2. pending["connect"] = "none"
      BY <1>3 DEF Early
    <3>. QED
      BY <1>1, <1>3, <3>1, <3>2, OnLiterals DEF Early, ioVars
  <2>. QED
    BY <1>1, <2>1, <2>2
<1>9. OneDisconnect'
  <2>1. CASE place = "connect"
    <3>1. \A u \in Threads \ {t} : ~On(stack[u], DisconnectPlaces)
      BY <1>4, <2>1, OnLiterals DEF Early
    <3>2. pending["disconnect"] = "none"
      BY <1>4, <2>1 DEF Early, Events
    <3>3. \A u \in Threads : ~On(stack'[u], DisconnectPlaces)
      BY <1>1, <1>3, <1>4, <3>1 DEF DisconnectPlaces
    <3>4. On(stack'[t], {"addSession"})
      BY <1>1, <1>4, <2>1
    <3>. QED
      BY <1>1, <3>2, <3>3, <3>4 DEF OneDisconnect, ioVars
  <2>2. CASE place = "addSession"
    <3>1. \A u \in Threads : On(stack'[u], DisconnectPlaces) => On(stack[u], DisconnectPlaces)
      BY <1>1, <1>3, <1>4 DEF DisconnectPlaces
    <3>. QED
      BY <1>1, <2>2, <3>1 DEF OneDisconnect, ioVars
  <2>3. CASE place = "onConnected"
    BY <1>1, <1>3, <1>4, <2>3, DisconnectKept DEF ioVars, DisconnectPlaces
  <2>. QED
    BY <1>1, <2>1, <2>2, <2>3
<1>. QED
  BY <1>3, <1>5, <1>6, <1>7, <1>8, <1>9

\* A step of the receive loop, up to WSARecv and its failure.
LEMMA RecvStepKeeps ==
    ASSUME Inv, NEW t \in Threads,
           NEW place \in {"registerRecv", "postRecv", "recvFailed", "handle"}, At(t, place),
           NEW next \in {<<>>, <<"postRecv">>, <<"recvFailed">>, <<"disconnect", "recvFailed">>,
                         <<"registerRecv">>},
           GoTo(t, next),
           UNCHANGED <<connected, lock, sending, sendVars, inService, inManager>>,
           entered' \in BOOLEAN,
           owner' \in [Events -> BOOLEAN], \A e \in Events \ {"recv"} : owner'[e] = owner[e],
           pending' \in [Events -> {"none", "pending", "bytes", "zero"}],
           \A e \in Events \ {"recv"} : pending'[e] = pending[e],
           next = <<"postRecv">> => owner'["recv"],
           next # <<>> => pending'["recv"] = "none",
           pending'["recv"] # "none" => owner'["recv"]
    PROVE  Inv'
<1> USE DEF Inv
<1>1. /\ Shape(next)
      /\ \A S : On(next, S) => "postRecv" \in S \/ "recvFailed" \in S \/ "disconnect" \in S \/ "registerRecv" \in S
      /\ \A S : On(next, S) /\ "disconnect" \notin S => next # <<>>
      /\ On(next, {"postRecv"}) => next = <<"postRecv">>
  <2>1. CASE next = <<>>
    BY <2>1, ShapeLiterals, OnLiterals
  <2>2. ASSUME NEW p \in {"postRecv", "recvFailed", "registerRecv"}, next = <<p>>
        PROVE  /\ Shape(next) /\ \A S : On(next, S) <=> p \in S
               /\ next # <<>>
    BY <2>2, ShapeLiterals, OnLiterals DEF Places
  <2>3. CASE next = <<"disconnect", "recvFailed">>
    <3>1. Shape(next) /\ \A S : On(next, S) <=> "disconnect" \in S \/ "recvFailed" \in S
      BY <2>3, ShapeLiterals, OnLiterals
    <3>2. next # <<>>
      BY <2>3
    <3>. QED
      BY <3>1, <3>2
  <2>4. CASE next = <<"postRecv">>
    BY <2>2, <2>4
  <2>5. CASE next = <<"recvFailed">>
    BY <2>2, <2>5
  <2>6. CASE next = <<"registerRecv">>
    BY <2>2, <2>6
  <2>. QED
    BY <2>1, <2>3, <2>4, <2>5, <2>6
<1>2. Below(place) = {}
  BY DEF Below
<1>3. /\ stack' \in [Threads -> Seq(Places)] /\ Stacks'
      /\ \A u \in Threads \ {t} : stack'[u] = stack[u]
      /\ \A S : On(stack[t], S) <=> place \in S \/ On(Tail(stack[t]), S)
      /\ \A S : On(stack'[t], S) <=> On(next, S) \/ On(Tail(stack[t]), S)
      /\ \A S : On(Tail(stack[t]), S) => \E p \in S : p \in Below(place)
  <2>1. \A p \in Places : On(next, {p}) => Below(place) \subseteq Below(p)
    BY <1>2
  <2>. QED
    BY <1>1, <2>1, Moves
<1>4. (\A S : On(stack[t], S) <=> place \in S) /\ (\A S : On(stack'[t], S) <=> On(next, S))
  BY <1>2, <1>3
<1>5. TypeOK' /\ Ends'
  <2>1. pending'["connect"] = pending["connect"] /\ pending'["disconnect"] = pending["disconnect"]
    BY DEF Events
  <2>. QED
    BY <1>3, <2>1 DEF TypeOK, Ends, sendVars
<1>6. OneSend' /\ SendHasBuffers' /\ InOnePlace'
  <2>1. \A S \in SUBSET (SendPlaces \cup {"sendFailed"}) : ~On(stack'[t], S) /\ ~On(stack[t], S)
    BY <1>1, <1>4 DEF SendPlaces
  <2>2. /\ \A S \in SUBSET (SendPlaces \cup {"sendFailed"}) : On(stack'[t], S) <=> On(stack[t], S)
        /\ pending'["send"] = pending["send"] /\ owner'["send"] = owner["send"]
    BY <2>1 DEF Events
  <2>. QED
    BY <1>3, <2>2, SendKept DEF sendVars
<1>7. OneRecv'
  <2>1. On(stack[t], RecvPlaces)
    BY <1>4 DEF RecvPlaces
  <2>2. \A u \in Threads \ {t} : ~On(stack'[u], RecvPlaces)
    BY <1>3, <2>1 DEF OneRecv
  <2>3. \A u \in Threads \ {t} : ~On(stack'[u], {"postRecv"})
    BY <2>2 DEF On, RecvPlaces
  <2>4. pending["connect"] = "none" /\ pending'["connect"] = "none"
    BY <2>1 DEF OneRecv, Events
  <2>5. On(stack'[t], RecvPlaces) => pending'["recv"] = "none"
    BY <1>1, <1>4 DEF RecvPlaces
  <2>6. On(stack'[t], {"postRecv"}) => owner'["recv"]
    BY <1>1, <1>4
  <2>. QED
    BY <2>2, <2>3, <2>4, <2>5, <2>6 DEF OneRecv
<1>8. Early'
  <2>1. pending["connect"] = "none" /\ \A u \in Threads : ~On(stack[u], {"connect", "addSession"})
    BY BeginningIsOver
  <2>2. ~On(stack'[t], {"connect", "addSession"})
    BY <1>1, <1>4
  <2>3. pending'["connect"] = "none"
    BY <2>1 DEF Events
  <2>. QED
    BY <1>3, <2>1, <2>2, <2>3, NeverEarlyAgain
<1>9. OneDisconnect'
  <2>1. ~On(stack'[t], DisconnectPlaces) /\ ~On(stack[t], {"addSession"})
    BY <1>1, <1>4 DEF DisconnectPlaces
  <2>2. pending'["disconnect"] = pending["disconnect"] /\ owner'["disconnect"] = owner["disconnect"]
    BY DEF Events
  <2>. QED
    BY <1>3, <2>1, <2>2, DisconnectKept
<1>. QED
  BY <1>3, <1>5, <1>6, <1>7, <1>8, <1>9

\* RegisterRecv, WSARecv, what follows its failure, and OnRecv.
LEMMA RecvKeeps ==
    ASSUME Inv, NEW t \in Threads, RegisterRecv(t) \/ PostRecv(t) \/ RecvFailed(t) \/ EndHandle(t)
    PROVE  Inv'
<1> USE DEF Inv
<1>1. TypeOK /\ owner \in [Events -> BOOLEAN] /\ entered \in BOOLEAN
      /\ pending \in [Events -> {"none", "pending", "bytes", "zero"}]
  BY DEF TypeOK
<1>2. ASSUME NEW place \in {"registerRecv", "postRecv", "recvFailed", "handle"}, At(t, place)
      PROVE  pending["recv"] = "none" /\ (place = "postRecv" => owner["recv"])
  <2>1. /\ stack[t] # <<>> /\ Head(stack[t]) = place /\ Shape(stack[t])
    BY <1>2 DEF At, Stacks
  <2>2. On(stack[t], RecvPlaces) /\ (place = "postRecv" => On(stack[t], {"postRecv"}))
    BY <2>1, TopAndRest DEF RecvPlaces
  <2>. QED
    BY <2>2 DEF OneRecv
<1>3. CASE RegisterRecv(t)
  <2>1. /\ At(t, "registerRecv") /\ UNCHANGED <<connected, pending, lock, sending, sendVars, memberVars>>
        /\ \/ owner' = [owner EXCEPT !.recv = TRUE] /\ GoTo(t, <<"postRecv">>)
           \/ owner' = owner /\ GoTo(t, <<>>)
    BY <1>3 DEF RegisterRecv
  <2>2. owner' \in [Events -> BOOLEAN] /\ \A e \in Events \ {"recv"} : owner'[e] = owner[e]
    BY <1>1, <2>1 DEF Events
  <2>3. CASE owner' = [owner EXCEPT !.recv = TRUE] /\ GoTo(t, <<"postRecv">>)
    <3>1. owner'["recv"]
      BY <1>1, <2>3 DEF Events
    <3>. QED
      BY <1>1, <1>2, <2>1, <2>2, <2>3, <3>1, RecvStepKeeps DEF memberVars
  <2>4. CASE owner' = owner /\ GoTo(t, <<>>)
    BY <1>1, <1>2, <2>1, <2>2, <2>4, RecvStepKeeps DEF memberVars
  <2>. QED
    BY <2>1, <2>3, <2>4
<1>4. CASE PostRecv(t)
  <2>1. /\ At(t, "postRecv") /\ UNCHANGED <<connected, owner, lock, sending, sendVars, memberVars>>
        /\ \/ pending' = [pending EXCEPT !.recv = "pending"] /\ GoTo(t, <<>>)
           \/ /\ \E error \in PossibleErrors : GoTo(t, HandleError(error) \o <<"recvFailed">>)
              /\ pending' = pending
    BY <1>4 DEF PostRecv
  <2>2. CASE pending' = [pending EXCEPT !.recv = "pending"] /\ GoTo(t, <<>>)
    <3>1. /\ pending' \in [Events -> {"none", "pending", "bytes", "zero"}]
          /\ \A e \in Events \ {"recv"} : pending'[e] = pending[e]
      BY <1>1, <2>2 DEF Events
    <3>2. owner["recv"]
      BY <1>2, <2>1
    <3>. QED
      BY <1>1, <2>1, <2>2, <3>1, <3>2, RecvStepKeeps DEF memberVars
  <2>3. CASE /\ \E error \in PossibleErrors : GoTo(t, HandleError(error) \o <<"recvFailed">>)
             /\ pending' = pending
    <3>1. \/ GoTo(t, <<"disconnect">> \o <<"recvFailed">>)
          \/ GoTo(t, <<>> \o <<"recvFailed">>)
      BY <2>3 DEF HandleError
    <3>p. "disconnect" \in Places /\ "recvFailed" \in Places /\ <<"recvFailed">> \in Seq(Places)
      BY DEF Places
    <3>a. <<"disconnect">> \o <<"recvFailed">> = <<"disconnect", "recvFailed">>
      BY <3>p, Concats
    <3>b. <<>> \o <<"recvFailed">> = <<"recvFailed">>
      BY <3>p, Concats
    <3>2. <<"disconnect">> \o <<"recvFailed">> = <<"disconnect", "recvFailed">> /\ <<>> \o <<"recvFailed">> = <<"recvFailed">>
      BY <3>a, <3>b
    <3>3. GoTo(t, <<"disconnect", "recvFailed">>) \/ GoTo(t, <<"recvFailed">>)
      BY <3>1, <3>2
    <3>4. pending["recv"] = "none"
      BY <1>2, <2>1
    <3>5. CASE GoTo(t, <<"recvFailed">>)
      BY <1>1, <2>1, <2>3, <3>4, <3>5, RecvStepKeeps DEF memberVars
    <3>6. CASE GoTo(t, <<"disconnect", "recvFailed">>)
      BY <1>1, <2>1, <2>3, <3>4, <3>6, RecvStepKeeps DEF memberVars
    <3>. QED
      BY <3>3, <3>5, <3>6
  <2>. QED
    BY <2>1, <2>2, <2>3
<1>5. CASE RecvFailed(t)
  <2>1. /\ At(t, "recvFailed") /\ owner' = [owner EXCEPT !.recv = FALSE] /\ GoTo(t, <<>>)
        /\ UNCHANGED <<connected, pending, lock, sending, sendVars, memberVars>>
    BY <1>5 DEF RecvFailed, Released
  <2>2. owner' \in [Events -> BOOLEAN] /\ \A e \in Events \ {"recv"} : owner'[e] = owner[e]
    BY <1>1, <2>1 DEF Events
  <2>. QED
    BY <1>1, <1>2, <2>1, <2>2, RecvStepKeeps DEF memberVars
<1>6. CASE EndHandle(t)
  <2>1. /\ At(t, "handle") /\ entered' = TRUE /\ GoTo(t, <<"registerRecv">>)
        /\ UNCHANGED <<connected, lock, sending, inService, inManager, sendVars, owner, pending>>
    BY <1>6 DEF EndHandle, ioVars
  <2>. QED
    BY <1>1, <1>2, <2>1, RecvStepKeeps
<1>. QED
  BY <1>3, <1>4, <1>5, <1>6

\* A step of a disconnection.
LEMMA DisconnectStepKeeps ==
    ASSUME Inv, NEW t \in Threads,
           NEW place \in {"disconnect", "registerDisconnect", "onDisconnected", "release"}, At(t, place),
           NEW next \in {<<>>, <<"registerDisconnect">>, <<"release">>}, GoTo(t, next),
           place \in {"disconnect", "registerDisconnect"} => next # <<"release">>,
           UNCHANGED <<lock, sending, sendVars, entered>>,
           ~connected', connected' \in BOOLEAN, inService' \in BOOLEAN, inManager' \in BOOLEAN,
           owner' \in [Events -> BOOLEAN], \A e \in Events \ {"disconnect"} : owner'[e] = owner[e],
           pending' \in [Events -> {"none", "pending", "bytes", "zero"}], pending'["disconnect"] # "zero",
           \A e \in Events \ {"disconnect"} : pending'[e] = pending[e],
           next # <<>> => /\ pending'["disconnect"] = "none" /\ inService'
                          /\ \A u \in Threads \ {t} : ~On(stack[u], DisconnectPlaces),
           \A u \in Threads \ {t} :
              On(stack[u], DisconnectPlaces) => pending'["disconnect"] = "none" /\ inService',
           pending'["disconnect"] # "none" => inService' /\ owner'["disconnect"]
    PROVE  Inv'
<1> USE DEF Inv
<1>1. /\ Shape(next)
      /\ \A S : On(next, S) => next # <<>> /\ ("registerDisconnect" \in S \/ "release" \in S)
      /\ \A p \in Places : On(next, {p}) => Below(place) \subseteq Below(p)
  <2>1. CASE next = <<>>
    BY <2>1, ShapeLiterals, OnLiterals
  <2>2. CASE next = <<"registerDisconnect">>
    <3>1. Shape(next) /\ next # <<>> /\ \A S : On(next, S) <=> "registerDisconnect" \in S
      BY <2>2, ShapeLiterals, OnLiterals DEF Places
    <3>. QED
      BY <3>1 DEF Below
  <2>3. CASE next = <<"release">>
    <3>1. Shape(next) /\ next # <<>> /\ \A S : On(next, S) <=> "release" \in S
      BY <2>3, ShapeLiterals, OnLiterals DEF Places
    <3>2. Below(place) = {}
      BY <2>3 DEF Below
    <3>. QED
      BY <3>1, <3>2
  <2>. QED
    BY <2>1, <2>2, <2>3
<1>2. /\ stack' \in [Threads -> Seq(Places)] /\ Stacks'
      /\ \A u \in Threads \ {t} : stack'[u] = stack[u]
      /\ \A S : On(stack[t], S) <=> place \in S \/ On(Tail(stack[t]), S)
      /\ \A S : On(stack'[t], S) <=> On(next, S) \/ On(Tail(stack[t]), S)
      /\ \A S : On(Tail(stack[t]), S) => \E p \in S : p \in Below(place)
  <2>1. /\ TypeOK /\ Stacks /\ t \in Threads /\ At(t, place) /\ Shape(next) /\ GoTo(t, next)
        /\ \A p \in Places : On(next, {p}) => Below(place) \subseteq Below(p)
    BY <1>1
  <2>. QED
    BY ONLY <2>1, Moves
<1>3. \A S : "registerDisconnect" \notin S /\ "release" \notin S /\ place \notin S
             => (On(stack'[t], S) <=> On(stack[t], S))
  BY <1>1, <1>2
<1>4. TypeOK' /\ Ends'
  <2>1. pending'["connect"] = pending["connect"]
    BY DEF Events
  <2>. QED
    BY <1>2, <2>1 DEF TypeOK, Ends, sendVars
<1>5. OneSend' /\ SendHasBuffers' /\ InOnePlace'
  <2>1. \A S \in SUBSET (SendPlaces \cup {"sendFailed"}) : On(stack'[t], S) <=> On(stack[t], S)
    <3>1. ASSUME NEW S \in SUBSET (SendPlaces \cup {"sendFailed"})
          PROVE  "registerDisconnect" \notin S /\ "release" \notin S /\ place \notin S
      BY DEF SendPlaces
    <3>. QED
      BY <1>3, <3>1
  <2>2. pending'["send"] = pending["send"] /\ owner'["send"] = owner["send"]
    BY DEF Events
  <2>. QED
    BY <1>2, <2>1, <2>2, SendKept DEF sendVars
<1>6. OneRecv'
  <2>1. /\ On(stack'[t], RecvPlaces) <=> On(stack[t], RecvPlaces)
        /\ On(stack'[t], {"postRecv"}) <=> On(stack[t], {"postRecv"})
    BY <1>3 DEF RecvPlaces
  <2>2. /\ pending'["connect"] = pending["connect"] /\ pending'["recv"] = pending["recv"]
        /\ owner'["connect"] = owner["connect"] /\ owner'["recv"] = owner["recv"]
    BY DEF Events
  <2>. QED
    BY <1>2, <2>1, <2>2, RecvKept
<1>7. Early'
  <2>1. pending["connect"] = "none" /\ \A u \in Threads : ~On(stack[u], {"connect", "addSession"})
    BY BeginningIsOver
  <2>2. ~On(stack'[t], {"connect", "addSession"})
    BY <1>3, <2>1
  <2>3. pending'["connect"] = "none"
    BY <2>1 DEF Events
  <2>. QED
    BY <1>2, <2>1, <2>2, <2>3, NeverEarlyAgain
<1>8. OneDisconnect'
  <2>1. ~On(Tail(stack[t]), DisconnectPlaces)
    BY <1>2 DEF DisconnectPlaces, Below
  <2>2. On(stack'[t], DisconnectPlaces) => next # <<>>
    BY <1>1, <1>2, <2>1
  <2>3. \A u \in Threads : On(stack'[u], DisconnectPlaces) => pending'["disconnect"] = "none" /\ inService'
    BY <1>2, <2>2
  <2>4. \A u, v \in Threads : On(stack'[u], DisconnectPlaces) /\ On(stack'[v], DisconnectPlaces) => u = v
    <3>1. \A u \in Threads \ {t} : On(stack'[u], DisconnectPlaces) => On(stack[u], DisconnectPlaces)
      BY <1>2
    <3>2. ASSUME NEW u \in Threads, NEW v \in Threads, On(stack'[u], DisconnectPlaces), On(stack'[v], DisconnectPlaces),
                 u # v
          PROVE  FALSE
      <4>1. CASE u # t /\ v # t
        BY <3>1, <3>2, <4>1 DEF OneDisconnect
      <4>2. CASE u = t \/ v = t
        BY <2>2, <3>1, <3>2, <4>2
      <4>. QED
        BY <4>1, <4>2
    <3>. QED
      BY <3>2
  <2>. QED
    BY <2>3, <2>4 DEF OneDisconnect
<1>. QED
  BY <1>2, <1>4, <1>5, <1>6, <1>7, <1>8

\* Disconnect, RegisterDisconnect and ProcessDisconnect.
LEMMA DisconnectKeeps ==
    ASSUME Inv, NEW t \in Threads,
           Disconnect(t) \/ RegisterDisconnect(t) \/ OnDisconnected(t) \/ ReleaseSession(t)
    PROVE  Inv'
<1> USE DEF Inv
<1>1. /\ owner \in [Events -> BOOLEAN] /\ connected \in BOOLEAN /\ inService \in BOOLEAN /\ inManager \in BOOLEAN
      /\ pending \in [Events -> {"none", "pending", "bytes", "zero"}] /\ pending["disconnect"] # "zero"
  BY DEF TypeOK, Ends
<1>2. ASSUME NEW place \in DisconnectPlaces, At(t, place)
      PROVE  /\ pending["disconnect"] = "none" /\ ~connected /\ inService
             /\ \A u \in Threads \ {t} : ~On(stack[u], DisconnectPlaces)
  <2>1. stack[t] # <<>> /\ Head(stack[t]) = place /\ Shape(stack[t])
    BY <1>2 DEF At, Stacks
  <2>2. On(stack[t], DisconnectPlaces)
    BY <2>1, TopAndRest
  <2>. QED
    BY <2>2 DEF OneDisconnect
<1>3. CASE Disconnect(t)
  <2>1. /\ At(t, "disconnect") /\ connected' = FALSE
        /\ UNCHANGED <<lock, sending, sendVars, owner, pending, inService, inManager, entered>>
    BY <1>3 DEF Disconnect, ioVars, memberVars
  <2>2. CASE connected
    <3>1. GoTo(t, <<"registerDisconnect">>)
      BY <1>3, <2>2 DEF Disconnect, FirstCaller
    <3>2. /\ pending["disconnect"] = "none"
          /\ \A u \in Threads : ~On(stack[u], DisconnectPlaces)
      BY <2>2 DEF OneDisconnect
    <3>3. inService
      BY <2>1, <2>2, BeginningIsOver, OnLiterals DEF OneDisconnect, On
    <3>. QED
      BY <1>1, <2>1, <3>1, <3>2, <3>3, DisconnectStepKeeps
  <2>3. CASE ~connected
    <3>1. GoTo(t, <<>>)
      BY <1>3, <2>3 DEF Disconnect, FirstCaller
    <3>2. /\ \A u \in Threads : On(stack[u], DisconnectPlaces) => pending["disconnect"] = "none" /\ inService
          /\ pending["disconnect"] # "none" => inService /\ owner["disconnect"]
      BY DEF OneDisconnect
    <3>. QED
      BY <1>1, <2>1, <3>1, <3>2, DisconnectStepKeeps
  <2>. QED
    BY <2>2, <2>3
<1>4. CASE RegisterDisconnect(t)
  <2>1. PICK fails \in DisconnectFails :
          /\ owner' = [owner EXCEPT !.disconnect = ~fails]
          /\ pending' = [pending EXCEPT !.disconnect = IF fails THEN @ ELSE "pending"]
    BY <1>4 DEF RegisterDisconnect
  <2>2. /\ At(t, "registerDisconnect") /\ GoTo(t, <<>>)
        /\ UNCHANGED <<connected, lock, sending, sendVars, inService, inManager, entered>>
    BY <1>4 DEF RegisterDisconnect, memberVars
  <2>3. fails \in BOOLEAN
    BY DisconnectFailsBoolean
  <2>4. /\ owner' \in [Events -> BOOLEAN] /\ \A e \in Events \ {"disconnect"} : owner'[e] = owner[e]
        /\ owner'["disconnect"] = ~fails
    BY <1>1, <2>1, <2>3 DEF Events
  <2>5. /\ pending' \in [Events -> {"none", "pending", "bytes", "zero"}]
        /\ \A e \in Events \ {"disconnect"} : pending'[e] = pending[e]
        /\ fails => pending'["disconnect"] = pending["disconnect"]
        /\ ~fails => pending'["disconnect"] = "pending"
    BY <1>1, <2>1, <2>3 DEF Events
  <2>6. /\ pending["disconnect"] = "none" /\ ~connected /\ inService
        /\ \A u \in Threads \ {t} : ~On(stack[u], DisconnectPlaces)
    BY <1>2, <2>2 DEF DisconnectPlaces
  <2>. QED
    BY <1>1, <2>2, <2>3, <2>4, <2>5, <2>6, DisconnectStepKeeps
<1>5. CASE OnDisconnected(t)
  <2>1. /\ At(t, "onDisconnected") /\ inManager' = FALSE /\ GoTo(t, <<"release">>)
        /\ UNCHANGED <<connected, lock, sending, inService, entered, sendVars, owner, pending>>
    BY <1>5 DEF OnDisconnected, ioVars
  <2>2. /\ pending["disconnect"] = "none" /\ ~connected /\ inService
        /\ \A u \in Threads \ {t} : ~On(stack[u], DisconnectPlaces)
    BY <1>2, <2>1 DEF DisconnectPlaces
  <2>. QED
    BY <1>1, <2>1, <2>2, DisconnectStepKeeps
<1>6. CASE ReleaseSession(t)
  <2>1. /\ At(t, "release") /\ inService' = FALSE /\ GoTo(t, <<>>)
        /\ UNCHANGED <<connected, lock, sending, inManager, entered, sendVars, owner, pending>>
    BY <1>6 DEF ReleaseSession, ioVars
  <2>2. /\ pending["disconnect"] = "none" /\ ~connected /\ inService
        /\ \A u \in Threads \ {t} : ~On(stack[u], DisconnectPlaces)
    BY <1>2, <2>1 DEF DisconnectPlaces
  <2>. QED
    BY <1>1, <2>1, <2>2, DisconnectStepKeeps
<1>. QED
  BY <1>3, <1>4, <1>5, <1>6

-----------------------------------------------------------------------------
\* Sequences of buffers: the empty one, ...
LEMMA EmptyQueue == <<>> \in Queues /\ InSeq(<<>>) = {}
<1>1. <<>> \in Seq(Buffers) /\ DOMAIN <<>> = {}
  BY EmptySeq
<1>. QED
  BY <1>1 DEF Queues, InSeq

\* ... one with another buffer behind it, ...
LEMMA AppendQueue ==
    ASSUME NEW q \in Queues, NEW b \in Buffers, b \notin InSeq(q)
    PROVE  /\ Append(q, b) \in Queues /\ Append(q, b) # <<>>
           /\ InSeq(Append(q, b)) = InSeq(q) \cup {b}
<1>1. q \in Seq(Buffers) /\ \A i, j \in DOMAIN q : q[i] = q[j] => i = j
  BY DEF Queues
<1>2. Len(q) \in Nat /\ DOMAIN q = 1..Len(q)
  BY <1>1, LenProperties
<1> DEFINE r == Append(q, b)
<1>3. /\ r \in Seq(Buffers) /\ Len(r) = Len(q) + 1
      /\ \A i \in 1..Len(q) : r[i] = q[i]
      /\ r[Len(q) + 1] = b
  BY <1>1, AppendProperties
<1> HIDE DEF r
<1>4. DOMAIN r = 1..(Len(q) + 1)
  BY <1>3, LenProperties
<1>5. \A i \in 1..Len(q) : r[i] \in InSeq(q)
  BY <1>2, <1>3 DEF InSeq
<1>6. \A i, j \in DOMAIN r : r[i] = r[j] => i = j
  <2>1. \A i \in DOMAIN r : i \in 1..Len(q) \/ i = Len(q) + 1
    BY <1>2, <1>4
  <2>. QED
    BY <1>1, <1>2, <1>3, <1>5, <2>1
<1>7. ASSUME NEW x \in InSeq(r)
      PROVE  x \in InSeq(q) \cup {b}
  <2>1. PICK i \in DOMAIN r : r[i] = x
    BY <1>7 DEF InSeq
  <2>2. i \in 1..Len(q) \/ i = Len(q) + 1
    BY <1>2, <1>4
  <2>. QED
    BY <1>3, <1>5, <2>1, <2>2
<1>8. ASSUME NEW x \in InSeq(q)
      PROVE  x \in InSeq(r)
  <2>1. PICK i \in 1..Len(q) : q[i] = x
    BY <1>2 DEF InSeq
  <2>2. i \in DOMAIN r /\ r[i] = x
    BY <1>2, <1>3, <1>4, <2>1
  <2>. QED
    BY <2>2 DEF InSeq
<1>9. b \in InSeq(r)
  <2>1. Len(q) + 1 \in DOMAIN r
    BY <1>2, <1>4
  <2>. QED
    BY <1>3, <2>1 DEF InSeq
<1>10. InSeq(r) = InSeq(q) \cup {b}
  BY <1>7, <1>8, <1>9
<1>11. r # <<>>
  BY <1>2, <1>3, EmptySeq
<1>. QED
  BY <1>3, <1>6, <1>10, <1>11 DEF Queues, r

\* ... and two sequences that have no buffer in common, one after the other.
LEMMA ConcatQueue ==
    ASSUME NEW q \in Queues, NEW r \in Queues, InSeq(q) \cap InSeq(r) = {}
    PROVE  /\ q \o r \in Queues
           /\ InSeq(q \o r) = InSeq(q) \cup InSeq(r)
<1>1. /\ q \in Seq(Buffers) /\ \A i, j \in DOMAIN q : q[i] = q[j] => i = j
      /\ r \in Seq(Buffers) /\ \A i, j \in DOMAIN r : r[i] = r[j] => i = j
  BY DEF Queues
<1>2. /\ Len(q) \in Nat /\ DOMAIN q = 1..Len(q)
      /\ Len(r) \in Nat /\ DOMAIN r = 1..Len(r)
  BY <1>1, LenProperties
<1> DEFINE s == q \o r
<1>3. /\ s \in Seq(Buffers) /\ Len(s) = Len(q) + Len(r)
      /\ \A i \in 1..(Len(q) + Len(r)) : s[i] = IF i <= Len(q) THEN q[i] ELSE r[i - Len(q)]
  BY <1>1, ConcatProperties
<1> HIDE DEF s
<1>4. DOMAIN s = 1..(Len(q) + Len(r))
  BY <1>3, LenProperties
<1>5. \A i \in DOMAIN q : i \in DOMAIN s /\ s[i] = q[i] /\ q[i] \in InSeq(q)
  BY <1>2, <1>3, <1>4 DEF InSeq
<1>6. ASSUME NEW i \in DOMAIN r
      PROVE  Len(q) + i \in DOMAIN s /\ s[Len(q) + i] = r[i] /\ r[i] \in InSeq(r)
  <2>1. Len(q) + i \in 1..(Len(q) + Len(r)) /\ ~(Len(q) + i <= Len(q)) /\ (Len(q) + i) - Len(q) = i
    BY <1>2
  <2>. QED
    BY <1>3, <1>4, <2>1 DEF InSeq
<1>7. \A i \in DOMAIN s : i \in DOMAIN q \/ (i - Len(q) \in DOMAIN r /\ Len(q) + (i - Len(q)) = i)
  BY <1>2, <1>4
<1>8. ASSUME NEW i \in DOMAIN s, NEW j \in DOMAIN s, s[i] = s[j]
      PROVE  i = j
  <2>1. CASE i \in DOMAIN q /\ j \in DOMAIN q
    BY <1>1, <1>5, <1>8, <2>1
  <2>2. CASE i \in DOMAIN q /\ j \notin DOMAIN q
    <3>1. s[i] \in InSeq(q) /\ s[j] \in InSeq(r)
      BY <1>5, <1>6, <1>7, <2>2
    <3>. QED
      BY <1>8, <3>1
  <2>3. CASE i \notin DOMAIN q /\ j \in DOMAIN q
    <3>1. s[j] \in InSeq(q) /\ s[i] \in InSeq(r)
      BY <1>5, <1>6, <1>7, <2>3
    <3>. QED
      BY <1>8, <3>1
  <2>4. CASE i \notin DOMAIN q /\ j \notin DOMAIN q
    <3>1. /\ i - Len(q) \in DOMAIN r /\ s[i] = r[i - Len(q)]
          /\ j - Len(q) \in DOMAIN r /\ s[j] = r[j - Len(q)]
      BY <1>6, <1>7, <2>4
    <3>2. i - Len(q) = j - Len(q)
      BY <1>1, <1>8, <3>1
    <3>. QED
      BY <1>2, <1>4, <3>2
  <2>. QED
    BY <2>1, <2>2, <2>3, <2>4
<1>9. ASSUME NEW x \in InSeq(s)
      PROVE  x \in InSeq(q) \cup InSeq(r)
  <2>1. PICK i \in DOMAIN s : s[i] = x
    BY <1>9 DEF InSeq
  <2>. QED
    BY <1>5, <1>6, <1>7, <2>1
<1>10. ASSUME NEW x \in InSeq(q) \cup InSeq(r)
       PROVE  x \in InSeq(s)
  <2>1. CASE x \in InSeq(q)
    <3>1. PICK i \in DOMAIN q : q[i] = x
      BY <2>1 DEF InSeq
    <3>. QED
      BY <1>5, <3>1 DEF InSeq
  <2>2. CASE x \in InSeq(r)
    <3>1. PICK i \in DOMAIN r : r[i] = x
      BY <2>2 DEF InSeq
    <3>. QED
      BY <1>6, <3>1 DEF InSeq
  <2>. QED
    BY <1>10, <2>1, <2>2
<1>11. InSeq(s) = InSeq(q) \cup InSeq(r)
  BY <1>9, <1>10
<1>. QED
  BY <1>3, <1>8, <1>11 DEF Queues, s

\* What was put behind a sequence is its end.
LEMMA EndOfConcat ==
    ASSUME NEW q \in Seq(Buffers), NEW r \in Seq(Buffers), r # <<>>
    PROVE  /\ Len(r) \in 1..Len(q \o r)
           /\ r = SubSeq(q \o r, Len(q \o r) - Len(r) + 1, Len(q \o r))
<1>1. /\ Len(q) \in Nat /\ Len(r) \in Nat /\ Len(r) # 0
  BY LenProperties, EmptySeq
<1> DEFINE s == q \o r
<1>2. /\ s \in Seq(Buffers) /\ Len(s) = Len(q) + Len(r)
      /\ \A i \in 1..(Len(q) + Len(r)) : s[i] = IF i <= Len(q) THEN q[i] ELSE r[i - Len(q)]
  BY ConcatProperties
<1> HIDE DEF s
<1>3. Len(s) - Len(r) + 1 = Len(q) + 1
  BY <1>1, <1>2
<1> DEFINE e == SubSeq(s, Len(q) + 1, Len(q) + Len(r))
<1>4. \A i \in (Len(q) + 1)..(Len(q) + Len(r)) : i \in 1..Len(s) /\ s[i] \in Buffers
  BY <1>1, <1>2, ElementOfSeq
<1>5. /\ e \in Seq(Buffers) /\ Len(e) = Len(r)
      /\ \A i \in 1..Len(r) : e[i] = s[Len(q) + i]
  <2>1. /\ e \in Seq(Buffers)
        /\ Len(e) = IF Len(q) + 1 <= Len(q) + Len(r) THEN (Len(q) + Len(r)) - (Len(q) + 1) + 1 ELSE 0
        /\ \A i \in 1..((Len(q) + Len(r)) - (Len(q) + 1) + 1) : e[i] = s[(Len(q) + 1) + i - 1]
    BY <1>1, <1>2, <1>4, SubSeqProperties
  <2>2. Len(e) = Len(r)
    BY <1>1, <2>1
  <2>3. ASSUME NEW i \in 1..Len(r)
        PROVE  e[i] = s[Len(q) + i]
    <3>1. i \in 1..((Len(q) + Len(r)) - (Len(q) + 1) + 1) /\ (Len(q) + 1) + i - 1 = Len(q) + i
      BY <1>1
    <3>. QED
      BY <2>1, <3>1
  <2>. QED
    BY <2>1, <2>2, <2>3
<1> HIDE DEF e
<1>6. \A i \in 1..Len(r) : e[i] = r[i]
  <2>1. ASSUME NEW i \in 1..Len(r)
        PROVE  s[Len(q) + i] = r[i]
    <3>1. Len(q) + i \in 1..(Len(q) + Len(r)) /\ ~(Len(q) + i <= Len(q)) /\ (Len(q) + i) - Len(q) = i
      BY <1>1
    <3>. QED
      BY <1>2, <3>1
  <2>. QED
    BY <1>5, <2>1
<1>7. e = r
  BY <1>5, <1>6, SeqEqual
<1>. QED
  BY <1>1, <1>2, <1>3, <1>7 DEF e, s

-----------------------------------------------------------------------------
\* A step of a send.
SendStep(t, place, next) ==
    /\ place \in {"enqueue", "registerSend", "drain", "post", "sendFailed", "unregister", "processSend", "unlock"}
    /\ next \in {<<>>, <<"registerSend">>, <<"drain">>, <<"post">>, <<"sendFailed", "unregister">>,
                  <<"disconnect", "sendFailed", "unregister">>, <<"registerSend", "unlock">>}
    /\ At(t, place) /\ GoTo(t, next)
    /\ next # <<>> => place \notin {"sendFailed", "unregister", "unlock"}
    /\ next = <<"registerSend", "unlock">> => place = "processSend"
    /\ UNCHANGED <<connected, inService, entered>>
    /\ \A e \in Events \ {"send"} : owner'[e] = owner[e] /\ pending'[e] = pending[e]

\* What it does to the stack, and that the receive loop, the disconnection and
\* the beginning are none of its business.
LEMMA SendMoves ==
    ASSUME Inv, NEW t \in Threads, NEW place, NEW next, SendStep(t, place, next)
    PROVE  /\ stack' \in [Threads -> Seq(Places)] /\ Stacks' /\ Ends'
           /\ \A u \in Threads \ {t} : stack'[u] = stack[u]
           /\ \A S : On(stack[t], S) <=> place \in S \/ On(Tail(stack[t]), S)
           /\ \A S : On(stack'[t], S) <=> On(next, S) \/ On(Tail(stack[t]), S)
           /\ \A S : On(Tail(stack[t]), S) => \E p \in S : p \in Below(place)
           /\ place = "sendFailed" => On(Tail(stack[t]), {"unregister"})
           /\ OneRecv' /\ Early' /\ OneDisconnect'
<1> USE DEF Inv, SendStep
<1>1. /\ Shape(next)
      /\ \A S : On(next, S) => \E p \in S : p \in {"registerSend", "drain", "post", "sendFailed", "unregister",
                                                   "disconnect", "unlock"}
      /\ \A p \in Places : On(next, {p}) => Below(place) \subseteq Below(p)
  <2>0. /\ place \notin {"sendFailed", "processSend"} => Below(place) \subseteq {"handle", "unlock"}
        /\ place = "processSend" => Below(place) = {}
        /\ \A p \in {"registerSend", "drain", "post", "sendFailed", "unregister", "disconnect"} :
              {"handle", "unlock"} \subseteq Below(p)
    BY DEF Below
  <2>1. CASE next = <<>>
    BY <2>1, ShapeLiterals, OnLiterals
  <2>2. ASSUME NEW p \in {"registerSend", "drain", "post"}, next = <<p>>
        PROVE  /\ Shape(next) /\ next # <<>> /\ \A S : On(next, S) <=> p \in S
               /\ Below(place) \subseteq Below(p)
    <3>1. Shape(next) /\ next # <<>> /\ \A S : On(next, S) <=> p \in S
      BY <2>2, ShapeLiterals, OnLiterals DEF Places
    <3>2. Below(place) \subseteq Below(p)
      BY <2>0, <3>1
    <3>. QED
      BY <3>1, <3>2
  <2>3. CASE next = <<"sendFailed", "unregister">>
    <3>1. Shape(next) /\ next # <<>> /\ \A S : On(next, S) <=> "sendFailed" \in S \/ "unregister" \in S
      BY <2>3, ShapeLiterals, OnLiterals
    <3>. QED
      BY <2>0, <3>1
  <2>4. CASE next = <<"disconnect", "sendFailed", "unregister">>
    <3>1. /\ Shape(next) /\ next # <<>>
          /\ \A S : On(next, S) <=> "disconnect" \in S \/ "sendFailed" \in S \/ "unregister" \in S
      BY <2>4, ShapeLiterals, OnLiterals
    <3>. QED
      BY <2>0, <3>1
  <2>5. CASE next = <<"registerSend", "unlock">>
    <3>1. Shape(next) /\ \A S : On(next, S) <=> "registerSend" \in S \/ "unlock" \in S
      BY <2>5, ShapeLiterals, OnLiterals
    <3>. QED
      BY <2>0, <2>5, <3>1
  <2>6. CASE next \in {<<"registerSend">>, <<"drain">>, <<"post">>}
    BY <2>2, <2>6
  <2>. QED
    BY <2>1, <2>3, <2>4, <2>5, <2>6
<1>2. /\ stack' \in [Threads -> Seq(Places)] /\ Stacks'
      /\ \A u \in Threads \ {t} : stack'[u] = stack[u]
      /\ \A S : On(stack[t], S) <=> place \in S \/ On(Tail(stack[t]), S)
      /\ \A S : On(stack'[t], S) <=> On(next, S) \/ On(Tail(stack[t]), S)
      /\ \A S : On(Tail(stack[t]), S) => \E p \in S : p \in Below(place)
      /\ place = "sendFailed" => On(Tail(stack[t]), {"unregister"})
  <2>1. /\ TypeOK /\ Stacks /\ t \in Threads /\ At(t, place) /\ Shape(next) /\ GoTo(t, next)
        /\ \A p \in Places : On(next, {p}) => Below(place) \subseteq Below(p)
    BY <1>1
  <2>. QED
    BY ONLY <2>1, Moves
<1>3. /\ \A e \in {"connect", "recv", "disconnect"} : owner'[e] = owner[e] /\ pending'[e] = pending[e]
  BY DEF Events
<1>4. Ends'
  BY <1>3 DEF Ends
<1>5. OneRecv'
  <2>1. On(stack'[t], RecvPlaces) => On(stack[t], RecvPlaces)
    BY <1>1, <1>2 DEF RecvPlaces
  <2>2. On(stack'[t], {"postRecv"}) => On(stack[t], {"postRecv"})
    BY <1>1, <1>2
  <2>. QED
    BY <1>2, <1>3, <2>1, <2>2, RecvKept
<1>6. Early'
  <2>1. pending["connect"] = "none" /\ \A u \in Threads : ~On(stack[u], {"connect", "addSession"})
    BY BeginningIsOver
  <2>2. ~On(stack'[t], {"connect", "addSession"})
    BY <1>1, <1>2, <2>1
  <2>. QED
    BY <1>2, <1>3, <2>1, <2>2, NeverEarlyAgain
<1>7. OneDisconnect'
  <2>1. On(stack'[t], DisconnectPlaces) => On(stack[t], DisconnectPlaces)
    BY <1>1, <1>2 DEF DisconnectPlaces
  <2>2. ~On(stack[t], {"addSession"})
    BY BeginningIsOver, OnLiterals DEF On
  <2>. QED
    BY <1>2, <1>3, <2>1, <2>2, DisconnectKept
<1>. QED
  BY <1>2, <1>4, <1>5, <1>6, <1>7

\* A thread that is where the send is has it for itself.
LEMMA HoldsTheSend ==
    ASSUME Inv, NEW t \in Threads, On(stack[t], SendPlaces)
    PROVE  /\ pending["send"] = "none" /\ sendRegistered
           /\ \A u \in Threads \ {t} : \A S \in SUBSET (SendPlaces \cup {"sendFailed"}) : ~On(stack[u], S)
<1>1. pending["send"] = "none" /\ sendRegistered /\ \A u \in Threads \ {t} : ~On(stack[u], SendPlaces)
  BY DEF Inv, OneSend
<1>2. ASSUME NEW u \in Threads \ {t}, NEW S \in SUBSET (SendPlaces \cup {"sendFailed"}), On(stack[u], S)
      PROVE  FALSE
  <2>1. On(stack[u], {"sendFailed"}) => On(stack[u], {"unregister"})
    BY DEF Inv, Stacks, Shape
  <2>2. On(stack[u], {"unregister"}) => On(stack[u], SendPlaces)
    BY DEF On, SendPlaces
  <2>3. PICK i \in DOMAIN stack[u] : stack[u][i] \in S
    BY <1>2 DEF On
  <2>4. stack[u][i] \in SendPlaces \/ stack[u][i] = "sendFailed"
    BY <2>3
  <2>5. On(stack[u], SendPlaces) \/ On(stack[u], {"sendFailed"})
    BY <2>4 DEF On
  <2>. QED
    BY <1>1, <2>1, <2>2, <2>5
<1>. QED
  BY <1>1, <1>2

\* Send begins.
LEMMA SendKeeps ==
    ASSUME Inv, NEW t \in Threads, Send(t)
    PROVE  Inv'
<1> USE DEF Inv
<1>1. PICK b \in Buffers \ Used : sending' = [sending EXCEPT ![t] = {b}]
  BY DEF Send
<1>2. /\ entered /\ connected /\ (stack[t] = <<>> \/ At(t, "handle")) /\ Call(t, <<"enqueue">>)
      /\ UNCHANGED <<connected, lock, sendQueue, sendRegistered, sendBuffers, wire, owner, pending,
                     inService, inManager, entered>>
  BY DEF Send, sendVars, ioVars, memberVars
<1> DEFINE places == <<"enqueue">>
<1>3. Shape(places) /\ \A S : On(places, S) <=> "enqueue" \in S
  BY ShapeLiterals, OnLiterals DEF Places
<1>4. TypeOK /\ Stacks /\ t \in Threads /\ Call(t, places)
  BY <1>2
<1> HIDE DEF places
<1>5. /\ stack' \in [Threads -> Seq(Places)] /\ Stacks'
      /\ \A u \in Threads \ {t} : stack'[u] = stack[u]
      /\ \A S : On(stack'[t], S) <=> "enqueue" \in S \/ On(stack[t], S)
  <2>1. \A p \in Places : On(places, {p}) /\ stack[t] # <<>> => "handle" \in Below(p)
    BY <1>3 DEF Below
  <2>. QED
    BY ONLY <1>2, <1>3, <1>4, <2>1, Calls
<1>6. sending' \in [Threads -> SUBSET Buffers] /\ sending'[t] = {b} /\ \A u \in Threads \ {t} : sending'[u] = sending[u]
  BY <1>1 DEF TypeOK
<1>7. TypeOK' /\ Ends'
  BY <1>2, <1>5, <1>6 DEF TypeOK, Ends
<1>8. OneSend' /\ SendHasBuffers'
  <2>1. \A S \in SUBSET (SendPlaces \cup {"sendFailed"}) : On(stack'[t], S) <=> On(stack[t], S)
    BY <1>5 DEF SendPlaces
  <2>. QED
    BY <1>2, <1>5, <2>1, SendKept
<1>9. InOnePlace'
  <2>1. /\ b \notin InSeq(wire) /\ b \notin InSeq(sendQueue) /\ b \notin InSeq(sendBuffers)
        /\ \A u \in Threads : b \notin sending[u]
    BY DEF Used, Sent
  <2>2. /\ InSeq(wire)' = InSeq(wire) /\ InSeq(sendQueue)' = InSeq(sendQueue) /\ InSeq(sendBuffers)' = InSeq(sendBuffers)
        /\ pending'["send"] = pending["send"]
    BY <1>2
  <2>. QED
    BY <1>6, <2>1, <2>2 DEF InOnePlace
<1>10. OneRecv'
  <2>1. /\ On(stack'[t], RecvPlaces) => On(stack[t], RecvPlaces)
        /\ On(stack'[t], {"postRecv"}) => On(stack[t], {"postRecv"})
    BY <1>5 DEF RecvPlaces
  <2>. QED
    BY <1>2, <1>5, <2>1, RecvKept
<1>11. OneDisconnect'
  <2>1. /\ On(stack'[t], DisconnectPlaces) => On(stack[t], DisconnectPlaces)
        /\ On(stack[t], {"addSession"}) => On(stack'[t], {"addSession"})
    BY <1>5 DEF DisconnectPlaces
  <2>. QED
    BY <1>2, <1>5, <2>1, DisconnectKept
<1>12. Early'
  <2>1. pending["connect"] = "none" /\ \A u \in Threads : ~On(stack[u], {"connect", "addSession"})
    BY <1>2 DEF Early
  <2>2. ~On(stack'[t], {"connect", "addSession"})
    BY <1>5, <2>1
  <2>. QED
    BY <1>2, <1>5, <2>1, <2>2, NeverEarlyAgain
<1>. QED
  BY <1>5, <1>7, <1>8, <1>9, <1>10, <1>11, <1>12

\* Send, under the lock.
LEMMA EnqueueKeeps ==
    ASSUME Inv, NEW t \in Threads, Enqueue(t)
    PROVE  Inv'
<1> USE DEF Inv
<1>1. PICK b \in sending[t] : sendQueue' = Append(sendQueue, b)
  BY DEF Enqueue
<1> DEFINE next == IF sendRegistered THEN <<>> ELSE <<"registerSend">>
<1>2. /\ At(t, "enqueue") /\ GoTo(t, next) /\ sendRegistered' = TRUE
      /\ sending' = [sending EXCEPT ![t] = {}]
      /\ UNCHANGED <<connected, sendBuffers, lock, wire, owner, pending, inService, inManager, entered>>
  BY DEF Enqueue, MustRegister, ioVars, memberVars
<1>3. /\ next \in {<<>>, <<"registerSend">>}
      /\ \A S : On(next, S) <=> ~sendRegistered /\ "registerSend" \in S
  BY OnLiterals
<1> HIDE DEF next
<1>4. /\ stack' \in [Threads -> Seq(Places)] /\ Stacks' /\ Ends'
      /\ \A u \in Threads \ {t} : stack'[u] = stack[u]
      /\ \A S : On(stack[t], S) <=> "enqueue" \in S \/ On(Tail(stack[t]), S)
      /\ \A S : On(stack'[t], S) <=> On(next, S) \/ On(Tail(stack[t]), S)
      /\ \A S : On(Tail(stack[t]), S) => \E p \in S : p \in Below("enqueue")
      /\ OneRecv' /\ Early' /\ OneDisconnect'
  <2>1. SendStep(t, "enqueue", next)
    BY <1>2, <1>3 DEF SendStep
  <2>. QED
    BY <2>1, SendMoves
<1>5. \A S \in SUBSET (SendPlaces \cup {"sendFailed"}) :
         ~On(stack[t], S) /\ (On(stack'[t], S) <=> ~sendRegistered /\ "registerSend" \in S)
  <2>1. \A S \in SUBSET (SendPlaces \cup {"sendFailed"}) : ~On(Tail(stack[t]), S) /\ "enqueue" \notin S
    BY <1>4 DEF Below, SendPlaces
  <2>. QED
    BY <1>3, <1>4, <2>1
<1>6. /\ b \in Buffers /\ sendQueue \in Queues /\ b \notin InSeq(sendQueue)
      /\ b \notin InSeq(wire) /\ b \notin InSeq(sendBuffers)
      /\ \A u \in Threads \ {t} : b \notin sending[u]
  BY DEF TypeOK, InOnePlace
<1>7. sendQueue' \in Queues /\ sendQueue' # <<>> /\ InSeq(sendQueue') = InSeq(sendQueue) \cup {b}
  BY <1>1, <1>6, AppendQueue
<1>8. sending' \in [Threads -> SUBSET Buffers] /\ sending'[t] = {} /\ \A u \in Threads \ {t} : sending'[u] = sending[u]
  BY <1>2 DEF TypeOK
<1>9. TypeOK'
  BY <1>2, <1>4, <1>7, <1>8 DEF TypeOK
<1>10. OneSend'
  <2>1. ~sendRegistered => /\ \A u \in Threads : ~On(stack[u], SendPlaces)
                           /\ pending["send"] = "none"
    BY DEF OneSend
  <2>2. ~On(stack'[t], {"drain", "post"})
    BY <1>5 DEF SendPlaces
  <2>3. On(stack'[t], SendPlaces) => ~sendRegistered
    BY <1>5
  <2>. QED
    BY <1>2, <1>4, <2>1, <2>2, <2>3 DEF OneSend
<1>11. SendHasBuffers'
  <2>1. \A u \in Threads : On(stack[u], {"post", "sendFailed"}) => On(stack'[u], {"post", "sendFailed"})
    BY <1>4, <1>5 DEF SendPlaces
  <2>2. ~On(stack'[t], {"post"})
    BY <1>5 DEF SendPlaces
  <2>. QED
    BY <1>2, <1>4, <1>7, <2>1, <2>2 DEF SendHasBuffers
<1>12. InOnePlace'
  <2>1. InSeq(wire)' = InSeq(wire) /\ InSeq(sendQueue)' = InSeq(sendQueue') /\ InSeq(sendBuffers)' = InSeq(sendBuffers)
        /\ pending'["send"] = pending["send"]
    BY <1>2 DEF InSeq
  <2>. QED
    BY <1>6, <1>7, <1>8, <2>1 DEF InOnePlace
<1>. QED
  BY <1>4, <1>9, <1>10, <1>11, <1>12

\* A step of a thread that has the send, which nobody else has then.
LEMMA SendMovesAlone ==
    ASSUME Inv, NEW t \in Threads, NEW place, NEW next, SendStep(t, place, next),
           place \in SendPlaces \cup {"sendFailed"}
    PROVE  /\ stack' \in [Threads -> Seq(Places)] /\ Stacks' /\ Ends'
           /\ OneRecv' /\ Early' /\ OneDisconnect'
           /\ pending["send"] = "none" /\ sendRegistered
           /\ \A u \in Threads \ {t} : stack'[u] = stack[u]
           /\ \A S \in SUBSET (SendPlaces \cup {"sendFailed"}) :
                 /\ \A u \in Threads \ {t} : ~On(stack'[u], S)
                 /\ On(stack[t], S) <=> place \in S \/ (place = "sendFailed" /\ "unregister" \in S)
                 /\ On(stack'[t], S) <=> On(next, S) \/ (place = "sendFailed" /\ "unregister" \in S)
           /\ (\E u \in Threads : On(stack[u], {"post", "sendFailed"})) => place \in {"post", "sendFailed"}
<1>1. /\ stack' \in [Threads -> Seq(Places)] /\ Stacks' /\ Ends'
      /\ \A u \in Threads \ {t} : stack'[u] = stack[u]
      /\ \A S : On(stack[t], S) <=> place \in S \/ On(Tail(stack[t]), S)
      /\ \A S : On(stack'[t], S) <=> On(next, S) \/ On(Tail(stack[t]), S)
      /\ \A S : On(Tail(stack[t]), S) => \E p \in S : p \in Below(place)
      /\ place = "sendFailed" => On(Tail(stack[t]), {"unregister"})
      /\ OneRecv' /\ Early' /\ OneDisconnect'
  BY SendMoves
<1>2. \A S \in SUBSET (SendPlaces \cup {"sendFailed"}) :
         On(Tail(stack[t]), S) <=> place = "sendFailed" /\ "unregister" \in S
  <2>1. ASSUME NEW S \in SUBSET (SendPlaces \cup {"sendFailed"}), On(Tail(stack[t]), S)
        PROVE  place = "sendFailed" /\ "unregister" \in S
    <3>1. PICK p \in S : p \in Below(place)
      BY <1>1, <2>1
    <3>. QED
      BY <3>1 DEF Below, SendPlaces
  <2>2. ASSUME NEW S \in SUBSET (SendPlaces \cup {"sendFailed"}), place = "sendFailed", "unregister" \in S
        PROVE  On(Tail(stack[t]), S)
    BY <1>1, <2>2 DEF On
  <2>. QED
    BY <2>1, <2>2
<1>3. On(stack[t], SendPlaces)
  <2>1. SendPlaces \in SUBSET (SendPlaces \cup {"sendFailed"}) /\ "unregister" \in SendPlaces
    BY DEF SendPlaces
  <2>2. place \in SendPlaces \/ (place = "sendFailed" /\ "unregister" \in SendPlaces)
    BY <2>1
  <2>. QED
    BY <1>1, <1>2, <2>1, <2>2
<1>4. /\ pending["send"] = "none" /\ sendRegistered
      /\ \A u \in Threads \ {t} : \A S \in SUBSET (SendPlaces \cup {"sendFailed"}) : ~On(stack[u], S)
  BY <1>3, HoldsTheSend
<1>5. (\E u \in Threads : On(stack[u], {"post", "sendFailed"})) => place \in {"post", "sendFailed"}
  <2>1. {"post", "sendFailed"} \in SUBSET (SendPlaces \cup {"sendFailed"})
    BY DEF SendPlaces
  <2>. QED
    BY <1>1, <1>2, <1>4, <2>1
<1>. QED
  BY <1>1, <1>2, <1>4, <1>5

\* The sets of places that the invariant speaks of.
LEMMA SendSets ==
    /\ SendPlaces \in SUBSET (SendPlaces \cup {"sendFailed"})
    /\ {"drain", "post"} \in SUBSET (SendPlaces \cup {"sendFailed"})
    /\ {"registerSend", "drain"} \in SUBSET (SendPlaces \cup {"sendFailed"})
    /\ {"post"} \in SUBSET (SendPlaces \cup {"sendFailed"})
    /\ {"post", "sendFailed"} \in SUBSET (SendPlaces \cup {"sendFailed"})
    /\ \A p \in {"registerSend", "drain", "post", "unregister", "processSend"} : p \in SendPlaces
    /\ "sendFailed" \notin SendPlaces /\ "unlock" \notin SendPlaces /\ "disconnect" \notin SendPlaces
  BY DEF SendPlaces

\* RegisterSend begins.
LEMMA RegisterSendKeeps ==
    ASSUME Inv, NEW t \in Threads, RegisterSend(t)
    PROVE  Inv'
<1> USE DEF Inv
<1> DEFINE next == IF connected THEN <<"drain">> ELSE <<>>
<1>1. /\ At(t, "registerSend") /\ GoTo(t, next)
      /\ UNCHANGED <<connected, pending, lock, sending, sendQueue, sendRegistered, sendBuffers, wire,
                     inService, inManager, entered>>
      /\ \/ connected /\ owner' = [owner EXCEPT !["send"] = TRUE]
         \/ ~connected /\ owner' = owner
  BY DEF RegisterSend, sendVars, memberVars
<1>2. /\ next \in {<<>>, <<"drain">>} /\ next # <<"registerSend", "unlock">>
      /\ \A S : On(next, S) <=> connected /\ "drain" \in S
  <2>1. CASE connected
    BY <2>1, OnLiterals
  <2>2. CASE ~connected
    BY <2>2, OnLiterals
  <2>. QED
    BY <2>1, <2>2
<1> HIDE DEF next
<1>3. owner \in [Events -> BOOLEAN]
  BY DEF TypeOK
<1>4. /\ owner' \in [Events -> BOOLEAN] /\ \A e \in Events \ {"send"} : owner'[e] = owner[e]
      /\ connected => owner'["send"]
  BY <1>1, <1>3 DEF Events
<1>5. SendStep(t, "registerSend", next)
  BY <1>1, <1>2, <1>4 DEF SendStep
<1>6. /\ stack' \in [Threads -> Seq(Places)] /\ Stacks' /\ Ends'
      /\ OneRecv' /\ Early' /\ OneDisconnect'
      /\ pending["send"] = "none" /\ sendRegistered
      /\ \A S \in SUBSET (SendPlaces \cup {"sendFailed"}) :
            /\ \A u \in Threads \ {t} : ~On(stack'[u], S)
            /\ On(stack[t], S) <=> "registerSend" \in S
            /\ On(stack'[t], S) <=> connected /\ "drain" \in S
      /\ ~\E u \in Threads : On(stack[u], {"post", "sendFailed"})
  BY <1>2, <1>5, SendMovesAlone, SendSets
<1>7. TypeOK'
  BY <1>1, <1>4, <1>6 DEF TypeOK
<1>8. OneSend'
  BY <1>1, <1>4, <1>6, SendSets DEF OneSend
<1>9. SendHasBuffers'
  <2>1. sendQueue # <<>> /\ sendBuffers = <<>>
    BY <1>6, SendSets DEF SendHasBuffers
  <2>2. \A u \in Threads : ~On(stack'[u], {"post"})
    BY <1>6, SendSets
  <2>. QED
    BY <1>1, <1>6, <2>1, <2>2 DEF SendHasBuffers
<1>10. InOnePlace'
  BY <1>1 DEF InOnePlace, InSeq
<1>. QED
  BY <1>6, <1>7, <1>8, <1>9, <1>10

\* RegisterSend, under the lock.
LEMMA DrainKeeps ==
    ASSUME Inv, NEW t \in Threads, Drain(t)
    PROVE  Inv'
<1> USE DEF Inv
<1>1. /\ At(t, "drain") /\ GoTo(t, <<"post">>)
      /\ sendBuffers' = sendBuffers \o sendQueue /\ sendQueue' = <<>>
      /\ UNCHANGED <<connected, sendRegistered, lock, sending, wire, owner, pending,
                     inService, inManager, entered>>
  BY DEF Drain, ioVars, memberVars
<1>2. SendStep(t, "drain", <<"post">>)
  <2>1. <<"post">> # <<"registerSend", "unlock">>
    OBVIOUS
  <2>. QED
    BY <1>1, <2>1 DEF SendStep
<1>3. \A S : On(<<"post">>, S) <=> "post" \in S
  BY OnLiterals
<1>4. /\ stack' \in [Threads -> Seq(Places)] /\ Stacks' /\ Ends'
      /\ OneRecv' /\ Early' /\ OneDisconnect'
      /\ pending["send"] = "none" /\ sendRegistered
      /\ \A S \in SUBSET (SendPlaces \cup {"sendFailed"}) :
            /\ \A u \in Threads \ {t} : ~On(stack'[u], S)
            /\ On(stack[t], S) <=> "drain" \in S
            /\ On(stack'[t], S) <=> "post" \in S
      /\ ~\E u \in Threads : On(stack[u], {"post", "sendFailed"})
  BY <1>2, <1>3, SendMovesAlone, SendSets
<1>5. sendQueue # <<>> /\ sendBuffers = <<>> /\ owner["send"]
  BY <1>4, SendSets DEF SendHasBuffers, OneSend
<1>6. sendBuffers' = sendQueue
  <2>1. sendQueue \in Seq(Buffers)
    BY DEF TypeOK, Queues
  <2>. QED
    BY <1>1, <1>5, <2>1, ConcatEmptySeq
<1>7. TypeOK'
  BY <1>1, <1>4, <1>6, EmptyQueue DEF TypeOK
<1>8. OneSend'
  BY <1>1, <1>4, <1>5, SendSets DEF OneSend
<1>9. SendHasBuffers'
  <2>1. \A u \in Threads : ~On(stack'[u], {"registerSend", "drain"})
    BY <1>4, SendSets
  <2>2. On(stack'[t], {"post", "sendFailed"})
    BY <1>4, SendSets
  <2>. QED
    BY <1>1, <1>4, <1>5, <1>6, <2>1, <2>2 DEF SendHasBuffers
<1>10. InOnePlace'
  <2>1. /\ InSeq(sendBuffers)' = InSeq(sendQueue) /\ InSeq(sendQueue)' = {} /\ InSeq(wire)' = InSeq(wire)
        /\ UNCHANGED sending
    BY <1>1, <1>6, EmptyQueue DEF InSeq
  <2>. QED
    BY <2>1 DEF InOnePlace
<1>. QED
  BY <1>4, <1>7, <1>8, <1>9, <1>10

\* WSASend.
LEMMA PostSendKeeps ==
    ASSUME Inv, NEW t \in Threads, PostSend(t)
    PROVE  Inv'
<1> USE DEF Inv
<1>1. /\ At(t, "post")
      /\ UNCHANGED <<connected, sendQueue, sendRegistered, sendBuffers, owner, lock, sending,
                     inService, inManager, entered>>
  BY DEF PostSend, memberVars
<1>2. /\ pending \in [Events -> {"none", "pending", "bytes", "zero"}]
      /\ sendBuffers \in Queues /\ wire \in Queues /\ sendBuffers \in Seq(Buffers) /\ wire \in Seq(Buffers)
  BY DEF TypeOK, Queues
<1>3. ASSUME NEW next, SendStep(t, "post", next)
      PROVE  /\ stack' \in [Threads -> Seq(Places)] /\ Stacks' /\ Ends'
             /\ OneRecv' /\ Early' /\ OneDisconnect'
             /\ pending["send"] = "none" /\ sendRegistered /\ sendBuffers # <<>> /\ owner["send"]
             /\ \A S \in SUBSET (SendPlaces \cup {"sendFailed"}) :
                   /\ \A u \in Threads \ {t} : ~On(stack'[u], S)
                   /\ On(stack'[t], S) <=> On(next, S)
  <2>1. /\ stack' \in [Threads -> Seq(Places)] /\ Stacks' /\ Ends'
        /\ OneRecv' /\ Early' /\ OneDisconnect'
        /\ pending["send"] = "none" /\ sendRegistered
        /\ \A S \in SUBSET (SendPlaces \cup {"sendFailed"}) :
              /\ \A u \in Threads \ {t} : ~On(stack'[u], S)
              /\ On(stack[t], S) <=> "post" \in S
              /\ On(stack'[t], S) <=> On(next, S)
    BY <1>3, SendMovesAlone, SendSets
  <2>. QED
    BY <2>1, SendSets DEF SendHasBuffers, OneSend
<1>4. CASE pending' = [pending EXCEPT !["send"] = "pending"] /\ wire' = wire \o sendBuffers /\ GoTo(t, <<>>)
  <2>1. /\ pending' \in [Events -> {"none", "pending", "bytes", "zero"}] /\ pending'["send"] = "pending"
        /\ \A e \in Events \ {"send"} : pending'[e] = pending[e]
    BY <1>2, <1>4 DEF Events
  <2>2. SendStep(t, "post", <<>>)
    BY <1>1, <1>4, <2>1 DEF SendStep
  <2>3. /\ stack' \in [Threads -> Seq(Places)] /\ Stacks' /\ Ends'
        /\ OneRecv' /\ Early' /\ OneDisconnect'
        /\ pending["send"] = "none" /\ sendRegistered /\ sendBuffers # <<>> /\ owner["send"]
        /\ \A S \in SUBSET (SendPlaces \cup {"sendFailed"}) : \A u \in Threads : ~On(stack'[u], S)
    BY <1>3, <2>2, OnLiterals
  <2>4. InSeq(sendBuffers) \cap InSeq(wire) = {}
    BY <2>3 DEF InOnePlace
  <2>5. wire' \in Queues /\ InSeq(wire') = InSeq(wire) \cup InSeq(sendBuffers)
    BY <1>2, <1>4, <2>4, ConcatQueue
  <2>6. /\ Len(sendBuffers) \in 1..Len(wire')
        /\ sendBuffers = SubSeq(wire', Len(wire') - Len(sendBuffers) + 1, Len(wire'))
    BY <1>2, <1>4, <2>3, EndOfConcat
  <2>7. TypeOK'
    BY <1>1, <2>1, <2>3, <2>5 DEF TypeOK
  <2>8. OneSend'
    BY <1>1, <2>3, SendSets DEF OneSend
  <2>9. SendHasBuffers'
    BY <1>1, <2>1, <2>3, <2>6, SendSets DEF SendHasBuffers
  <2>10. InOnePlace'
    <3>1. /\ InSeq(sendBuffers)' = InSeq(sendBuffers) /\ InSeq(sendQueue)' = InSeq(sendQueue)
          /\ InSeq(wire)' = InSeq(wire) \cup InSeq(sendBuffers)
      BY <1>1, <2>5 DEF InSeq
    <3>. QED
      BY <1>1, <2>1, <3>1 DEF InOnePlace
  <2>. QED
    BY <2>3, <2>7, <2>8, <2>9, <2>10
<1>5. ASSUME UNCHANGED <<pending, wire>>,
             NEW next \in {<<"sendFailed", "unregister">>, <<"disconnect", "sendFailed", "unregister">>}, GoTo(t, next)
      PROVE  Inv'
  <2>1. next # <<"registerSend", "unlock">>
    OBVIOUS
  <2>2. SendStep(t, "post", next)
    BY <1>1, <1>5, <2>1 DEF SendStep
  <2>3. \A S : /\ "sendFailed" \in S => On(next, S)
               /\ "disconnect" \notin S => (On(next, S) <=> "sendFailed" \in S \/ "unregister" \in S)
    <3>1. CASE next = <<"sendFailed", "unregister">>
      BY <3>1, OnLiterals
    <3>2. CASE next = <<"disconnect", "sendFailed", "unregister">>
      BY <3>2, OnLiterals
    <3>. QED
      BY <1>5, <3>1, <3>2
  <2>4. /\ stack' \in [Threads -> Seq(Places)] /\ Stacks' /\ Ends'
        /\ OneRecv' /\ Early' /\ OneDisconnect'
        /\ pending["send"] = "none" /\ sendRegistered /\ sendBuffers # <<>> /\ owner["send"]
        /\ \A S \in SUBSET (SendPlaces \cup {"sendFailed"}) :
              /\ \A u \in Threads \ {t} : ~On(stack'[u], S)
              /\ On(stack'[t], S) <=> "sendFailed" \in S \/ "unregister" \in S
    <3>1. \A S \in SUBSET (SendPlaces \cup {"sendFailed"}) : "disconnect" \notin S
      BY DEF SendPlaces
    <3>. QED
      BY <1>3, <2>2, <2>3, <3>1
  <2>5. TypeOK'
    BY <1>1, <1>5, <2>4 DEF TypeOK
  <2>6. OneSend'
    BY <1>1, <1>5, <2>4, SendSets DEF OneSend
  <2>7. SendHasBuffers'
    <3>1. \A u \in Threads : ~On(stack'[u], {"registerSend", "drain"}) /\ ~On(stack'[u], {"post"})
      BY <2>4, SendSets
    <3>2. On(stack'[t], {"post", "sendFailed"})
      BY <2>4, SendSets
    <3>. QED
      BY <1>1, <1>5, <2>4, <3>1, <3>2 DEF SendHasBuffers
  <2>8. InOnePlace'
    BY <1>1, <1>5 DEF InOnePlace, InSeq
  <2>. QED
    BY <2>4, <2>5, <2>6, <2>7, <2>8
<1>6. CASE /\ \E error \in PossibleErrors : GoTo(t, HandleError(error) \o UndoSend)
           /\ UNCHANGED <<pending, wire>>
  <2>1. \/ GoTo(t, <<"disconnect">> \o <<"sendFailed", "unregister">>)
        \/ GoTo(t, <<>> \o <<"sendFailed", "unregister">>)
    BY <1>6 DEF HandleError, UndoSend
  <2>2. /\ "disconnect" \in Places /\ "sendFailed" \in Places /\ "unregister" \in Places
        /\ <<"sendFailed", "unregister">> \in Seq(Places)
    BY DEF Places
  <2>3. <<"disconnect">> \o <<"sendFailed", "unregister">> = <<"disconnect", "sendFailed", "unregister">>
    BY <2>2, Concats
  <2>4. <<>> \o <<"sendFailed", "unregister">> = <<"sendFailed", "unregister">>
    BY <2>2, Concats
  <2>5. GoTo(t, <<"disconnect", "sendFailed", "unregister">>) \/ GoTo(t, <<"sendFailed", "unregister">>)
    BY <2>1, <2>3, <2>4
  <2>. QED
    BY <1>5, <1>6, <2>5
<1>. QED
  BY <1>4, <1>6 DEF PostSend

\* What RegisterSend does when WSASend has failed.
LEMMA SendFailedKeeps ==
    ASSUME Inv, NEW t \in Threads, SendFailed(t) \/ Unregister(t)
    PROVE  Inv'
<1> USE DEF Inv
<1>1. CASE SendFailed(t)
  <2>1. /\ At(t, "sendFailed") /\ GoTo(t, <<>>) /\ owner' = [owner EXCEPT !["send"] = FALSE] /\ sendBuffers' = <<>>
        /\ UNCHANGED <<connected, sendQueue, sendRegistered, pending, lock, sending, wire,
                       inService, inManager, entered>>
    BY <1>1 DEF SendFailed, memberVars
  <2>2. owner \in [Events -> BOOLEAN]
    BY DEF TypeOK
  <2>3. owner' \in [Events -> BOOLEAN] /\ \A e \in Events \ {"send"} : owner'[e] = owner[e]
    BY <2>1, <2>2 DEF Events
  <2>4. SendStep(t, "sendFailed", <<>>)
    BY <2>1, <2>3 DEF SendStep
  <2>5. /\ stack' \in [Threads -> Seq(Places)] /\ Stacks' /\ Ends'
        /\ OneRecv' /\ Early' /\ OneDisconnect'
        /\ pending["send"] = "none" /\ sendRegistered
        /\ \A S \in SUBSET (SendPlaces \cup {"sendFailed"}) :
              /\ \A u \in Threads \ {t} : ~On(stack'[u], S)
              /\ On(stack'[t], S) <=> "unregister" \in S
    BY <2>4, SendMovesAlone, OnLiterals
  <2>6. TypeOK'
    BY <2>1, <2>3, <2>5, EmptyQueue DEF TypeOK
  <2>7. \A u \in Threads : /\ ~On(stack'[u], {"registerSend", "drain"}) /\ ~On(stack'[u], {"post"})
                           /\ ~On(stack'[u], {"drain", "post"})
    BY <2>5, SendSets
  <2>8. OneSend'
    BY <2>1, <2>5, <2>7, SendSets DEF OneSend
  <2>9. SendHasBuffers'
    BY <2>1, <2>5, <2>7 DEF SendHasBuffers
  <2>10. InOnePlace'
    <3>1. /\ InSeq(sendBuffers)' = {} /\ InSeq(sendQueue)' = InSeq(sendQueue) /\ InSeq(wire)' = InSeq(wire)
      BY <2>1, EmptyQueue DEF InSeq
    <3>. QED
      BY <2>1, <3>1 DEF InOnePlace
  <2>. QED
    BY <2>5, <2>6, <2>8, <2>9, <2>10
<1>2. CASE Unregister(t)
  <2>1. /\ At(t, "unregister") /\ GoTo(t, <<>>) /\ sendRegistered' = FALSE
        /\ UNCHANGED <<connected, sendQueue, sendBuffers, owner, pending, lock, sending, wire,
                       inService, inManager, entered>>
    BY <1>2 DEF Unregister, ioVars, memberVars
  <2>2. SendStep(t, "unregister", <<>>)
    BY <2>1 DEF SendStep
  <2>3. /\ stack' \in [Threads -> Seq(Places)] /\ Stacks' /\ Ends'
        /\ OneRecv' /\ Early' /\ OneDisconnect'
        /\ pending["send"] = "none"
        /\ \A S \in SUBSET (SendPlaces \cup {"sendFailed"}) : \A u \in Threads : ~On(stack'[u], S)
        /\ ~\E u \in Threads : On(stack[u], {"post", "sendFailed"})
    <3>1. /\ stack' \in [Threads -> Seq(Places)] /\ Stacks' /\ Ends'
          /\ OneRecv' /\ Early' /\ OneDisconnect'
          /\ pending["send"] = "none"
          /\ \A S \in SUBSET (SendPlaces \cup {"sendFailed"}) :
                /\ \A u \in Threads \ {t} : ~On(stack'[u], S)
                /\ On(stack'[t], S) <=> On(<<>>, S)
          /\ ~\E u \in Threads : On(stack[u], {"post", "sendFailed"})
      BY <2>2, SendMovesAlone, SendSets
    <3>2. \A S : ~On(<<>>, S)
      BY OnLiterals
    <3>. QED
      BY <3>1, <3>2
  <2>4. sendBuffers = <<>>
    BY <2>3 DEF SendHasBuffers
  <2>5. TypeOK'
    BY <2>1, <2>3 DEF TypeOK
  <2>6. OneSend'
    BY <2>1, <2>3, SendSets DEF OneSend
  <2>7. SendHasBuffers'
    BY <2>1, <2>3, <2>4, SendSets DEF SendHasBuffers
  <2>8. InOnePlace'
    BY <2>1 DEF InOnePlace, InSeq
  <2>. QED
    BY <2>3, <2>5, <2>6, <2>7, <2>8
<1>. QED
  BY <1>1, <1>2

\* ProcessSend.
LEMMA ProcessSendKeeps ==
    ASSUME Inv, NEW t \in Threads, ProcessSend(t) \/ Unlock(t)
    PROVE  Inv'
<1> USE DEF Inv
<1>1. CASE ProcessSend(t)
  <2>1. /\ At(t, "processSend")
        /\ UNCHANGED <<connected, sendQueue, sendBuffers, sending, wire, owner, pending,
                       inService, inManager, entered>>
    BY <1>1 DEF ProcessSend, ioVars, memberVars
  <2>2. ASSUME NEW next \in {<<>>, <<"registerSend", "unlock">>}, GoTo(t, next),
               sendRegistered' \in BOOLEAN, lock' \in Threads \cup {NoThread},
               next # <<>> => sendQueue # <<>> /\ sendRegistered' = sendRegistered
        PROVE  Inv'
    <3>1. SendStep(t, "processSend", next)
      BY <2>1, <2>2 DEF SendStep
    <3>2. \A S : "unlock" \notin S => (On(next, S) <=> next # <<>> /\ "registerSend" \in S)
      <4>1. CASE next = <<>>
        BY <4>1, OnLiterals
      <4>2. CASE next = <<"registerSend", "unlock">>
        BY <4>2, OnLiterals
      <4>. QED
        BY <2>2, <4>1, <4>2
    <3>3. /\ stack' \in [Threads -> Seq(Places)] /\ Stacks' /\ Ends'
          /\ OneRecv' /\ Early' /\ OneDisconnect'
          /\ pending["send"] = "none" /\ sendRegistered
          /\ \A S \in SUBSET (SendPlaces \cup {"sendFailed"}) :
                /\ \A u \in Threads \ {t} : ~On(stack'[u], S)
                /\ On(stack'[t], S) <=> next # <<>> /\ "registerSend" \in S
          /\ ~\E u \in Threads : On(stack[u], {"post", "sendFailed"})
      <4>1. \A S \in SUBSET (SendPlaces \cup {"sendFailed"}) : "unlock" \notin S
        BY DEF SendPlaces
      <4>. QED
        BY <3>1, <3>2, <4>1, SendMovesAlone, SendSets
    <3>4. sendBuffers = <<>>
      BY <3>3 DEF SendHasBuffers
    <3>5. TypeOK'
      BY <2>1, <2>2, <3>3 DEF TypeOK
    <3>6. OneSend'
      BY <2>1, <2>2, <3>3, SendSets DEF OneSend
    <3>7. SendHasBuffers'
      BY <2>1, <2>2, <3>3, <3>4, SendSets DEF SendHasBuffers
    <3>8. InOnePlace'
      BY <2>1 DEF InOnePlace, InSeq
    <3>. QED
      BY <3>3, <3>5, <3>6, <3>7, <3>8
  <2>3. lock \in Threads \cup {NoThread} /\ sendRegistered \in BOOLEAN
    BY DEF TypeOK
  <2>4. CASE sendRegistered' = FALSE /\ GoTo(t, <<>>) /\ lock' = lock
    BY <2>2, <2>3, <2>4
  <2>5. CASE sendQueue # <<>> /\ lock' = t /\ GoTo(t, <<"registerSend", "unlock">>) /\ sendRegistered' = sendRegistered
    BY <2>2, <2>3, <2>5
  <2>. QED
    BY <1>1, <2>4, <2>5 DEF ProcessSend
<1>2. CASE Unlock(t)
  <2>1. /\ At(t, "unlock") /\ GoTo(t, <<>>) /\ lock' = NoThread
        /\ UNCHANGED <<connected, sending, sendQueue, sendRegistered, sendBuffers, wire, owner, pending,
                       inService, inManager, entered>>
    BY <1>2 DEF Unlock, sendVars, ioVars, memberVars
  <2>2. SendStep(t, "unlock", <<>>)
    BY <2>1 DEF SendStep
  <2>3. /\ stack' \in [Threads -> Seq(Places)] /\ Stacks' /\ Ends'
        /\ \A u \in Threads \ {t} : stack'[u] = stack[u]
        /\ \A S : On(stack[t], S) <=> "unlock" \in S \/ On(Tail(stack[t]), S)
        /\ \A S : On(stack'[t], S) <=> On(Tail(stack[t]), S)
        /\ OneRecv' /\ Early' /\ OneDisconnect'
    BY <2>2, SendMoves, OnLiterals
  <2>4. TypeOK'
    BY <2>1, <2>3 DEF TypeOK
  <2>5. \A S \in SUBSET (SendPlaces \cup {"sendFailed"}) : On(stack'[t], S) <=> On(stack[t], S)
    BY <2>3 DEF SendPlaces
  <2>6. OneSend' /\ SendHasBuffers' /\ InOnePlace'
    BY <2>1, <2>3, <2>5, SendKept
  <2>. QED
    BY <2>3, <2>4, <2>6
<1>. QED
  BY <1>1, <1>2

-----------------------------------------------------------------------------
\* The port: an operation ends.
LEMMA CompleteKeeps ==
    ASSUME Inv, NEW e \in Events, Complete(e)
    PROVE  Inv'
<1> USE DEF Inv
<1>1. PICK outcome \in IF e \in {"recv", "send"} THEN {"bytes", "zero"} ELSE {"bytes"} :
         pending' = [pending EXCEPT ![e] = outcome]
  BY DEF Complete
<1>2. /\ pending[e] = "pending"
      /\ UNCHANGED <<connected, owner, lock, stack, sending, sendQueue, sendRegistered, sendBuffers, wire,
                     inService, inManager, entered>>
  BY DEF Complete, sendVars, memberVars
<1>3. pending \in [Events -> {"none", "pending", "bytes", "zero"}]
  BY DEF TypeOK
<1>4. /\ pending' \in [Events -> {"none", "pending", "bytes", "zero"}]
      /\ \A x \in Events : pending'[x] = "none" <=> pending[x] = "none"
      /\ \A x \in Events : pending'[x] = "zero" => pending[x] = "zero" \/ x \in {"recv", "send"}
  BY <1>1, <1>2, <1>3
<1>5. "connect" \in Events /\ "recv" \in Events /\ "send" \in Events /\ "disconnect" \in Events
  BY DEF Events
<1>6. TypeOK' /\ Ends'
  BY <1>2, <1>4, <1>5 DEF TypeOK, Ends
<1>7. Stacks'
  BY <1>2 DEF Stacks
<1>8. OneSend' /\ SendHasBuffers'
  BY <1>2, <1>4, <1>5 DEF OneSend, SendHasBuffers
<1>9. OneRecv'
  BY <1>2, <1>4, <1>5 DEF OneRecv
<1>10. Early'
  BY <1>2, <1>4, <1>5 DEF Early
<1>11. OneDisconnect'
  BY <1>2, <1>4, <1>5 DEF OneDisconnect
<1>12. InOnePlace'
  BY <1>2, <1>4, <1>5 DEF InOnePlace, InSeq
<1>. QED
  BY <1>6, <1>7, <1>8, <1>9, <1>10, <1>11, <1>12

\* What a completion calls.
LEMMA HandlersCall ==
    ASSUME Inv, NEW e \in Events, pending[e] \in {"bytes", "zero"}
    PROVE  \E place \in {"connect", "handle", "disconnect", "processSend", "onDisconnected"} :
              /\ Handlers[e][pending[e]] = <<place>>
              /\ e = "connect" => place = "connect"
              /\ e = "recv" => place \in {"handle", "disconnect"}
              /\ e = "send" => place \in {"processSend", "disconnect"}
              /\ e = "disconnect" => place = "onDisconnected"
<1>1. CASE e = "connect"
  <2>1. pending[e] = "bytes"
    BY <1>1 DEF Inv, Ends
  <2>. QED
    BY <1>1, <2>1 DEF Handlers
<1>2. CASE e = "disconnect"
  <2>1. pending[e] = "bytes"
    BY <1>2 DEF Inv, Ends
  <2>. QED
    BY <1>2, <2>1 DEF Handlers
<1>3. CASE e = "recv"
  BY <1>3 DEF Handlers
<1>4. CASE e = "send"
  BY <1>4 DEF Handlers
<1>. QED
  BY <1>1, <1>2, <1>3, <1>4 DEF Events

\* A thread takes a completion from the port.
LEMMA DispatchKeeps ==
    ASSUME Inv, NEW t \in Threads, NEW e \in Events, Dispatch(t, e)
    PROVE  Inv'
<1> USE DEF Inv
<1>1. /\ stack[t] = <<>> /\ pending[e] \in {"bytes", "zero"} /\ Call(t, Handlers[e][pending[e]])
      /\ pending' = [pending EXCEPT ![e] = "none"] /\ owner' = [owner EXCEPT ![e] = FALSE]
      /\ sendBuffers' = IF e = "send" THEN <<>> ELSE sendBuffers
      /\ UNCHANGED <<connected, sendQueue, sendRegistered, lock, sending, wire, inService, inManager, entered>>
  BY DEF Dispatch, memberVars
<1>2. PICK place \in {"connect", "handle", "disconnect", "processSend", "onDisconnected"} :
         /\ Handlers[e][pending[e]] = <<place>>
         /\ e = "connect" => place = "connect"
         /\ e = "recv" => place \in {"handle", "disconnect"}
         /\ e = "send" => place \in {"processSend", "disconnect"}
         /\ e = "disconnect" => place = "onDisconnected"
  BY <1>1, HandlersCall
<1> DEFINE places == <<place>>
<1>3. Shape(places) /\ Call(t, places) /\ \A S : On(places, S) <=> place \in S
  BY <1>1, <1>2, ShapeLiterals, OnLiterals DEF Places
<1> HIDE DEF places
<1>4. /\ stack' \in [Threads -> Seq(Places)] /\ Stacks'
      /\ \A u \in Threads \ {t} : stack'[u] = stack[u]
      /\ \A S : On(stack'[t], S) <=> place \in S
      /\ \A S : ~On(stack[t], S)
  <2>1. TypeOK /\ Stacks /\ t \in Threads /\ stack[t] = <<>>
    BY <1>1
  <2>2. \A S : ~On(stack[t], S)
    BY <1>1, OnLiterals
  <2>3. /\ stack' \in [Threads -> Seq(Places)] /\ Stacks'
        /\ \A u \in Threads \ {t} : stack'[u] = stack[u]
        /\ \A S : On(stack'[t], S) <=> On(places, S) \/ On(stack[t], S)
    BY ONLY <1>3, <2>1, Calls
  <2>. QED
    BY <1>3, <2>2, <2>3
<1>5. /\ pending \in [Events -> {"none", "pending", "bytes", "zero"}] /\ owner \in [Events -> BOOLEAN]
  BY DEF TypeOK
<1>6. /\ pending' \in [Events -> {"none", "pending", "bytes", "zero"}] /\ pending'[e] = "none"
      /\ owner' \in [Events -> BOOLEAN]
      /\ \A x \in Events \ {e} : pending'[x] = pending[x] /\ owner'[x] = owner[x]
      /\ pending[e] # "none"
  BY <1>1, <1>5
<1>7. "connect" \in Events /\ "recv" \in Events /\ "send" \in Events /\ "disconnect" \in Events
  BY DEF Events
<1>8. TypeOK' /\ Ends'
  BY <1>1, <1>4, <1>6, <1>7, EmptyQueue DEF TypeOK, Ends
<1>9. e # "connect" => pending["connect"] = "none" /\ \A u \in Threads : ~On(stack[u], {"connect", "addSession"})
  BY <1>6 DEF Early
<1>10. e = "connect" => /\ \A u \in Threads : stack[u] = <<>>
                        /\ ~entered /\ \A x \in Events \ {"connect"} : pending[x] = "none"
  BY <1>6 DEF Early
<1>11. CASE e # "send"
  <2>1. /\ pending'["send"] = pending["send"] /\ owner'["send"] = owner["send"]
        /\ UNCHANGED <<sendQueue, sendRegistered, sendBuffers, wire, sending>>
    BY <1>1, <1>6, <1>7, <1>11
  <2>2. \A S \in SUBSET (SendPlaces \cup {"sendFailed"}) : On(stack'[t], S) <=> On(stack[t], S)
    <3>1. place # "processSend"
      BY <1>2, <1>11 DEF Events
    <3>2. \A S \in SUBSET (SendPlaces \cup {"sendFailed"}) : place \notin S
      BY <3>1 DEF SendPlaces
    <3>. QED
      BY <1>4, <3>2
  <2>3. OneSend' /\ SendHasBuffers' /\ InOnePlace'
    BY <1>4, <2>1, <2>2, SendKept
  <2>4. OneRecv'
    <3>1. CASE e = "disconnect"
      <4>1. ~On(stack'[t], RecvPlaces) /\ ~On(stack'[t], {"postRecv"})
        BY <1>2, <1>4, <3>1 DEF RecvPlaces
      <4>. QED
        BY <1>4, <1>6, <1>7, <3>1, <4>1, RecvKept
    <3>2. CASE e = "recv"
      <4>1. \A u \in Threads : ~On(stack[u], RecvPlaces)
        BY <1>6, <3>2 DEF OneRecv
      <4>2. \A u \in Threads \ {t} : ~On(stack'[u], RecvPlaces)
        BY <1>4, <4>1
      <4>3. \A u \in Threads : ~On(stack'[u], {"postRecv"})
        <5>1. place \in {"handle", "disconnect"}
          BY <1>2, <3>2
        <5>2. ~On(stack'[t], {"postRecv"})
          BY <1>4, <5>1
        <5>3. \A u \in Threads \ {t} : ~On(stack'[u], {"postRecv"})
          BY <4>2 DEF On, RecvPlaces
        <5>. QED
          BY <5>2, <5>3
      <4>. QED
        BY <1>6, <1>7, <1>9, <3>2, <4>2, <4>3 DEF OneRecv
    <3>3. CASE e = "connect"
      <4>1. \A u \in Threads \ {t} : ~On(stack'[u], RecvPlaces) /\ ~On(stack'[u], {"postRecv"})
        BY <1>4, <1>10, <3>3, OnLiterals
      <4>2. ~On(stack'[t], {"postRecv"})
        BY <1>2, <1>4
      <4>. QED
        BY <1>6, <1>7, <1>10, <3>3, <4>1, <4>2 DEF OneRecv
    <3>. QED
      BY <1>11, <3>1, <3>2, <3>3 DEF Events
  <2>5. OneDisconnect'
    <3>1. CASE e = "disconnect"
      <4>1. /\ \A u \in Threads : ~On(stack[u], DisconnectPlaces)
            /\ ~connected /\ inService
        BY <1>6, <3>1 DEF OneDisconnect
      <4>2. \A u \in Threads \ {t} : ~On(stack'[u], DisconnectPlaces)
        BY <1>4, <4>1
      <4>. QED
        BY <1>1, <1>6, <3>1, <4>1, <4>2 DEF OneDisconnect
    <3>2. CASE e # "disconnect"
      <4>1. ~On(stack'[t], DisconnectPlaces)
        BY <1>2, <1>4, <1>11, <3>2 DEF DisconnectPlaces, Events
      <4>. QED
        BY <1>1, <1>4, <1>6, <1>7, <3>2, <4>1, DisconnectKept
    <3>. QED
      BY <3>1, <3>2
  <2>6. Early'
    <3>1. CASE e = "connect"
      <4>1. /\ \A u \in Threads \ {t} : stack'[u] = <<>>
        BY <1>4, <1>10, <3>1
      <4>. QED
        BY <1>1, <1>6, <1>10, <3>1, <4>1, OnLiterals DEF Early
    <3>2. CASE e # "connect"
      <4>1. ~On(stack'[t], {"connect", "addSession"})
        BY <1>2, <1>4, <1>11, <3>2 DEF Events
      <4>. QED
        BY <1>4, <1>6, <1>7, <1>9, <3>2, <4>1, NeverEarlyAgain
    <3>. QED
      BY <3>1, <3>2
  <2>. QED
    BY <1>4, <1>8, <2>3, <2>4, <2>5, <2>6
<1>12. CASE e = "send"
  <2>1. /\ sendRegistered /\ \A u \in Threads : ~On(stack[u], SendPlaces)
    BY <1>6, <1>12 DEF OneSend
  <2>2. \A u \in Threads \ {t} : ~On(stack'[u], SendPlaces)
    BY <1>4, <2>1
  <2>3. place \in {"processSend", "disconnect"} /\ sendBuffers' = <<>> /\ pending'["send"] = "none"
    BY <1>1, <1>2, <1>6, <1>12
  <2>4. \A u \in Threads : /\ ~On(stack'[u], {"drain", "post"}) /\ ~On(stack'[u], {"registerSend", "drain"})
                           /\ ~On(stack'[u], {"post"})
    <3>1. \A u \in Threads \ {t} : /\ ~On(stack'[u], {"drain", "post"}) /\ ~On(stack'[u], {"registerSend", "drain"})
                                   /\ ~On(stack'[u], {"post"})
      BY <2>2 DEF On, SendPlaces
    <3>2. /\ ~On(stack'[t], {"drain", "post"}) /\ ~On(stack'[t], {"registerSend", "drain"})
          /\ ~On(stack'[t], {"post"})
      BY <1>4, <2>3
    <3>. QED
      BY <3>1, <3>2
  <2>5. OneSend'
    BY <1>1, <2>1, <2>2, <2>3, <2>4 DEF OneSend
  <2>6. SendHasBuffers'
    BY <2>3, <2>4 DEF SendHasBuffers
  <2>7. InOnePlace'
    <3>1. InSeq(sendBuffers)' = {} /\ InSeq(sendQueue)' = InSeq(sendQueue) /\ InSeq(wire)' = InSeq(wire)
      BY <1>1, <2>3, EmptyQueue DEF InSeq
    <3>. QED
      BY <1>1, <3>1 DEF InOnePlace
  <2>8. OneRecv'
    <3>1. ~On(stack'[t], RecvPlaces) /\ ~On(stack'[t], {"postRecv"})
      BY <1>4, <2>3 DEF RecvPlaces
    <3>. QED
      BY <1>4, <1>6, <1>7, <1>12, <3>1, RecvKept
  <2>9. OneDisconnect'
    <3>1. ~On(stack'[t], DisconnectPlaces)
      BY <1>4, <2>3 DEF DisconnectPlaces
    <3>. QED
      BY <1>1, <1>4, <1>6, <1>7, <1>12, <3>1, DisconnectKept
  <2>10. Early'
    <3>1. ~On(stack'[t], {"connect", "addSession"})
      BY <1>4, <2>3
    <3>. QED
      BY <1>4, <1>6, <1>7, <1>9, <1>12, <3>1, NeverEarlyAgain
  <2>. QED
    BY <1>4, <1>8, <2>5, <2>6, <2>7, <2>8, <2>9, <2>10
<1>. QED
  BY <1>11, <1>12

\* A new Session satisfies the invariant, ...
LEMMA InitInv == Init => Inv
<1> SUFFICES ASSUME Init
             PROVE  Inv
  OBVIOUS
<1> USE DEF Init
<1>1. \A t \in Threads : stack[t] = <<>> /\ \A S : ~On(stack[t], S)
  BY OnLiterals
<1>2. /\ pending \in [Events -> {"none", "pending", "bytes", "zero"}]
      /\ \A e \in Events : pending[e] = IF e = "connect" THEN "pending" ELSE "none"
      /\ owner["connect"]
  BY DEF RegisterConnect, Events
<1>3. pending["connect"] = "pending" /\ pending["recv"] = "none" /\ pending["send"] = "none" /\ pending["disconnect"] = "none"
  BY <1>2 DEF Events
<1>4. TypeOK /\ Ends
  <2>1. stack \in [Threads -> Seq(Places)]
    <3>1. <<>> \in Seq(Places)
      BY EmptySeq
    <3>. QED
      BY <3>1
  <2>. QED
    BY <1>2, <1>3, <2>1, EmptyQueue DEF TypeOK, Ends
<1>5. Stacks
  BY <1>1, ShapeLiterals DEF Stacks
<1>6. OneSend /\ SendHasBuffers
  BY <1>1, <1>3 DEF OneSend, SendHasBuffers
<1>7. OneRecv /\ OneDisconnect
  <2>1. ~connected /\ owner["connect"]
    BY <1>2
  <2>2. \A t \in Threads : /\ ~On(stack[t], RecvPlaces) /\ ~On(stack[t], {"postRecv"})
                            /\ ~On(stack[t], DisconnectPlaces)
    BY <1>1
  <2>3. OneRecv
    BY <1>3, <2>1, <2>2 DEF OneRecv
  <2>4. OneDisconnect
    BY <1>3, <2>1, <2>2 DEF OneDisconnect
  <2>. QED
    BY <2>3, <2>4
<1>8. Early
  BY <1>1, <1>2 DEF Early
<1>9. InOnePlace
  BY EmptyQueue DEF InOnePlace
<1>. QED
  BY <1>4, <1>5, <1>6, <1>7, <1>8, <1>9 DEF Inv

\* ... and every step preserves it.
LEMMA NextKeeps == Inv /\ [Next]_vars => Inv'
<1> SUFFICES ASSUME Inv, [Next]_vars
             PROVE  Inv'
  OBVIOUS
<1>1. CASE UNCHANGED vars
  <2>1. UNCHANGED <<connected, lock, stack, sending, sendQueue, sendRegistered, sendBuffers, wire, owner, pending,
                    inService, inManager, entered>>
    BY <1>1 DEF vars, sendVars, ioVars, memberVars
  <2>2. TypeOK' /\ Ends'
    BY <2>1 DEF Inv, TypeOK, Ends
  <2>3. Stacks' /\ OneRecv' /\ OneDisconnect'
    BY <2>1 DEF Inv, Stacks, OneRecv, OneDisconnect
  <2>4. OneSend' /\ SendHasBuffers'
    BY <2>1 DEF Inv, OneSend, SendHasBuffers
  <2>5. Early'
    BY <2>1 DEF Inv, Early
  <2>6. InOnePlace'
    BY <2>1 DEF Inv, InOnePlace, InSeq
  <2>. QED
    BY <2>2, <2>3, <2>4, <2>5, <2>6 DEF Inv
<1>2. ASSUME NEW e \in Events, Complete(e)
      PROVE  Inv'
  BY <1>2, CompleteKeeps
<1>3. ASSUME NEW t \in Threads, Send(t)
      PROVE  Inv'
  BY <1>3, SendKeeps
<1>4. ASSUME NEW t \in Threads, Step(t)
      PROVE  Inv'
  <2>1. ASSUME NEW e \in Events, Dispatch(t, e)
        PROVE  Inv'
    BY <2>1, DispatchKeeps
  <2>2. CASE SetConnected(t) \/ AddSession(t) \/ OnConnected(t)
    BY <2>2, ConnectKeeps
  <2>3. CASE RegisterRecv(t) \/ PostRecv(t) \/ RecvFailed(t) \/ EndHandle(t)
    BY <2>3, RecvKeeps
  <2>4. CASE Enqueue(t)
    BY <2>4, EnqueueKeeps
  <2>5. CASE RegisterSend(t)
    BY <2>5, RegisterSendKeeps
  <2>6. CASE Drain(t)
    BY <2>6, DrainKeeps
  <2>7. CASE PostSend(t)
    BY <2>7, PostSendKeeps
  <2>8. CASE SendFailed(t) \/ Unregister(t)
    BY <2>8, SendFailedKeeps
  <2>9. CASE ProcessSend(t) \/ Unlock(t)
    BY <2>9, ProcessSendKeeps
  <2>10. CASE Disconnect(t) \/ RegisterDisconnect(t) \/ OnDisconnected(t) \/ ReleaseSession(t)
    BY <2>10, DisconnectKeeps
  <2>. QED
    BY <1>4, <2>1, <2>2, <2>3, <2>4, <2>5, <2>6, <2>7, <2>8, <2>9, <2>10 DEF Step
<1>. QED
  BY <1>1, <1>2, <1>3, <1>4 DEF Next

\* The invariant holds of every Session, however many threads use it.
LEMMA Invariance == Spec => []Inv
  BY InitInv, NextKeeps, PTL DEF Spec

-----------------------------------------------------------------------------
\* A thread uses an event where the invariant says that only one can be.
LEMMA UsesArePlaces ==
    ASSUME Inv, NEW t \in Threads
    PROVE  /\ Uses(t, "send") => On(stack[t], SendPlaces)
           /\ Uses(t, "recv") => On(stack[t], RecvPlaces)
           /\ Uses(t, "disconnect") => On(stack[t], DisconnectPlaces)
           /\ ~Uses(t, "connect")
<1>1. ASSUME Uses(t, "send")
      PROVE  On(stack[t], SendPlaces)
  <2>1. PICK i \in DOMAIN stack[t] : stack[t][i] \in {"registerSend", "drain", "post", "sendFailed", "unregister"}
    BY <1>1 DEF Uses
  <2>2. CASE stack[t][i] = "sendFailed"
    <3>1. On(stack[t], {"sendFailed"})
      BY <2>2 DEF On
    <3>2. On(stack[t], {"unregister"})
      BY <3>1 DEF Inv, Stacks, Shape
    <3>. QED
      BY <3>2 DEF On, SendPlaces
  <2>3. CASE stack[t][i] # "sendFailed"
    BY <2>1, <2>3 DEF On, SendPlaces
  <2>. QED
    BY <2>2, <2>3
<1>2. Uses(t, "recv") => On(stack[t], RecvPlaces)
  BY DEF Uses, On, RecvPlaces
<1>3. Uses(t, "disconnect") => On(stack[t], DisconnectPlaces)
  BY DEF Uses, On, DisconnectPlaces
<1>4. ~Uses(t, "connect")
  BY DEF Uses
<1>. QED
  BY <1>1, <1>2, <1>3, <1>4

\* A set whose elements are all the same has at most one.
LEMMA AtMostOne ==
    ASSUME NEW S, \A x, y \in S : x = y
    PROVE  Cardinality(S) <= 1
<1>1. CASE S = {}
  BY <1>1, FS_EmptySet
<1>2. CASE S # {}
  <2>1. PICK x : x \in S
    BY <1>2
  <2>2. S = {x}
    BY <2>1
  <2>. QED
    BY <2>2, FS_Singleton
<1>. QED
  BY <1>1, <1>2

\* No event is used twice at a time: the reuse of _sendEvent and _recvEvent is
\* sound, and one thread at a time touches _recvBuffer.
THEOREM EventsAreReused == Spec => []EventsUsedOnce
<1>1. ASSUME Inv
      PROVE  EventsUsedOnce
  <2>1. ASSUME NEW e \in Events
        PROVE  Cardinality(Users(e)) <= 1
    <3>1. ASSUME NEW t \in Threads, NEW u \in Threads, Uses(t, e), Uses(u, e)
          PROVE  t = u /\ pending[e] = "none"
      <4>1. CASE e = "send"
        BY <1>1, <3>1, <4>1, UsesArePlaces DEF Inv, OneSend
      <4>2. CASE e = "recv"
        BY <1>1, <3>1, <4>2, UsesArePlaces DEF Inv, OneRecv
      <4>3. CASE e = "disconnect"
        BY <1>1, <3>1, <4>3, UsesArePlaces DEF Inv, OneDisconnect
      <4>4. CASE e = "connect"
        BY <1>1, <3>1, <4>4, UsesArePlaces
      <4>. QED
        BY <4>1, <4>2, <4>3, <4>4 DEF Events
    <3>2. \A x \in Users(e) : \/ x \in Threads /\ Uses(x, e)
                              \/ x = NoThread /\ pending[e] # "none"
      BY DEF Users
    <3>3. \A x, y \in Users(e) : x = y
      BY <3>1, <3>2
    <3>. QED
      BY <3>3, AtMostOne
  <2>. QED
    BY <2>1 DEF EventsUsedOnce
<1>. QED
  BY <1>1, Invariance, PTL

\* As long as an operation is pending or its completion waits, its event refers
\* to the Session: Dispatch never finds a null _owner.
THEOREM OwnersStay == Spec => []OwnerWhilePending
<1>1. ASSUME Inv
      PROVE  OwnerWhilePending
  <2>1. /\ pending["send"] # "none" => owner["send"]
        /\ pending["connect"] # "none" => owner["connect"]
        /\ pending["recv"] # "none" => owner["recv"]
        /\ pending["disconnect"] # "none" => owner["disconnect"]
    BY <1>1 DEF Inv, OneSend, OneRecv, OneDisconnect
  <2>. QED
    BY <2>1 DEF OwnerWhilePending, Events
<1>. QED
  BY <1>1, Invariance, PTL

\* The variables have their types, the buffers of a send stay referenced until its
\* completion, and WSASend is never given nothing.
THEOREM BuffersStay == Spec => []BuffersWhilePending
<1>1. ASSUME Inv
      PROVE  BuffersWhilePending
  <2>1. ASSUME NEW t \in Threads, At(t, "post")
        PROVE  sendBuffers # <<>>
    <3>1. stack[t] # <<>> /\ Head(stack[t]) = "post" /\ Shape(stack[t])
      BY <1>1, <2>1 DEF At, Inv, Stacks
    <3>2. On(stack[t], {"post"})
      BY <3>1, TopAndRest
    <3>. QED
      BY <1>1, <3>2 DEF Inv, SendHasBuffers
  <2>. QED
    BY <1>1, <2>1 DEF BuffersWhilePending, Inv, SendHasBuffers
<1>. QED
  BY <1>1, Invariance, PTL

\* Service::ReleaseSession finds the Session.
THEOREM ReleasedOnce == Spec => []ReleaseFindsIt
<1>1. ASSUME Inv
      PROVE  ReleaseFindsIt
  <2>1. ASSUME NEW t \in Threads, At(t, "release")
        PROVE  inService
    <3>1. stack[t] # <<>> /\ Head(stack[t]) = "release" /\ Shape(stack[t])
      BY <1>1, <2>1 DEF At, Inv, Stacks
    <3>2. On(stack[t], DisconnectPlaces)
      BY <3>1, TopAndRest DEF DisconnectPlaces
    <3>. QED
      BY <1>1, <3>2 DEF Inv, OneDisconnect
  <2>. QED
    BY <2>1 DEF ReleaseFindsIt
<1>. QED
  BY <1>1, Invariance, PTL

-----------------------------------------------------------------------------
\* What Send has accepted and WSASend has not been given yet.
Accepted == (IF pending.send = "none" THEN sendBuffers ELSE <<>>) \o sendQueue

\* The two parts of a sequence that was put together.
LEMMA PartsOfConcat ==
    ASSUME NEW q \in Seq(Buffers), NEW r \in Seq(Buffers)
    PROVE  /\ SubSeq(q \o r, 1, Len(q)) = q
           /\ SubSeq(q \o r, Len(q) + 1, Len(q \o r)) = r
           /\ q # <<>> => Len(q) \in 1..Len(q \o r)
<1>1. Len(q) \in Nat /\ Len(r) \in Nat /\ (q # <<>> => Len(q) # 0) /\ (r = <<>> <=> Len(r) = 0)
  BY LenProperties, EmptySeq
<1> DEFINE s == q \o r
<1>2. /\ s \in Seq(Buffers) /\ Len(s) = Len(q) + Len(r)
      /\ \A i \in 1..(Len(q) + Len(r)) : s[i] = IF i <= Len(q) THEN q[i] ELSE r[i - Len(q)]
  BY ConcatProperties
<1> HIDE DEF s
<1> DEFINE f == SubSeq(s, 1, Len(q))
<1>3. \A i \in 1..Len(s) : s[i] \in Buffers
  BY <1>2, ElementOfSeq
<1>4. f \in Seq(Buffers) /\ Len(f) = Len(q) /\ \A i \in 1..Len(q) : f[i] = s[i]
  <2>1. \A i \in 1..Len(q) : s[i] \in Buffers
    BY <1>1, <1>2, <1>3
  <2>2. /\ f \in Seq(Buffers) /\ Len(f) = IF 1 <= Len(q) THEN Len(q) - 1 + 1 ELSE 0
        /\ \A i \in 1..(Len(q) - 1 + 1) : f[i] = s[1 + i - 1]
    BY <1>1, <2>1, SubSeqProperties
  <2>3. ASSUME NEW i \in 1..Len(q)
        PROVE  f[i] = s[i]
    <3>1. i \in 1..(Len(q) - 1 + 1) /\ 1 + i - 1 = i
      BY <1>1
    <3>. QED
      BY <2>2, <3>1
  <2>. QED
    BY <1>1, <2>2, <2>3
<1> HIDE DEF f
<1>5. f = q
  <2>1. \A i \in 1..Len(q) : f[i] = q[i]
    BY <1>1, <1>2, <1>4
  <2>. QED
    BY <1>4, <2>1, SeqEqual
<1>6. SubSeq(s, Len(q) + 1, Len(s)) = r
  <2>1. CASE r = <<>>
    BY <1>1, <1>2, <2>1, SubSeqEmpty
  <2>2. CASE r # <<>>
    <3>1. r = SubSeq(s, Len(s) - Len(r) + 1, Len(s))
      BY <2>2, EndOfConcat DEF s
    <3>2. Len(s) - Len(r) + 1 = Len(q) + 1
      BY <1>1, <1>2
    <3>. QED
      BY <3>1, <3>2
  <2>. QED
    BY <2>1, <2>2
<1>7. q # <<>> => Len(q) \in 1..Len(s)
  BY <1>1, <1>2
<1>. QED
  BY <1>5, <1>6, <1>7 DEF f, s

\* The section of Send under the lock accepts a buffer.
LEMMA EnqueueAccepts ==
    ASSUME Inv, NEW t \in Threads, Enqueue(t)
    PROVE  \E b \in Buffers : Accepted' = Append(Accepted, b) /\ wire' = wire
<1>1. PICK b \in sending[t] : sendQueue' = Append(sendQueue, b)
  BY DEF Enqueue
<1>2. pending' = pending /\ sendBuffers' = sendBuffers /\ wire' = wire
  BY DEF Enqueue, ioVars
<1>3. b \in Buffers /\ sendQueue \in Seq(Buffers) /\ sendBuffers \in Seq(Buffers) /\ <<>> \in Seq(Buffers)
  BY EmptySeq DEF Inv, TypeOK, Queues
<1> DEFINE front == IF pending.send = "none" THEN sendBuffers ELSE <<>>
<1>4. front \in Seq(Buffers) /\ front' = front
  BY <1>2, <1>3
<1>5. Accepted = front \o sendQueue /\ Accepted' = front \o sendQueue'
  BY <1>2 DEF Accepted
<1> HIDE DEF front
<1>6. front \o Append(sendQueue, b) = Append(front \o sendQueue, b)
  <2>1. <<b>> \in Seq(Buffers)
    BY <1>3
  <2>2. front \o sendQueue \in Seq(Buffers)
    BY <1>3, <1>4, ConcatProperties
  <2>3. Append(sendQueue, b) = sendQueue \o <<b>> /\ Append(front \o sendQueue, b) = (front \o sendQueue) \o <<b>>
    BY <1>3, <2>2, AppendIsConcat
  <2>4. (front \o sendQueue) \o <<b>> = front \o (sendQueue \o <<b>>)
    BY <1>3, <1>4, <2>1, ConcatAssociative
  <2>. QED
    BY <2>3, <2>4
<1>. QED
  BY <1>1, <1>2, <1>3, <1>5, <1>6

\* Drain only moves what is accepted from _sendQueue to the event.
LEMMA DrainAccepts ==
    ASSUME Inv, NEW t \in Threads, Drain(t)
    PROVE  Accepted' = Accepted /\ wire' = wire
<1>1. /\ At(t, "drain") /\ GoTo(t, <<"post">>)
      /\ sendBuffers' = sendBuffers \o sendQueue /\ sendQueue' = <<>>
      /\ UNCHANGED <<connected, owner, pending, wire, inService, entered>>
  BY DEF Drain, ioVars, memberVars
<1>2. SendStep(t, "drain", <<"post">>)
  <2>1. <<"post">> # <<"registerSend", "unlock">>
    OBVIOUS
  <2>. QED
    BY <1>1, <2>1 DEF SendStep
<1>3. pending["send"] = "none"
  BY <1>2, SendMovesAlone, SendSets
<1>4. sendQueue \in Seq(Buffers) /\ sendBuffers \in Seq(Buffers)
  BY DEF Inv, TypeOK, Queues
<1>5. sendBuffers \o sendQueue \in Seq(Buffers)
  BY <1>4, ConcatProperties
<1>6. (sendBuffers \o sendQueue) \o <<>> = sendBuffers \o sendQueue
  BY <1>5, ConcatEmptySeq
<1>. QED
  BY <1>1, <1>3, <1>6 DEF Accepted

\* WSASend transmits the buffers of the event, if it succeeds.
LEMMA PostSendTransmits ==
    ASSUME Inv, NEW t \in Threads, PostSend(t)
    PROVE  \/ Accepted' = Accepted /\ wire' = wire
           \/ \E n \in 1..Len(Accepted) : /\ wire' = wire \o SubSeq(Accepted, 1, n)
                                          /\ Accepted' = SubSeq(Accepted, n + 1, Len(Accepted))
<1>1. At(t, "post") /\ sendQueue' = sendQueue /\ sendBuffers' = sendBuffers
  BY DEF PostSend
<1>2. CASE pending' = pending /\ wire' = wire
  BY <1>1, <1>2 DEF Accepted
<1>3. CASE pending' = [pending EXCEPT !["send"] = "pending"] /\ wire' = wire \o sendBuffers
  <2>1. On(stack[t], {"post"})
    <3>1. stack[t] # <<>> /\ Head(stack[t]) = "post" /\ Shape(stack[t])
      BY <1>1 DEF At, Inv, Stacks
    <3>. QED
      BY <3>1, TopAndRest
  <2>2. sendBuffers # <<>>
    BY <2>1 DEF Inv, SendHasBuffers
  <2>3. pending["send"] = "none"
    <3>1. On(stack[t], SendPlaces)
      BY <2>1 DEF On, SendPlaces
    <3>. QED
      BY <3>1, HoldsTheSend
  <2>4. /\ sendQueue \in Seq(Buffers) /\ sendBuffers \in Seq(Buffers)
        /\ pending \in [Events -> {"none", "pending", "bytes", "zero"}]
    BY DEF Inv, TypeOK, Queues
  <2>5. pending'["send"] = "pending"
    BY <1>3, <2>4 DEF Events
  <2>6. Accepted = sendBuffers \o sendQueue
    BY <2>3 DEF Accepted
  <2>7. Accepted' = sendQueue
    <3>1. Accepted' = <<>> \o sendQueue
      BY <1>1, <2>5 DEF Accepted
    <3>. QED
      BY <2>4, <3>1, ConcatEmptySeq
  <2>8. /\ SubSeq(Accepted, 1, Len(sendBuffers)) = sendBuffers
        /\ SubSeq(Accepted, Len(sendBuffers) + 1, Len(Accepted)) = sendQueue
        /\ Len(sendBuffers) \in 1..Len(Accepted)
    BY <2>2, <2>4, <2>6, PartsOfConcat
  <2>. QED
    BY <1>3, <2>7, <2>8
<1>. QED
  BY <1>2, <1>3 DEF PostSend

\* What follows a failure loses the buffers of the event.
LEMMA SendFailedLoses ==
    ASSUME Inv, NEW t \in Threads, SendFailed(t)
    PROVE  \/ Accepted' = Accepted /\ wire' = wire
           \/ /\ wire' = wire
              /\ \E n \in 1..Len(Accepted) : Accepted' = SubSeq(Accepted, n + 1, Len(Accepted))
<1>1. /\ At(t, "sendFailed") /\ sendBuffers' = <<>>
      /\ UNCHANGED <<sendQueue, pending, wire>>
  BY DEF SendFailed
<1>2. pending["send"] = "none"
  <2>1. stack[t] # <<>> /\ Head(stack[t]) = "sendFailed" /\ Shape(stack[t])
    BY <1>1 DEF At, Inv, Stacks
  <2>2. On(stack[t], {"unregister"})
    BY <2>1, TopAndRest
  <2>3. On(stack[t], SendPlaces)
    BY <2>2 DEF On, SendPlaces
  <2>. QED
    BY <2>3, HoldsTheSend
<1>3. sendQueue \in Seq(Buffers) /\ sendBuffers \in Seq(Buffers)
  BY DEF Inv, TypeOK, Queues
<1>4. Accepted = sendBuffers \o sendQueue
  BY <1>2 DEF Accepted
<1>5. Accepted' = sendQueue
  <2>1. Accepted' = <<>> \o sendQueue
    BY <1>1, <1>2 DEF Accepted
  <2>. QED
    BY <1>3, <2>1, ConcatEmptySeq
<1>6. CASE sendBuffers = <<>>
  <2>1. Accepted = sendQueue
    BY <1>3, <1>4, <1>6, ConcatEmptySeq
  <2>. QED
    BY <1>1, <1>5, <2>1
<1>7. CASE sendBuffers # <<>>
  <2>1. /\ SubSeq(Accepted, Len(sendBuffers) + 1, Len(Accepted)) = sendQueue
        /\ Len(sendBuffers) \in 1..Len(Accepted)
    BY <1>3, <1>4, <1>7, PartsOfConcat
  <2>. QED
    BY <1>1, <1>5, <2>1
<1>. QED
  BY <1>6, <1>7

\* No other step accepts, transmits or loses anything.
LEMMA OthersStutter ==
    ASSUME Inv, [Next]_vars, \A t \in Threads : ~(Enqueue(t) \/ Drain(t) \/ PostSend(t) \/ SendFailed(t))
    PROVE  Accepted' = Accepted /\ wire' = wire
<1>1. /\ pending \in [Events -> {"none", "pending", "bytes", "zero"}]
      /\ sendQueue \in Seq(Buffers) /\ sendBuffers \in Seq(Buffers)
  BY DEF Inv, TypeOK, Queues
<1>2. ASSUME UNCHANGED <<sendQueue, sendBuffers, wire>>, pending'["send"] = "none" <=> pending["send"] = "none"
      PROVE  Accepted' = Accepted /\ wire' = wire
  BY <1>2 DEF Accepted
<1>3. CASE UNCHANGED vars
  BY <1>2, <1>3 DEF vars, sendVars, ioVars
<1>4. ASSUME NEW e \in Events, Complete(e)
      PROVE  Accepted' = Accepted /\ wire' = wire
  <2>1. PICK outcome \in IF e \in {"recv", "send"} THEN {"bytes", "zero"} ELSE {"bytes"} :
           pending' = [pending EXCEPT ![e] = outcome]
    BY <1>4 DEF Complete
  <2>2. pending'["send"] = "none" <=> pending["send"] = "none"
    BY <1>1, <1>4, <2>1 DEF Complete, Events
  <2>3. UNCHANGED <<sendQueue, sendBuffers, wire>>
    BY <1>4 DEF Complete, sendVars
  <2>. QED
    BY <1>2, <2>2, <2>3
<1>5. ASSUME NEW t \in Threads, Send(t)
      PROVE  Accepted' = Accepted /\ wire' = wire
  BY <1>2, <1>5 DEF Send, sendVars, ioVars
<1>6. ASSUME NEW t \in Threads, NEW e \in Events, Dispatch(t, e)
      PROVE  Accepted' = Accepted /\ wire' = wire
  <2>1. /\ pending' = [pending EXCEPT ![e] = "none"] /\ pending[e] \in {"bytes", "zero"}
        /\ sendBuffers' = IF e = "send" THEN <<>> ELSE sendBuffers
        /\ UNCHANGED <<sendQueue, wire>>
    BY <1>6 DEF Dispatch
  <2>2. CASE e # "send"
    <3>1. pending'["send"] = pending["send"]
      BY <1>1, <2>1, <2>2 DEF Events
    <3>. QED
      BY <1>2, <2>1, <2>2, <3>1
  <2>3. CASE e = "send"
    <3>1. pending'["send"] = "none" /\ pending["send"] # "none" /\ sendBuffers' = <<>>
      BY <1>1, <2>1, <2>3
    <3>. QED
      BY <2>1, <3>1 DEF Accepted
  <2>. QED
    BY <2>2, <2>3
<1>7. ASSUME NEW t \in Threads, Step(t), \A e \in Events : ~Dispatch(t, e)
      PROVE  Accepted' = Accepted /\ wire' = wire
  <2>1. CASE \/ SetConnected(t) \/ AddSession(t) \/ OnConnected(t) \/ RegisterRecv(t) \/ RecvFailed(t) \/ EndHandle(t)
             \/ RegisterSend(t) \/ Unregister(t) \/ ProcessSend(t) \/ Unlock(t)
             \/ Disconnect(t) \/ OnDisconnected(t) \/ ReleaseSession(t)
    <3>1. UNCHANGED <<sendQueue, sendBuffers, wire, pending>>
      BY <2>1 DEF SetConnected, AddSession, OnConnected, RegisterRecv, RecvFailed, EndHandle, RegisterSend, Unregister,
                  ProcessSend, Unlock, Disconnect, OnDisconnected, ReleaseSession, sendVars, ioVars
    <3>. QED
      BY <1>2, <3>1
  <2>2. CASE PostRecv(t)
    <3>1. pending'["send"] = pending["send"]
      BY <1>1, <2>2 DEF PostRecv, Events
    <3>. QED
      BY <1>2, <2>2, <3>1 DEF PostRecv, sendVars
  <2>3. CASE RegisterDisconnect(t)
    <3>1. pending'["send"] = pending["send"]
      BY <1>1, <2>3 DEF RegisterDisconnect, Events
    <3>. QED
      BY <1>2, <2>3, <3>1 DEF RegisterDisconnect, sendVars
  <2>. QED
    BY <1>7, <2>1, <2>2, <2>3 DEF Step
<1>. QED
  BY <1>3, <1>4, <1>5, <1>6, <1>7 DEF Next

\* Send is a channel: whatever the threads do, the buffers leave in the order in
\* which Send accepted them, each at most once.
THEOREM InOrder == Spec => SendsInOrder
<1>1. Init => Channel!Init
  <2> SUFFICES ASSUME Init
               PROVE  Channel!Init
    OBVIOUS
  <2>1. sendBuffers = <<>> /\ sendQueue = <<>> /\ wire = <<>> /\ <<>> \in Seq(Buffers)
    BY EmptySeq DEF Init
  <2>2. <<>> \o <<>> = <<>>
    BY <2>1, ConcatEmptySeq
  <2>. QED
    BY <2>1, <2>2 DEF Channel!Init
<1>2. Inv /\ [Next]_vars => [Channel!Next]_Channel!vars
  <2> SUFFICES ASSUME Inv, [Next]_vars
               PROVE  [Channel!Next]_Channel!vars
    OBVIOUS
  <2>1. ASSUME NEW t \in Threads, Enqueue(t)
        PROVE  [Channel!Next]_Channel!vars
    BY <2>1, EnqueueAccepts DEF Accepted, Channel!Next, Channel!Accept
  <2>2. ASSUME Accepted' = Accepted, wire' = wire
        PROVE  [Channel!Next]_Channel!vars
    BY <2>2 DEF Accepted, Channel!vars
  <2>3. ASSUME NEW t \in Threads, PostSend(t)
        PROVE  [Channel!Next]_Channel!vars
    <3>1. CASE \E n \in 1..Len(Accepted) : /\ wire' = wire \o SubSeq(Accepted, 1, n)
                                           /\ Accepted' = SubSeq(Accepted, n + 1, Len(Accepted))
      BY <3>1 DEF Accepted, Channel!Next, Channel!Transmit
    <3>. QED
      BY <2>2, <2>3, <3>1, PostSendTransmits
  <2>4. ASSUME NEW t \in Threads, SendFailed(t)
        PROVE  [Channel!Next]_Channel!vars
    <3>1. CASE /\ wire' = wire
               /\ \E n \in 1..Len(Accepted) : Accepted' = SubSeq(Accepted, n + 1, Len(Accepted))
      BY <3>1 DEF Accepted, Channel!Next, Channel!Lose
    <3>. QED
      BY <2>2, <2>4, <3>1, SendFailedLoses
  <2>5. ASSUME NEW t \in Threads, Drain(t)
        PROVE  [Channel!Next]_Channel!vars
    BY <2>2, <2>5, DrainAccepts
  <2>. QED
    BY <2>1, <2>2, <2>3, <2>4, <2>5, OthersStutter
<1>. QED
  BY <1>1, <1>2, Invariance, PTL DEF Spec, SendsInOrder, Channel!Spec
=============================================================================
