---------------------------- MODULE RestoreProofs ----------------------------
(***************************************************************************)
(* Theorem about a restore from a snapshot, for every program of admitted  *)
(* commands, any number of channels and any disturbances: the document is  *)
(* the one that was read, and what it says of a channel is programmed      *)
(* before the channel is switched on.                                      *)
(***************************************************************************)
EXTENDS CommandsProofs

-----------------------------------------------------------------------------
(* A command that goes well                                                *)

\* Nothing was raised.
Smooth == pending = "none" /\ failed = FALSE

\* While nothing is raised the calls are made one after the other.
LEMMA SmoothMove ==
  ASSUME Sound, Running, Proceed, Smooth, script' = script
  PROVE  /\ at' \in at + 1..Len(script) /\ rest' = Onward(script, at')
         /\ \A j \in at + 2..at' : script[j].kind \in Skipped
<1>1. /\ Len(script) \in Nat /\ at \in 0..Len(script)
      /\ \A j \in 1..Len(script) : script[j] \in Entries(command)
  <2>1. script \in Seq(Entries(command))
    BY TheCommand DEF Sound
  <2> QED
    BY <2>1, Whereabouts, ItsElements
<1>2. rest' = From(LaterCalls(FALSE), pending, failed)
  BY DEF Proceed, LaterCalls
<1>3. PICK m \in at + 1..Len(script) :
        /\ From(LaterCalls(FALSE), pending, failed) = Onward(script, m)
        /\ \A j \in at + 2..Len(script) :
             Reached(FALSE, j) /\ j <= m /\ pending = "none" /\ failed = FALSE => script[j].kind \in Skipped
  <2>1. FALSE \in BOOLEAN
    OBVIOUS
  <2>2. \E m \in at + 1..Len(script) :
           /\ From(LaterCalls(FALSE), pending, failed) = Onward(script, m)
           /\ \A j \in at + 2..Len(script) :
                /\ Reached(FALSE, j) /\ script[j].kind \in Always /\ (\A i \in at + 2..j : script[i].kind # "plain")
                     => m < j
                /\ Reached(FALSE, j) /\ j <= m /\ m < Len(script) => script[j].kind # "plain"
                /\ Reached(FALSE, j) /\ j <= m /\ pending = "none" /\ failed = FALSE => script[j].kind \in Skipped
    BY <2>1, CallsMove
  <2> HIDE DEF at
  <2> QED
    BY <2>2
<1> HIDE DEF at
<1>4. m \in 0..Len(script)
  BY <1>1
<1>5. at' = m
  BY <1>2, <1>3, <1>4, ItsPlace
<1>6. \A j \in at + 2..m : script[j].kind \in Skipped
  <2>1. \A j \in at + 2..m : j \in at + 2..Len(script) /\ j <= m
    BY <1>1, <1>3
  <2> QED
    BY <1>3, <2>1 DEF Smooth, Reached
<1> QED
  BY <1>2, <1>3, <1>5, <1>6

\* At the start of the script no call is behind.
LEMMA ScriptStarts ==
  ASSUME Sound, script' = script, rest' = script
  PROVE  at' = 0
<1>1. script \in Seq(Entries(command)) /\ Len(script) \in Nat
  BY TheCommand DEF Sound
<1>2. Onward(script, 0) = script /\ 0 \in 0..Len(script)
  BY <1>1, SubSeqFull DEF Onward
<1> QED
  BY <1>2, ItsPlace

-----------------------------------------------------------------------------
(* The order of a restore                                                  *)

Puts(x, c, k) == x.op = "put" /\ x.ch = c /\ x.key = k
Protections == {"ovp", "ocp", "delay", "start"}
Pair == {"voltage", "current"}

\* Before its q-th call switches an output on, the list L writes back every
\* setting of the channel, the pair after the a-th call, and nothing after it
\* writes the range.
ReadyAt(L, q, a, pair) ==
  /\ a \in 0..q - 1
  /\ \A p \in a + 1..q - 1 : L[p].op # "prepare" /\ L[p].key # "range"
  /\ \A k \in Pair : \E p \in a + 1..q - 1 : Puts(L[p], L[q].ch, k)
  /\ \A k \in Protections : \E p \in 1..q - 1 : Puts(L[p], L[q].ch, k)
  /\ pair => /\ a # 0 /\ L[a].op = "prepare" /\ L[a].key = "document" /\ L[a].ch = L[q].ch
             /\ \E p \in 1..a - 1 : Puts(L[p], L[q].ch, "range")
Ready(L, pair) == \A q \in 1..Len(L) : L[q].op = "onifwas" => \E a \in 0..q - 1 : ReadyAt(L, q, a, pair)

\* So does one list after another.
LEMMA ReadyJoins ==
  ASSUME NEW T, NEW s \in Seq(T), NEW t \in Seq(T), NEW pair, Ready(s, pair), Ready(t, pair)
  PROVE  Ready(s \o t, pair)
<1> DEFINE L == s \o t
           n == Len(s)
<1>1. /\ L \in Seq(T) /\ n \in Nat /\ Len(t) \in Nat /\ Len(L) = n + Len(t)
      /\ (\A i \in 1..n : L[i] = s[i]) /\ \A i \in 1..Len(t) : L[n + i] = t[i]
  BY JoinedAt
<1> HIDE DEF L, n
<1>2. ASSUME NEW q \in 1..n, L[q].op = "onifwas" PROVE \E a \in 0..q - 1 : ReadyAt(L, q, a, pair)
  <2>1. s[q].op = "onifwas" /\ L[q] = s[q]
    BY <1>1, <1>2
  <2>2. PICK a \in 0..q - 1 : ReadyAt(s, q, a, pair)
    BY <2>1 DEF Ready, n
  <2>3. \A p \in 1..q : L[p] = s[p]
    BY <1>1
  <2>4. (\A p \in a + 1..q - 1 : p \in 1..q) /\ (\A p \in 1..q - 1 : p \in 1..q) /\ (a # 0 => a \in 1..q)
        /\ \A p \in 1..a - 1 : p \in 1..q
    OBVIOUS
  <2>5. ReadyAt(L, q, a, pair)
    BY <2>1, <2>2, <2>3, <2>4 DEF ReadyAt
  <2> QED
    BY <2>5
<1>3. ASSUME NEW i \in 1..Len(t), L[n + i].op = "onifwas"
      PROVE  \E a \in 0..(n + i) - 1 : ReadyAt(L, n + i, a, pair)
  <2>1. t[i].op = "onifwas" /\ L[n + i] = t[i]
    BY <1>1, <1>3
  <2>2. PICK a \in 0..i - 1 : ReadyAt(t, i, a, pair)
    BY <2>1 DEF Ready
  <2>3. /\ \A p \in (n + a) + 1..(n + i) - 1 : p - n \in a + 1..i - 1 /\ p - n \in 1..Len(t) /\ n + (p - n) = p
        /\ \A p \in a + 1..i - 1 : n + p \in (n + a) + 1..(n + i) - 1 /\ p \in 1..Len(t)
        /\ \A p \in 1..i - 1 : n + p \in 1..(n + i) - 1 /\ p \in 1..Len(t)
        /\ \A p \in 1..a - 1 : n + p \in 1..(n + a) - 1 /\ p \in 1..Len(t)
        /\ (a # 0 => a \in 1..Len(t) /\ n + a # 0) /\ n + a \in 0..(n + i) - 1
    BY <1>1
  <2>4. \A p \in (n + a) + 1..(n + i) - 1 : L[p] = t[p - n]
    BY <1>1, <2>3
  <2>5. \A p \in (n + a) + 1..(n + i) - 1 : L[p].op # "prepare" /\ L[p].key # "range"
    BY <2>2, <2>3, <2>4 DEF ReadyAt
  <2>6. \A k \in Pair : \E p \in (n + a) + 1..(n + i) - 1 : Puts(L[p], L[n + i].ch, k)
    <3> SUFFICES ASSUME NEW k \in Pair PROVE \E p \in (n + a) + 1..(n + i) - 1 : Puts(L[p], L[n + i].ch, k)
      OBVIOUS
    <3>1. PICK p \in a + 1..i - 1 : Puts(t[p], t[i].ch, k)
      BY <2>2 DEF ReadyAt
    <3> QED
      BY <1>1, <2>1, <2>3, <3>1
  <2>7. \A k \in Protections : \E p \in 1..(n + i) - 1 : Puts(L[p], L[n + i].ch, k)
    <3> SUFFICES ASSUME NEW k \in Protections PROVE \E p \in 1..(n + i) - 1 : Puts(L[p], L[n + i].ch, k)
      OBVIOUS
    <3>1. PICK p \in 1..i - 1 : Puts(t[p], t[i].ch, k)
      BY <2>2 DEF ReadyAt
    <3> QED
      BY <1>1, <2>1, <2>3, <3>1
  <2>8. ASSUME pair
        PROVE  /\ n + a # 0 /\ L[n + a].op = "prepare" /\ L[n + a].key = "document" /\ L[n + a].ch = L[n + i].ch
               /\ \E p \in 1..(n + a) - 1 : Puts(L[p], L[n + i].ch, "range")
    <3>1. a # 0 /\ t[a].op = "prepare" /\ t[a].key = "document" /\ t[a].ch = t[i].ch
      BY <2>2, <2>8 DEF ReadyAt
    <3>2. PICK p \in 1..a - 1 : Puts(t[p], t[i].ch, "range")
      BY <2>2, <2>8 DEF ReadyAt
    <3> QED
      BY <1>1, <2>1, <2>3, <3>1, <3>2
  <2> QED
    BY <2>3, <2>5, <2>6, <2>7, <2>8 DEF ReadyAt
<1>4. \A q \in 1..Len(L) : q \in 1..n \/ (q - n \in 1..Len(t) /\ n + (q - n) = q)
  BY <1>1
<1>5. Ready(L, pair)
  <2> SUFFICES ASSUME NEW q \in 1..Len(L), L[q].op = "onifwas" PROVE \E a \in 0..q - 1 : ReadyAt(L, q, a, pair)
    BY DEF Ready
  <2>1. CASE q \in 1..n
    BY <1>2, <2>1
  <2>2. CASE q \notin 1..n
    <3> DEFINE i == q - n
    <3>1. i \in 1..Len(t) /\ n + i = q
      BY <1>4, <2>2
    <3> HIDE DEF i
    <3> QED
      BY <1>3, <3>1
  <2> QED
    BY <2>1, <2>2
<1> QED
  BY <1>5 DEF L

\* Three lists: one that puts back a channel's protections and range and
\* prepares its pair, one that writes the pair, and one that switches it on.
PartsReady(x, y, b, c, pair) ==
  /\ \A i \in 1..Len(x) : x[i].op # "onifwas"
  /\ \A i \in 1..Len(y) : y[i].op \notin {"onifwas", "prepare"} /\ y[i].key # "range"
  /\ \A k \in Protections : \E i \in 1..Len(x) : Puts(x[i], c, k)
  /\ \A k \in Pair : \E i \in 1..Len(y) : Puts(y[i], c, k)
  /\ pair => /\ Len(x) # 0 /\ x[Len(x)].op = "prepare" /\ x[Len(x)].key = "document" /\ x[Len(x)].ch = c
             /\ \E i \in 1..Len(x) - 1 : Puts(x[i], c, "range")
  /\ \A i \in 1..Len(b) : /\ b[i].op # "prepare" /\ b[i].key # "range"
                          /\ b[i].op = "onifwas" => b[i].ch = c

\* Together they are in order.
LEMMA ReadyParts ==
  ASSUME NEW T, NEW x \in Seq(T), NEW y \in Seq(T), NEW b \in Seq(T), NEW c, NEW pair, PartsReady(x, y, b, c, pair)
  PROVE  Ready((x \o y) \o b, pair)
<1> SUFFICES ASSUME \A i \in 1..Len(x) : x[i].op # "onifwas",
                    \A i \in 1..Len(y) : y[i].op \notin {"onifwas", "prepare"} /\ y[i].key # "range",
                    \A k \in Protections : \E i \in 1..Len(x) : Puts(x[i], c, k),
                    \A k \in Pair : \E i \in 1..Len(y) : Puts(y[i], c, k),
                    pair => /\ Len(x) # 0 /\ x[Len(x)].op = "prepare" /\ x[Len(x)].key = "document"
                            /\ x[Len(x)].ch = c /\ \E i \in 1..Len(x) - 1 : Puts(x[i], c, "range"),
                    \A i \in 1..Len(b) : /\ b[i].op # "prepare" /\ b[i].key # "range"
                                         /\ b[i].op = "onifwas" => b[i].ch = c
             PROVE  Ready((x \o y) \o b, pair)
  BY DEF PartsReady
<1> DEFINE z == x \o y
           L == z \o b
           n == Len(x)
           m == Len(y)
<1>1. /\ z \in Seq(T) /\ n \in Nat /\ m \in Nat /\ Len(z) = n + m
      /\ (\A i \in 1..n : z[i] = x[i]) /\ \A i \in 1..m : z[n + i] = y[i]
  BY JoinedAt
<1> HIDE DEF z
<1>2. /\ L \in Seq(T) /\ Len(b) \in Nat /\ Len(L) = Len(z) + Len(b)
      /\ (\A i \in 1..Len(z) : L[i] = z[i]) /\ \A i \in 1..Len(b) : L[Len(z) + i] = b[i]
  <2>1. z \in Seq(T)
    BY <1>1
  <2> QED
    BY <2>1, JoinedAt
<1> HIDE DEF L, n, m
<1>3. \A i \in 1..n : L[i] = x[i] /\ i \in 1..n + m
  BY <1>1, <1>2
<1>4. \A i \in 1..m : L[n + i] = y[i] /\ n + i \in n + 1..n + m
  BY <1>1, <1>2
<1>5. \A p \in n + 1..n + m : L[p].op \notin {"onifwas", "prepare"} /\ L[p].key # "range"
  <2>1. \A p \in n + 1..n + m : p - n \in 1..m /\ n + (p - n) = p
    BY <1>1, Offset
  <2>2. \A p \in n + 1..n + m : L[p] = y[p - n]
    BY <1>4, <2>1
  <2> QED
    BY <2>1, <2>2 DEF m
<1>6. \A p \in (n + m) + 1..(n + m) + Len(b) : /\ L[p].op # "prepare" /\ L[p].key # "range"
                                               /\ L[p].op = "onifwas" => L[p].ch = c
  <2>3. n + m \in Nat /\ Len(b) \in Nat
    BY <1>1, <1>2
  <2>1. \A p \in (n + m) + 1..(n + m) + Len(b) : p - (n + m) \in 1..Len(b) /\ (n + m) + (p - (n + m)) = p
    BY <2>3, Offset
  <2>2. \A p \in (n + m) + 1..(n + m) + Len(b) : L[p] = b[p - (n + m)]
    BY <1>1, <1>2, <2>1
  <2> QED
    BY <2>1, <2>2
<1>7. ASSUME NEW q \in 1..Len(L), L[q].op = "onifwas" PROVE ReadyAt(L, q, n, pair)
  <2>1. q \in (n + m) + 1..(n + m) + Len(b)
    <3>1. q \notin 1..n
      BY <1>3, <1>7 DEF n
    <3>2. q \notin n + 1..n + m
      BY <1>5, <1>7
    <3> QED
      BY <1>1, <1>2, <3>1, <3>2
  <2>2. L[q].ch = c
    <3>1. \A p \in (n + m) + 1..(n + m) + Len(b) : L[p].op = "onifwas" => L[p].ch = c
      BY <1>6
    <3> QED
      BY <1>7, <2>1, <3>1
  <2>3. n \in 0..q - 1 /\ (\A p \in n + 1..q - 1 : p \in n + 1..n + m \/ p \in (n + m) + 1..(n + m) + Len(b))
        /\ (\A p \in n + 1..n + m : p \in n + 1..q - 1) /\ \A p \in 1..n : p \in 1..q - 1
    BY <1>1, <1>2, <2>1
  <2>4. \A p \in n + 1..q - 1 : L[p].op # "prepare" /\ L[p].key # "range"
    <3>1. \A p \in n + 1..n + m : L[p].op # "prepare" /\ L[p].key # "range"
      BY <1>5
    <3>2. \A p \in (n + m) + 1..(n + m) + Len(b) : L[p].op # "prepare" /\ L[p].key # "range"
      BY <1>6
    <3>3. \A p \in n + 1..q - 1 : p \in n + 1..n + m \/ p \in (n + m) + 1..(n + m) + Len(b)
      BY <2>3
    <3> QED
      BY <3>1, <3>2, <3>3
  <2>5. \A k \in Pair : \E p \in n + 1..q - 1 : Puts(L[p], L[q].ch, k)
    <3> SUFFICES ASSUME NEW k \in Pair PROVE \E p \in n + 1..q - 1 : Puts(L[p], c, k)
      BY <2>2
    <3>1. PICK i \in 1..m : Puts(y[i], c, k)
      BY DEF m
    <3> QED
      BY <1>4, <2>3, <3>1
  <2>6. \A k \in Protections : \E p \in 1..q - 1 : Puts(L[p], L[q].ch, k)
    <3> SUFFICES ASSUME NEW k \in Protections PROVE \E p \in 1..q - 1 : Puts(L[p], c, k)
      BY <2>2
    <3>1. PICK i \in 1..n : Puts(x[i], c, k)
      BY DEF n
    <3> QED
      BY <1>3, <2>3, <3>1
  <2>7. ASSUME pair
        PROVE  /\ n # 0 /\ L[n].op = "prepare" /\ L[n].key = "document" /\ L[n].ch = L[q].ch
               /\ \E p \in 1..n - 1 : Puts(L[p], L[q].ch, "range")
    <3>1. n # 0 /\ x[n].op = "prepare" /\ x[n].key = "document" /\ x[n].ch = c
      BY <2>7 DEF n
    <3>2. PICK i \in 1..n - 1 : Puts(x[i], c, "range")
      BY <2>7 DEF n
    <3>3. n \in 1..n /\ i \in 1..n
      BY <1>1, <3>1
    <3>4. L[n] = x[n] /\ L[i] = x[i]
      BY <1>3, <3>3
    <3> QED
      BY <2>2, <3>1, <3>2, <3>4
  <2> QED
    BY <2>3, <2>4, <2>5, <2>6, <2>7 DEF ReadyAt
<1>8. \A q \in 1..Len(L) : L[q].op = "onifwas" => n \in 0..q - 1 /\ ReadyAt(L, q, n, pair)
  BY <1>7 DEF ReadyAt
<1> QED
  BY <1>8 DEF Ready, L, z

\* What a restore calls.
RestoreCalls(cmd) ==
  {k \in Calls(cmd) : /\ k.op \in {"poll", "off", "put", "prepare", "onifwas", "errors"}
                      /\ k.op = "prepare" => k.key = "document"}

\* The five lists of a pair, as written and as parts.
FiveWritten(h, p, r, i, v) == h \o ((((p \o p) \o r) \o i) \o v)
FiveInParts(h, p, r, i, v) == ((h \o (p \o p)) \o r) \o (i \o v)

\* They are the same list.
LEMMA FiveLists ==
  ASSUME NEW U, NEW h \in Seq(U), NEW p \in Seq(U), NEW r \in Seq(U), NEW i \in Seq(U), NEW v \in Seq(U)
  PROVE  FiveWritten(h, p, r, i, v) = FiveInParts(h, p, r, i, v)
<1>1. Joined(p, p) \in Seq(U)
  BY JoinedIn
<1>2. Joined(h, Joined(Joined(Joined(Joined(p, p), r), i), v)) = Joined(Joined(Joined(h, Joined(p, p)), r), Joined(i, v))
  BY <1>1, JoinedIn, JoinedTwice
<1> QED
  BY <1>2 DEF FiveWritten, FiveInParts, Joined

\* Two calls.
LEMMA TwoCalls ==
  ASSUME NEW T, NEW x \in T, NEW y \in T
  PROVE  <<x>> \o <<y>> \in Seq(T) /\ Len(<<x>> \o <<y>>) = 2 /\ (<<x>> \o <<y>>)[1] = x /\ (<<x>> \o <<y>>)[2] = y
<1>1. \A z \in T : <<z>> \in Seq(T) /\ Len(<<z>>) = 1 /\ <<z>>[1] = z
  OBVIOUS
<1>2. <<x>> \in Seq(T) /\ Len(<<x>>) = 1 /\ <<x>>[1] = x
  BY <1>1
<1> DEFINE s == <<x>>
<1> HIDE DEF s
<1>3. s \in Seq(T) /\ Len(s) = 1 /\ s[1] = x
  BY <1>2 DEF s
<1>4. \A z \in T : /\ s \o <<z>> \in Seq(T) /\ Len(s \o <<z>>) = Len(s) + 1
                   /\ (s \o <<z>>)[Len(s) + 1] = z /\ \A i \in 1..Len(s) : (s \o <<z>>)[i] = s[i]
  <2>1. s \in Seq(T)
    BY <1>3
  <2> QED
    BY <2>1, OneMore
<1>5. 1 + 1 = 2 /\ 1 \in 1..1
  OBVIOUS
<1>6. s \o <<y>> \in Seq(T) /\ Len(s \o <<y>>) = 2 /\ (s \o <<y>>)[1] = x /\ (s \o <<y>>)[2] = y
  <2>1. /\ s \o <<y>> \in Seq(T) /\ Len(s \o <<y>>) = Len(s) + 1
        /\ (s \o <<y>>)[Len(s) + 1] = y /\ \A i \in 1..Len(s) : (s \o <<y>>)[i] = s[i]
    BY <1>4
  <2> DEFINE t == s \o <<y>>
  <2> HIDE DEF t
  <2>2. t \in Seq(T) /\ Len(t) = Len(s) + 1 /\ t[Len(s) + 1] = y /\ \A i \in 1..Len(s) : t[i] = s[i]
    BY <2>1 DEF t
  <2>3. t \in Seq(T) /\ Len(t) = 2 /\ t[1] = x /\ t[2] = y
    BY <1>3, <1>5, <2>2
  <2> QED
    BY <2>3 DEF t
<1> QED
  BY <1>6 DEF s

\* A look at the stop request and a setting put back, as records.
PollCall == Rec("poll", 0, "", 0)
PutCall(c, k) == Rec("put", c, k, 0)

\* A list for each protection setting, and what is in it.
LEMMA FourPuts ==
  ASSUME NEW cmd, NEW c \in Nat, NEW T, PollCall \in T,
         \A k \in Protections : PutCall(c, k) \in T
  PROVE  LET E == Each(ProtectionSettings, LAMBDA k : Poll \o Call("put", c, k, 0))
         IN  E \in Seq(T) /\ \A k \in Protections : PutCall(c, k) \in ToSet(E)
<1> DEFINE f == [i \in DOMAIN ProtectionSettings |-> Poll \o Call("put", c, ProtectionSettings[i], 0)]
           E == FlattenSeq(f)
<1>1. /\ DOMAIN ProtectionSettings = 1..4 /\ \A i \in 1..4 : ProtectionSettings[i] \in Protections
      /\ \A k \in Protections : \E i \in 1..4 : ProtectionSettings[i] = k
  <2>1. ProtectionSettings = <<"ovp", "ocp", "delay", "start">>
    BY DEF ProtectionSettings
  <2>2. 1 \in 1..4 /\ 2 \in 1..4 /\ 3 \in 1..4 /\ 4 \in 1..4
    OBVIOUS
  <2> QED
    BY <2>1, <2>2 DEF Protections
<1>2. \A k \in Protections : LET s == Poll \o Call("put", c, k, 0)
                            IN  s \in Seq(T) /\ PutCall(c, k) \in ToSet(s) /\ s \in Seq(ToSet(s))
  <2> SUFFICES ASSUME NEW k \in Protections
               PROVE  LET s == Poll \o Call("put", c, k, 0)
                      IN  s \in Seq(T) /\ PutCall(c, k) \in ToSet(s) /\ s \in Seq(ToSet(s))
    OBVIOUS
  <2> DEFINE x == PollCall
             y == PutCall(c, k)
             s == <<x>> \o <<y>>
  <2>1. Poll \o Call("put", c, k, 0) = s
    BY Zenon DEF Poll, On, Call, Rec, PollCall, PutCall
  <2>2. x \in T /\ y \in T
    OBVIOUS
  <2> HIDE DEF x, y
  <2>3. s \in Seq(T) /\ Len(s) = 2 /\ s[2] = y
    BY <2>2, TwoCalls
  <2> HIDE DEF s
  <2>4. s \in Seq(T)
    BY <2>3
  <2>5. s[2] = PutCall(c, k) /\ 2 \in 1..Len(s)
    BY <2>3 DEF y
  <2>6. DOMAIN s = 1..Len(s) /\ s \in Seq(ToSet(s))
    BY <2>4, LenProperties, OwnElements
  <2> QED
    BY <2>1, <2>4, <2>5, <2>6 DEF ToSet
<1>3. f = [i \in 1..4 |-> f[i]] /\ f \in [1..4 -> Seq(T)] /\ \A i \in 1..4 : f[i] \in Seq(ToSet(f[i]))
  BY <1>1, <1>2
<1>4. Len(f) = 4
  BY <1>3, SeqDef, LenProperties
<1>5. \A k \in Protections : \E i \in 1..4 : PutCall(c, k) \in ToSet(f[i])
  <2> SUFFICES ASSUME NEW k \in Protections PROVE \E i \in 1..4 : PutCall(c, k) \in ToSet(f[i])
    OBVIOUS
  <2>1. PICK i \in 1..4 : ProtectionSettings[i] = k
    BY <1>1
  <2>2. f[i] = Poll \o Call("put", c, k, 0)
    BY <1>1, <2>1
  <2>3. PutCall(c, k) \in ToSet(Poll \o Call("put", c, k, 0))
    BY <1>2
  <2> QED
    BY <2>2, <2>3, Zenon
<1> HIDE DEF f
<1>6. E \in Seq(ToSet(E)) /\ ToSet(E) = UNION {ToSet(f[i]) : i \in 1..4}
  BY <1>3, <1>4, FlattenElements
<1>7. E \in Seq(T)
  BY <1>3, FlatList
<1>8. \A k \in Protections : PutCall(c, k) \in ToSet(E)
  BY <1>5, <1>6
<1> QED
  BY <1>7, <1>8 DEF Each, E, f

\* What a list has is at a place of it.
LEMMA FoundAt ==
  ASSUME NEW T, NEW s \in Seq(T)
  PROVE  \A x \in ToSet(s) : \E i \in 1..Len(s) : s[i] = x
BY LenProperties DEF ToSet

\* A list of one call.
LEMMA Single ==
  ASSUME NEW T, NEW x \in T
  PROVE  <<x>> \in Seq(T) /\ ToSet(<<x>>) = {x}
<1>1. <<x>> \in Seq(T) /\ Len(<<x>>) = 1 /\ <<x>>[1] = x /\ DOMAIN <<x>> = {1}
  OBVIOUS
<1> QED
  BY <1>1 DEF ToSet

\* Two lists have what each of them has.
LEMMA JoinSets ==
  ASSUME NEW T, NEW s \in Seq(T), NEW t \in Seq(T)
  PROVE  s \o t \in Seq(T) /\ ToSet(s \o t) = ToSet(s) \cup ToSet(t)
<1>1. s \in Seq(ToSet(s)) /\ t \in Seq(ToSet(t))
  BY OwnElements
<1>2. ToSet(s \o t) = ToSet(s) \cup ToSet(t)
  BY <1>1, JoinElements
<1> QED
  BY <1>2, JoinLists

\* The calls of a restore before the setpoints, with them, and at the end.
Fronts(cmd) == {k \in RestoreCalls(cmd) : k.op # "onifwas"}
Middles(cmd) == {k \in RestoreCalls(cmd) : k.op \notin {"onifwas", "prepare"} /\ k.key # "range"}
Lasts(cmd, c) ==
  {k \in RestoreCalls(cmd) : k.op # "prepare" /\ k.key # "range" /\ (k.op = "onifwas" => k.ch = c)}

\* The calls themselves.
OffCall(c) == Rec("off", c, "", 0)
OnCall(c) == Rec("onifwas", c, "", 0)
PrepareCall(c) == Rec("prepare", c, "document", <<None, None>>)
ErrorsCall == Rec("errors", 0, "", 0)

\* Where a call belongs, by what it consists of.
LEMMA RestoreRecord ==
  ASSUME NEW cmd, NEW op \in Ops, NEW c \in Nat, NEW k \in Keys, NEW v \in Vals(cmd)
  PROVE  /\ op \in {"poll", "off", "put", "errors", "prepare"} /\ (op = "prepare" => k = "document")
              => Rec(op, c, k, v) \in Fronts(cmd)
         /\ op \in {"poll", "put"} /\ k # "range" => Rec(op, c, k, v) \in Middles(cmd)
         /\ op \in {"poll", "onifwas", "errors"} /\ k # "range" => Rec(op, c, k, v) \in Lasts(cmd, c)
         /\ op \in {"poll", "errors"} /\ k # "range" => \A d : Rec(op, c, k, v) \in Lasts(cmd, d)
<1> DEFINE x == Rec(op, c, k, v)
<1>1. x \in Calls(cmd) /\ x.op = op /\ x.ch = c /\ x.key = k
  BY DEF Rec, Calls
<1> HIDE DEF x
<1>2. /\ op \in {"poll", "off", "put", "errors", "prepare"} /\ (op = "prepare" => k = "document") => x \in Fronts(cmd)
      /\ op \in {"poll", "put"} /\ k # "range" => x \in Middles(cmd)
      /\ op \in {"poll", "onifwas", "errors"} /\ k # "range" => x \in Lasts(cmd, c)
      /\ op \in {"poll", "errors"} /\ k # "range" => \A d : x \in Lasts(cmd, d)
  BY <1>1 DEF Fronts, Middles, Lasts, RestoreCalls
<1> QED
  BY <1>2 DEF x

\* Where they belong.
LEMMA RestorePieces ==
  ASSUME NEW cmd, NEW c \in Nat
  PROVE  /\ Poll = <<PollCall>> /\ On("off", c) = <<OffCall(c)>> /\ On("onifwas", c) = <<OnCall(c)>>
         /\ Errors = <<ErrorsCall>> /\ Call("prepare", c, "document", <<None, None>>) = <<PrepareCall(c)>>
         /\ \A k \in Settings : Call("put", c, k, 0) = <<PutCall(c, k)>> /\ PutCall(c, k) \in Fronts(cmd)
         /\ PollCall \in Fronts(cmd) /\ PollCall \in Middles(cmd) /\ PollCall \in Lasts(cmd, c)
         /\ OffCall(c) \in Fronts(cmd) /\ PrepareCall(c) \in Fronts(cmd) /\ OnCall(c) \in Lasts(cmd, c)
         /\ ErrorsCall \in Lasts(cmd, c)
         /\ \A k \in Pair : PutCall(c, k) \in Middles(cmd)
<1>1. {"", "document"} \subseteq Keys /\ Settings \subseteq Keys /\ 0 \in Vals(cmd) /\ <<None, None>> \in Vals(cmd)
      /\ {"poll", "off", "onifwas", "put", "prepare", "errors"} \subseteq Ops
  BY DEF Keys, Vals, Given, Ops
<1>2. /\ Poll = <<PollCall>> /\ On("off", c) = <<OffCall(c)>> /\ On("onifwas", c) = <<OnCall(c)>>
      /\ Errors = <<ErrorsCall>> /\ Call("prepare", c, "document", <<None, None>>) = <<PrepareCall(c)>>
      /\ \A k \in Settings : Call("put", c, k, 0) = <<PutCall(c, k)>>
  BY Zenon DEF Poll, On, Errors, Call, Rec, PollCall, OffCall, OnCall, ErrorsCall, PrepareCall, PutCall
<1>3. PollCall \in Fronts(cmd) /\ PollCall \in Middles(cmd) /\ PollCall \in Lasts(cmd, c)
      /\ OffCall(c) \in Fronts(cmd) /\ PrepareCall(c) \in Fronts(cmd) /\ OnCall(c) \in Lasts(cmd, c)
      /\ ErrorsCall \in Lasts(cmd, c)
  BY <1>1, RestoreRecord DEF PollCall, OffCall, PrepareCall, OnCall, ErrorsCall
<1>4. ASSUME NEW k \in Settings PROVE PutCall(c, k) \in Fronts(cmd) /\ (k \in Pair => PutCall(c, k) \in Middles(cmd))
  BY <1>1, RestoreRecord DEF PutCall, Pair
<1>5. Pair \subseteq Settings
  BY DEF Pair, Settings
<1> QED
  BY <1>2, <1>3, <1>4, <1>5

\* A restore of a channel puts back the protections and the range, prepares
\* the pair, writes it, and switches on.
InThreeParts(cmd, c, list) ==
  \E x \in Seq(Fronts(cmd)), y \in Seq(Middles(cmd)), b \in Seq(Lasts(cmd, c)) :
    /\ list = (x \o y) \o b
    /\ \A k \in Protections : PutCall(c, k) \in ToSet(x)
    /\ \A k \in Pair : PutCall(c, k) \in ToSet(y)
    /\ cmd.model = "pair" =>
         \E u \in Seq(Fronts(cmd)) : x = u \o <<PrepareCall(c)>> /\ PutCall(c, "range") \in ToSet(u)

\* The steps of a channel, from the lists they are made of.
StepsOf(p, o, r, e, m, b) == ((((p \o o) \o r) \o e) \o m) \o b

\* Those of a PSM-2010.
LEMMA PairParts ==
  ASSUME NEW cmd, cmd.model = "pair", NEW c \in Nat, NEW e \in Seq(Fronts(cmd)), NEW b \in Seq(Lasts(cmd, c)),
         \A k \in Protections : PutCall(c, k) \in ToSet(e)
  PROVE  LET p == <<PollCall>>
             r == p \o <<PutCall(c, "range")>>
             m == (((p \o p) \o <<PrepareCall(c)>>) \o <<PutCall(c, "current")>>) \o <<PutCall(c, "voltage")>>
         IN  InThreeParts(cmd, c, StepsOf(p, <<OffCall(c)>>, r, e, m, b))
<1> DEFINE F == Fronts(cmd)
           M == Middles(cmd)
           p == <<PollCall>>
           o == <<OffCall(c)>>
           g == <<PutCall(c, "range")>>
           t == <<PrepareCall(c)>>
           i == <<PutCall(c, "current")>>
           v == <<PutCall(c, "voltage")>>
           r == p \o g
           h == ((p \o o) \o r) \o e
           q == p \o p
           u == h \o q
           x == u \o t
           y == i \o v
           m == ((q \o t) \o i) \o v
<1>1. {"voltage", "current"} = Pair /\ Pair \cup {"range"} \subseteq Settings
  BY DEF Pair, Settings
<1>2. /\ p \in Seq(F) /\ o \in Seq(F) /\ g \in Seq(F) /\ t \in Seq(F) /\ i \in Seq(M) /\ v \in Seq(M)
      /\ i \in Seq(F) /\ v \in Seq(F)
      /\ ToSet(g) = {PutCall(c, "range")} /\ ToSet(i) = {PutCall(c, "current")} /\ ToSet(v) = {PutCall(c, "voltage")}
  <2>1. /\ PollCall \in F /\ OffCall(c) \in F /\ PutCall(c, "range") \in F /\ PrepareCall(c) \in F
        /\ PutCall(c, "current") \in F /\ PutCall(c, "voltage") \in F
        /\ PutCall(c, "current") \in M /\ PutCall(c, "voltage") \in M
    BY <1>1, RestorePieces
  <2> HIDE DEF F, M
  <2> QED
    BY <2>1, Single
<1> HIDE DEF F, M, p, o, g, t, i, v
<1>3. r \in Seq(F) /\ ToSet(g) \subseteq ToSet(r)
  BY <1>2, JoinSets
<1> HIDE DEF r
<1>4. p \o o \in Seq(F)
  BY <1>2, JoinSets
<1> DEFINE w == p \o o
<1> HIDE DEF w
<1>5. w \o r \in Seq(F) /\ ToSet(r) \subseteq ToSet(w \o r)
  <2>1. w \in Seq(F) /\ r \in Seq(F)
    BY <1>3, <1>4 DEF w
  <2> QED
    BY <2>1, JoinSets
<1>6. e \in Seq(F)
  BY DEF F
<1> DEFINE l == w \o r
<1> HIDE DEF l
<1>7. h \in Seq(F) /\ ToSet(h) = ToSet(l) \cup ToSet(e)
  <2>1. l \in Seq(F) /\ e \in Seq(F)
    BY <1>5, <1>6 DEF l
  <2>2. h = l \o e
    BY Zenon DEF l, w
  <2>3. l \o e \in Seq(F) /\ ToSet(l \o e) = ToSet(l) \cup ToSet(e)
    BY <2>1, JoinSets
  <2> QED
    BY <2>2, <2>3, Zenon
<1>8. q \in Seq(F)
  BY <1>2, JoinSets
<1> HIDE DEF h, q
<1>9. u \in Seq(F) /\ ToSet(h) \subseteq ToSet(u)
  BY <1>7, <1>8, JoinSets
<1>10. FiveWritten(h, p, t, i, v) = FiveInParts(h, p, t, i, v)
  BY <1>2, <1>7, FiveLists
<1>11. h \o m = x \o y
  BY <1>10, Zenon DEF FiveWritten, FiveInParts, q
<1> HIDE DEF u
<1>12. x \in Seq(F) /\ ToSet(u) \subseteq ToSet(x)
  BY <1>2, <1>9, JoinSets
<1>13. y \in Seq(M) /\ ToSet(y) = ToSet(i) \cup ToSet(v)
  <2>1. i \in Seq(M) /\ v \in Seq(M)
    BY <1>2
  <2> QED
    BY <2>1, JoinSets
<1>14. PutCall(c, "range") \in ToSet(u)
  BY <1>2, <1>3, <1>5, <1>7, <1>9 DEF l
<1>15. \A k \in Protections : PutCall(c, k) \in ToSet(x)
  BY <1>7, <1>9, <1>12
<1>16. \A k \in Pair : PutCall(c, k) \in ToSet(y)
  BY <1>1, <1>2, <1>13
<1>17. StepsOf(p, o, r, e, m, b) = (x \o y) \o b
  BY <1>11, Zenon DEF StepsOf, h
<1> HIDE DEF x, y, m
<1>18. InThreeParts(cmd, c, StepsOf(p, o, r, e, m, b))
  <2>1. x = u \o t
    BY DEF x
  <2> QED
    BY <1>9, <1>12, <1>13, <1>14, <1>15, <1>16, <1>17, <2>1, Zenon DEF InThreeParts, F, M, t
<1> QED
  BY <1>18, Zenon DEF p, o, r, m, g, t, i, v, q

\* Those of another supply.
LEMMA PlainParts ==
  ASSUME NEW cmd, cmd.model # "pair", NEW c \in Nat, NEW e \in Seq(Fronts(cmd)), NEW b \in Seq(Lasts(cmd, c)),
         \A k \in Protections : PutCall(c, k) \in ToSet(e)
  PROVE  LET p == <<PollCall>>
             m == ((p \o <<PutCall(c, "current")>>) \o p) \o <<PutCall(c, "voltage")>>
         IN  InThreeParts(cmd, c, StepsOf(p, <<OffCall(c)>>, << >>, e, m, b))
<1> DEFINE F == Fronts(cmd)
           M == Middles(cmd)
           p == <<PollCall>>
           o == <<OffCall(c)>>
           i == <<PutCall(c, "current")>>
           v == <<PutCall(c, "voltage")>>
           x == ((p \o o) \o << >>) \o e
           y == ((p \o i) \o p) \o v
<1>1. {"voltage", "current"} = Pair
  BY DEF Pair
<1>2. /\ p \in Seq(F) /\ o \in Seq(F) /\ p \in Seq(M) /\ i \in Seq(M) /\ v \in Seq(M)
      /\ ToSet(i) = {PutCall(c, "current")} /\ ToSet(v) = {PutCall(c, "voltage")}
  <2>1. /\ PollCall \in F /\ OffCall(c) \in F /\ PollCall \in M
        /\ PutCall(c, "current") \in M /\ PutCall(c, "voltage") \in M
    BY <1>1, RestorePieces
  <2> HIDE DEF F, M
  <2> QED
    BY <2>1, Single
<1> HIDE DEF F, M, p, o, i, v
<1>3. (p \o o) \o << >> \in Seq(F) /\ e \in Seq(F)
  <2>1. p \o o \in Seq(F) /\ << >> \in Seq(F)
    BY <1>2, JoinLists
  <2>2. (p \o o) \o << >> \in Seq(F)
    BY <2>1, JoinLists
  <2> QED
    BY <2>2 DEF F
<1> DEFINE w == (p \o o) \o << >>
<1> HIDE DEF w
<1>4. x \in Seq(F) /\ ToSet(e) \subseteq ToSet(x)
  <2>1. w \in Seq(F) /\ e \in Seq(F)
    BY <1>3 DEF w
  <2>2. w \o e \in Seq(F) /\ ToSet(w \o e) = ToSet(w) \cup ToSet(e)
    BY <2>1, JoinSets
  <2>3. x = w \o e
    BY Zenon DEF w
  <2> HIDE DEF x
  <2> QED
    BY <2>2, <2>3
<1>5. p \o i \in Seq(M) /\ ToSet(i) \subseteq ToSet(p \o i)
  BY <1>2, JoinSets
<1> DEFINE j == p \o i
<1> HIDE DEF j
<1>6. j \o p \in Seq(M) /\ ToSet(j) \subseteq ToSet(j \o p)
  <2>1. j \in Seq(M) /\ p \in Seq(M)
    BY <1>2, <1>5 DEF j
  <2> QED
    BY <2>1, JoinSets
<1> DEFINE l == j \o p
<1> HIDE DEF l
<1>7. y \in Seq(M) /\ ToSet(y) = ToSet(l) \cup ToSet(v)
  <2>1. l \in Seq(M) /\ v \in Seq(M)
    BY <1>2, <1>6 DEF l
  <2>2. l \o v \in Seq(M) /\ ToSet(l \o v) = ToSet(l) \cup ToSet(v)
    BY <2>1, JoinSets
  <2>3. y = l \o v
    BY Zenon DEF l, j
  <2> QED
    BY <2>2, <2>3, Zenon
<1>8. \A k \in Pair : PutCall(c, k) \in ToSet(y)
  BY <1>1, <1>2, <1>5, <1>6, <1>7 DEF j, l
<1>9. \A k \in Protections : PutCall(c, k) \in ToSet(x)
  BY <1>4
<1>10. StepsOf(p, o, << >>, e, y, b) = (x \o y) \o b
  BY Zenon DEF StepsOf
<1> HIDE DEF x, y
<1>11. InThreeParts(cmd, c, StepsOf(p, o, << >>, e, y, b))
  BY <1>4, <1>7, <1>8, <1>9, <1>10, Zenon DEF InThreeParts, F, M
<1> QED
  BY <1>11, Zenon DEF p, o, i, v, y

\* The steps of a channel are such a list.
LEMMA RestoreParts ==
  ASSUME NEW cmd, NEW c \in Nat
  PROVE  InThreeParts(cmd, c, RestoreSteps(cmd, c))
<1> DEFINE e == Each(ProtectionSettings, LAMBDA k : Poll \o Call("put", c, k, 0))
           b == When(Has(cmd, "on"), Poll \o On("onifwas", c))
           p == <<PollCall>>
<1>1. Pair \cup {"range"} \cup Protections \subseteq Settings /\ {"voltage", "current"} \subseteq Pair
  BY DEF Pair, Protections, Settings
<1>2. e \in Seq(Fronts(cmd)) /\ \A k \in Protections : PutCall(c, k) \in ToSet(e)
  <2>1. PollCall \in Fronts(cmd) /\ \A k \in Protections : PutCall(c, k) \in Fronts(cmd)
    BY <1>1, RestorePieces
  <2> QED
    BY <2>1, FourPuts
<1> HIDE DEF e
<1>3. b \in Seq(Lasts(cmd, c))
  <2>1. Poll \in Seq(Lasts(cmd, c)) /\ On("onifwas", c) \in Seq(Lasts(cmd, c))
    <3>1. Poll = <<PollCall>> /\ On("onifwas", c) = <<OnCall(c)>> /\ PollCall \in Lasts(cmd, c) /\ OnCall(c) \in Lasts(cmd, c)
      BY RestorePieces
    <3> QED
      BY <3>1, Single
  <2>2. Poll \o On("onifwas", c) \in Seq(Lasts(cmd, c))
    BY <2>1, JoinLists
  <2> QED
    BY <2>2, WhenList
<1> HIDE DEF b
<1>4. /\ Poll = p /\ On("off", c) = <<OffCall(c)>>
      /\ Call("prepare", c, "document", <<None, None>>) = <<PrepareCall(c)>>
      /\ Call("put", c, "range", 0) = <<PutCall(c, "range")>>
      /\ Call("put", c, "current", 0) = <<PutCall(c, "current")>>
      /\ Call("put", c, "voltage", 0) = <<PutCall(c, "voltage")>>
  BY <1>1, RestorePieces
<1>5. CASE cmd.model = "pair"
  <2> DEFINE r == p \o <<PutCall(c, "range")>>
             m == (((p \o p) \o <<PrepareCall(c)>>) \o <<PutCall(c, "current")>>) \o <<PutCall(c, "voltage")>>
  <2>1. InThreeParts(cmd, c, StepsOf(p, <<OffCall(c)>>, r, e, m, b))
    BY <1>2, <1>3, <1>5, PairParts
  <2>2. RestoreSteps(cmd, c) = StepsOf(p, <<OffCall(c)>>, r, e, m, b)
    BY <1>4, <1>5, Zenon DEF RestoreSteps, StepsOf, When, e, b
  <2> QED
    BY <2>1, <2>2, Zenon
<1>6. CASE cmd.model # "pair"
  <2> DEFINE m == ((p \o <<PutCall(c, "current")>>) \o p) \o <<PutCall(c, "voltage")>>
  <2>1. InThreeParts(cmd, c, StepsOf(p, <<OffCall(c)>>, << >>, e, m, b))
    BY <1>2, <1>3, <1>6, PlainParts
  <2>2. RestoreSteps(cmd, c) = StepsOf(p, <<OffCall(c)>>, << >>, e, m, b)
    BY <1>4, <1>6, Zenon DEF RestoreSteps, StepsOf, When, e, b
  <2> QED
    BY <2>1, <2>2, Zenon
<1> QED
  BY <1>5, <1>6

\* A list of such parts has everything written back before it switches on.
LEMMA RestoreReady ==
  ASSUME NEW cmd, NEW c \in Nat, NEW list, InThreeParts(cmd, c, list)
  PROVE  list \in Seq(RestoreCalls(cmd)) /\ Ready(list, cmd.model = "pair")
<1> DEFINE T == RestoreCalls(cmd)
           pair == cmd.model = "pair"
<1>1. PICK x \in Seq(Fronts(cmd)), y \in Seq(Middles(cmd)), b \in Seq(Lasts(cmd, c)) :
        /\ list = (x \o y) \o b
        /\ \A k \in Protections : PutCall(c, k) \in ToSet(x)
        /\ \A k \in Pair : PutCall(c, k) \in ToSet(y)
        /\ cmd.model = "pair" =>
             \E u \in Seq(Fronts(cmd)) : x = u \o <<PrepareCall(c)>> /\ PutCall(c, "range") \in ToSet(u)
  BY DEF InThreeParts
<1>2. x \in Seq(T) /\ y \in Seq(T) /\ b \in Seq(T)
  <2>1. Fronts(cmd) \subseteq T /\ Middles(cmd) \subseteq T /\ Lasts(cmd, c) \subseteq T
    BY DEF Fronts, Middles, Lasts
  <2> HIDE DEF T
  <2> QED
    BY <2>1
<1>3. \A i \in 1..Len(x) : x[i].op # "onifwas"
  <2>1. \A i \in 1..Len(x) : x[i] \in Fronts(cmd)
    BY ItsElements
  <2> QED
    BY <2>1 DEF Fronts
<1>4. \A i \in 1..Len(y) : y[i].op \notin {"onifwas", "prepare"} /\ y[i].key # "range"
  <2>1. \A i \in 1..Len(y) : y[i] \in Middles(cmd)
    BY ItsElements
  <2> QED
    BY <2>1 DEF Middles
<1>5. \A i \in 1..Len(b) : /\ b[i].op # "prepare" /\ b[i].key # "range"
                           /\ b[i].op = "onifwas" => b[i].ch = c
  <2>1. \A i \in 1..Len(b) : b[i] \in Lasts(cmd, c)
    BY ItsElements
  <2> QED
    BY <2>1 DEF Lasts
<1>6. \A k : Puts(PutCall(c, k), c, k)
  BY ItsParts DEF Puts, PutCall
<1>7. \A k \in Protections : \E i \in 1..Len(x) : Puts(x[i], c, k)
  <2> SUFFICES ASSUME NEW k \in Protections PROVE \E i \in 1..Len(x) : Puts(x[i], c, k)
    OBVIOUS
  <2>1. PICK i \in 1..Len(x) : x[i] = PutCall(c, k)
    BY <1>1, FoundAt
  <2> QED
    BY <1>6, <2>1
<1>8. \A k \in Pair : \E i \in 1..Len(y) : Puts(y[i], c, k)
  <2> SUFFICES ASSUME NEW k \in Pair PROVE \E i \in 1..Len(y) : Puts(y[i], c, k)
    OBVIOUS
  <2>1. PICK i \in 1..Len(y) : y[i] = PutCall(c, k)
    BY <1>1, FoundAt
  <2> QED
    BY <1>6, <2>1
<1>9. ASSUME pair
      PROVE  /\ Len(x) # 0 /\ x[Len(x)].op = "prepare" /\ x[Len(x)].key = "document" /\ x[Len(x)].ch = c
             /\ \E i \in 1..Len(x) - 1 : Puts(x[i], c, "range")
  <2>1. PICK u \in Seq(Fronts(cmd)) : x = u \o <<PrepareCall(c)>> /\ PutCall(c, "range") \in ToSet(u)
    BY <1>1, <1>9
  <2>2. PrepareCall(c) \in Fronts(cmd)
    BY RestorePieces
  <2> DEFINE t == PrepareCall(c)
  <2> HIDE DEF t
  <2>3. t \in Fronts(cmd) /\ x = u \o <<t>>
    BY <2>1, <2>2 DEF t
  <2>4. Len(u) \in Nat /\ Len(x) = Len(u) + 1 /\ x[Len(u) + 1] = t /\ \A i \in 1..Len(u) : x[i] = u[i]
    BY <2>3, OneMore
  <2>5. t.op = "prepare" /\ t.key = "document" /\ t.ch = c
    BY ItsParts DEF t, PrepareCall
  <2>6. PICK i \in 1..Len(u) : u[i] = PutCall(c, "range")
    BY <2>1, FoundAt
  <2>7. i \in 1..Len(x) - 1 /\ Puts(x[i], c, "range")
    BY <1>6, <2>4, <2>6
  <2> QED
    BY <2>4, <2>5, <2>7
<1> HIDE DEF T, pair
<1>10. Ready((x \o y) \o b, pair)
  <2>1. x \in Seq(T) /\ y \in Seq(T) /\ b \in Seq(T)
    BY <1>2
  <2>2. PartsReady(x, y, b, c, pair)
    BY <1>3, <1>4, <1>5, <1>7, <1>8, <1>9 DEF PartsReady
  <2> QED
    BY <2>1, <2>2, ReadyParts
<1>11. (x \o y) \o b \in Seq(T)
  <2>1. x \o y \in Seq(T)
    BY <1>2, JoinLists
  <2> QED
    BY <1>2, <2>1, JoinLists
<1> QED
  BY <1>1, <1>10, <1>11 DEF T, pair

\* The calls of a script.
ItsCalls(s) == [i \in 1..Len(s) |-> s[i].call]

\* A restore is one plain block, whose calls are in that order.
LEMMA RestoreScript ==
  ASSUME NEW cmd \in Commands, cmd.name = "restore-from-snapshot"
  PROVE  LET s == ScriptOf[cmd]
         IN  /\ Len(s) \in Nat /\ \A p \in 1..Len(s) : s[p].kind = "plain" /\ s[p].call \in RestoreCalls(cmd)
             /\ Ready(ItsCalls(s), cmd.model = "pair")
<1> DEFINE s == ScriptOf[cmd]
           T == RestoreCalls(cmd)
           n == Len(cmd.channels)
           f == [i \in DOMAIN cmd.channels |-> RestoreSteps(cmd, cmd.channels[i])]
           pair == cmd.model = "pair"
           P == {L \in Seq(T) : Ready(L, pair)}
           L == FlattenSeq(f) \o Errors
           B == BlocksOf(cmd)
           e == Ends(B)
<1>1. n \in Nat /\ DOMAIN cmd.channels = 1..n /\ \A i \in 1..n : cmd.channels[i] \in Nat
  BY CommandFacts
<1>2. << >> \in P /\ \A x, y \in P : x \o y \in P
  <2>1. << >> \in Seq(T) /\ Ready(<< >>, pair)
    BY EmptySeq DEF Ready
  <2>2. ASSUME NEW x \in P, NEW y \in P PROVE x \o y \in P
    <3>1. x \in Seq(T) /\ y \in Seq(T) /\ Ready(x, pair) /\ Ready(y, pair)
      OBVIOUS
    <3> HIDE DEF T, pair
    <3>2. x \o y \in Seq(T) /\ Ready(x \o y, pair)
      BY <3>1, JoinLists, ReadyJoins
    <3> QED
      BY <3>2
  <2> QED
    BY <2>1, <2>2
<1>3. \A i \in 1..n : f[i] \in P
  <2> SUFFICES ASSUME NEW i \in 1..n PROVE f[i] \in P
    OBVIOUS
  <2>1. f[i] = RestoreSteps(cmd, cmd.channels[i]) /\ cmd.channels[i] \in Nat
    BY <1>1
  <2>2. RestoreSteps(cmd, cmd.channels[i]) \in P
    BY <2>1, RestoreParts, RestoreReady
  <2> QED
    BY <2>1, <2>2, Zenon
<1>4. f = [i \in 1..n |-> f[i]] /\ Len(f) = n
  <2>1. f = [i \in 1..n |-> f[i]]
    BY <1>1
  <2> HIDE DEF f
  <2>2. f \in Seq({f[i] : i \in 1..n})
    <3>1. f \in [1..n -> {f[i] : i \in 1..n}]
      BY <2>1
    <3> QED
      BY <1>1, <3>1, SeqDef
  <2>3. DOMAIN f = 1..n
    BY <2>1
  <2>4. Len(f) \in Nat /\ DOMAIN f = 1..Len(f)
    BY <2>2, LenProperties
  <2>5. Len(f) = n
    BY <1>1, <2>3, <2>4
  <2> QED
    BY <2>1, <2>5
<1>5. FlattenSeq(f) \in P
  <2> HIDE DEF P, f, n
  <2> QED
    BY <1>1, <1>2, <1>3, <1>4, FlattenClosed
<1>6. Errors \in P
  <2>1. ErrorsCall \in Lasts(cmd, 0) /\ Errors = <<ErrorsCall>>
    BY RestorePieces
  <2>2. ErrorsCall \in T /\ ErrorsCall.op = "errors"
    <3>1. ErrorsCall \in T
      BY <2>1 DEF Lasts
    <3>2. ErrorsCall.op = "errors"
      <4>1. ErrorsCall = Bare("errors", 0)
        BY Zenon DEF ErrorsCall, Bare
      <4>2. \A op, c : Bare(op, c).op = op
        BY BareParts
      <4> QED
        BY <4>1, <4>2, Zenon
    <3> QED
      BY <3>1, <3>2
  <2> DEFINE y == ErrorsCall
  <2> HIDE DEF y, T
  <2>3. <<y>> \in Seq(T) /\ \A q \in 1..Len(<<y>>) : <<y>>[q] = y
    <3>1. y \in T
      BY <2>2 DEF y
    <3> QED
      BY <3>1
  <2>4. y.op = "errors"
    BY <2>2 DEF y
  <2>5. Ready(<<y>>, pair)
    BY <2>3, <2>4 DEF Ready
  <2>6. <<y>> \in P
    BY <2>3, <2>5
  <2> HIDE DEF P
  <2> QED
    BY <2>1, <2>6 DEF y
<1>7. L \in Seq(T) /\ Ready(L, pair)
  <2>1. L \in P
    BY <1>2, <1>5, <1>6
  <2> QED
    BY <2>1
<1>8. B = <<[kind |-> "plain", calls |-> L]>>
  <2>1. B = RestoreFromSnapshot(cmd)
    BY DEF BlocksOf
  <2> QED
    BY <2>1, Zenon DEF RestoreFromSnapshot, Plain, Block, Each
<1> HIDE DEF L, f
<1>9. Len(B) = 1 /\ B[1].calls = L /\ B[1].kind = "plain"
  BY <1>8
<1>10. /\ Len(s) \in Nat /\ e[0] = 0 /\ Len(L) \in Nat
       /\ \A i \in 1..Len(L) : i \in 1..Len(s) /\ s[i].call = L[i] /\ s[i].kind = "plain"
       /\ \A p \in 1..Len(s) : p \in 1..Len(L)
  <2>1. /\ e[0] = 0 /\ Len(s) \in Nat
        /\ \A b \in 1..Len(B) : \A i \in 1..Len(B[b].calls) :
              /\ e[b - 1] + i \in 1..Len(s) /\ s[e[b - 1] + i].call = B[b].calls[i]
              /\ s[e[b - 1] + i].kind = B[b].kind /\ s[e[b - 1] + i].block = b
        /\ \A p \in 1..Len(s) : \E b \in 1..Len(B) : \E i \in 1..Len(B[b].calls) : p = e[b - 1] + i
    BY CommandPlaces
  <2> HIDE DEF B, e, s, T
  <2>2. Len(L) \in Nat
    BY <1>7, LenProperties
  <2>3. 1 - 1 = 0 /\ 1..1 = {1} /\ \A i \in 1..Len(L) : 0 + i = i
    BY <2>2
  <2>4. \A i \in 1..Len(L) : /\ e[0] + i \in 1..Len(s) /\ s[e[0] + i].call = L[i] /\ s[e[0] + i].kind = "plain"
    BY <1>9, <2>1, <2>3
  <2>5. \A p \in 1..Len(s) : \E i \in 1..Len(L) : p = e[0] + i
    BY <1>9, <2>1, <2>3
  <2>6. \A p \in 1..Len(s) : p \in 1..Len(L)
    BY <2>1, <2>3, <2>5
  <2> QED
    BY <2>1, <2>2, <2>3, <2>4, <2>6
<1> HIDE DEF s, B, e, T, pair
<1>11. Len(s) = Len(L)
  BY <1>10
<1>12. L = [i \in 1..Len(L) |-> L[i]] /\ \A i \in 1..Len(L) : L[i] \in T
  BY <1>7, LenProperties
<1>13. ItsCalls(s) = L
  BY <1>10, <1>11, <1>12 DEF ItsCalls
<1>14. \A p \in 1..Len(s) : s[p].kind = "plain" /\ s[p].call \in T
  BY <1>10, <1>12
<1> QED
  BY <1>7, <1>10, <1>13, <1>14 DEF s, T, pair

\* What a snapshot calls.
LEMMA SnapshotScript ==
  ASSUME NEW cmd \in Commands, cmd.name = "snapshot", NEW p \in 1..Len(ScriptOf[cmd])
  PROVE  ScriptOf[cmd][p].call \in Noting(cmd)
<1> DEFINE B == BlocksOf(cmd)
           e == Ends(B)
           s == ScriptOf[cmd]
<1>1. /\ \A b \in 1..Len(B) : \A i \in 1..Len(B[b].calls) : s[e[b - 1] + i].call = B[b].calls[i]
      /\ \A q \in 1..Len(s) : \E b \in 1..Len(B) : \E i \in 1..Len(B[b].calls) : q = e[b - 1] + i
  BY CommandPlaces
<1>2. B = Snapshot(cmd)
  BY DEF BlocksOf
<1>3. B \in Seq(NotingBlocks(cmd))
  BY <1>2, SnapshotNotes
<1> HIDE DEF B, e, s
<1>4. PICK b \in 1..Len(B) : \E i \in 1..Len(B[b].calls) : p = e[b - 1] + i
  BY <1>1 DEF s
<1>5. PICK i \in 1..Len(B[b].calls) : p = e[b - 1] + i
  BY <1>4
<1>6. B[b] \in NotingBlocks(cmd)
  BY <1>3, ItsElements
<1>7. B[b].calls \in Seq(Noting(cmd))
  BY <1>6 DEF NotingBlocks, NotingLists
<1>8. B[b].calls[i] \in Noting(cmd)
  BY <1>7, ItsElements
<1>9. s[p].call = B[b].calls[i]
  BY <1>1, <1>5
<1> QED
  BY <1>8, <1>9 DEF s

-----------------------------------------------------------------------------
(* The range of a pair                                                     *)

\* The setpoints fit the range.
Fits(range, f) == \A k \in Pair : ~Beyond(range, k, f[k])
PairFits(s) ==
  s.model = "pair" => \A c \in DOMAIN s.on : s.set[c].range \in {1, 2} /\ Fits(s.set[c].range, s.set[c])

\* A write keeps them so, and writes what fits.
LEMMA WriteFits ==
  ASSUME NEW s, Shape(s), PairFits(s), s.model = "pair", NEW c \in DOMAIN s.on, NEW key, NEW v,
         key = "range" => v \in {1, 2}
  PROVE  LET t == WriteSetting(s, c, key, v)
         IN  /\ PairFits(t)
             /\ key # "range" => t.set[c].range = s.set[c].range
             /\ \A k \in Settings \ {key} : (key = "range" => k \notin Pair) => t.set[c][k] = s.set[c][k]
             /\ key \in Settings /\ ~Beyond(s.set[c].range, key, v) => t.set[c][key] = v
<1> DEFINE t == WriteSetting(s, c, key, v)
           g == [k \in Settings |->
                   IF k = key THEN v ELSE IF key = "range" /\ Beyond(v, k, s.set[c][k]) THEN 1 ELSE s.set[c][k]]
<1>1. s.set[c].range \in {1, 2} /\ Fits(s.set[c].range, s.set[c]) /\ c \in DOMAIN s.set /\ DOMAIN s.set[c] = Settings
  BY DEF PairFits, Shape
<1>2. "range" \in Settings /\ Pair \subseteq Settings /\ "range" \notin Pair
  BY DEF Settings, Pair
<1>3. CASE Beyond(s.set[c].range, key, v)
  <2>1. t.set = s.set /\ t.on = s.on /\ t.model = s.model
    BY <1>3 DEF WriteSetting, Shape, Parts
  <2> HIDE DEF t
  <2>9. /\ PairFits(t)
        /\ key # "range" => t.set[c].range = s.set[c].range
        /\ \A k \in Settings \ {key} : (key = "range" => k \notin Pair) => t.set[c][k] = s.set[c][k]
        /\ key \in Settings /\ ~Beyond(s.set[c].range, key, v) => t.set[c][key] = v
    BY <1>3, <2>1 DEF PairFits
  <2> QED
    BY <2>9 DEF t
<1>4. CASE ~Beyond(s.set[c].range, key, v)
  <2>1. t.set = [s.set EXCEPT ![c] = g] /\ t.on = s.on /\ t.model = s.model
    <3>1. t = [s EXCEPT !.set[c] = g]
      BY <1>4 DEF WriteSetting
    <3> HIDE DEF t, g
    <3> QED
      BY <3>1 DEF Shape, Parts
  <2>2. t.set[c] = g /\ \A d \in DOMAIN s.on : d # c => t.set[d] = s.set[d]
    <3> HIDE DEF t, g
    <3> QED
      BY <1>1, <2>1 DEF Shape
  <2>3. (key \in Settings => g[key] = v) /\ (key # "range" => g["range"] = s.set[c].range)
        /\ \A k \in Settings \ {key} : (key = "range" => k \notin Pair) => g[k] = s.set[c][k]
    BY <1>1, <1>2 DEF Beyond, Pair
  <2>4. g["range"] \in {1, 2} /\ Fits(g["range"], g)
    <3>1. CASE key = "range"
      <4>1. g["range"] = v /\ \A k \in Pair : g[k] = IF Beyond(v, k, s.set[c][k]) THEN 1 ELSE s.set[c][k]
        BY <1>2, <3>1
      <4>2. \A k \in Pair : ~Beyond(v, k, g[k])
        BY <4>1 DEF Beyond
      <4> QED
        BY <3>1, <4>1, <4>2 DEF Fits
    <3>2. CASE key # "range"
      <4>1. g["range"] = s.set[c].range /\ \A k \in Pair : g[k] = IF k = key THEN v ELSE s.set[c][k]
        BY <1>2, <3>2
      <4> HIDE DEF g
      <4> QED
        BY <1>1, <1>4, <4>1 DEF Fits
    <3> QED
      BY <3>1, <3>2
  <2> HIDE DEF t, g
  <2>5. PairFits(t)
    BY <2>1, <2>2, <2>4 DEF PairFits
  <2>9. /\ PairFits(t)
        /\ key # "range" => t.set[c].range = s.set[c].range
        /\ \A k \in Settings \ {key} : (key = "range" => k \notin Pair) => t.set[c][k] = s.set[c][k]
        /\ key \in Settings /\ ~Beyond(s.set[c].range, key, v) => t.set[c][key] = v
    BY <2>2, <2>3, <2>5
  <2> QED
    BY <2>9 DEF t
<1> QED
  BY <1>3, <1>4

\* A preparation too, and then the pair fits; it does nothing when it fitted.
LEMMA PrepareFits ==
  ASSUME NEW s, Shape(s), PairFits(s), s.model = "pair", NEW c \in DOMAIN s.on, NEW v, NEW i, ~PairRefused(s, c, v, i)
  PROVE  LET t == PrepareOutputPair(s, c, v, i)
         IN  /\ PairFits(t)
             /\ \A k \in Settings \ (Pair \cup {"range"}) : t.set[c][k] = s.set[c][k]
             /\ ~Beyond(t.set[c].range, "voltage", v) /\ ~Beyond(t.set[c].range, "current", i)
             /\ ~Beyond(s.set[c].range, "voltage", v) /\ ~Beyond(s.set[c].range, "current", i) => t = s
<1> DEFINE ranges == CompatibleRanges(v, i)
           t == PrepareOutputPair(s, c, v, i)
<1>1. ranges \subseteq {1, 2} /\ ranges # {}
      /\ \A r \in {1, 2} : r \in ranges <=> ~Beyond(r, "voltage", v) /\ ~Beyond(r, "current", i)
  BY DEF CompatibleRanges, PairRefused, Beyond
<1>2. s.set[c].range \in {1, 2}
  BY DEF PairFits
<1>3. CASE s.set[c].range \in ranges
  <2>1. t = s
    BY <1>3 DEF PrepareOutputPair
  <2> HIDE DEF ranges, t
  <2>9. /\ PairFits(t)
        /\ \A k \in Settings \ (Pair \cup {"range"}) : t.set[c][k] = s.set[c][k]
        /\ ~Beyond(t.set[c].range, "voltage", v) /\ ~Beyond(t.set[c].range, "current", i)
        /\ ~Beyond(s.set[c].range, "voltage", v) /\ ~Beyond(s.set[c].range, "current", i) => t = s
    BY <1>1, <1>2, <1>3, <2>1
  <2> QED
    BY <2>9 DEF t
<1>4. CASE s.set[c].range \notin ranges
  <2> DEFINE m == Min(ranges)
  <2>1. m \in ranges
    <3>1. PICK x \in ranges : \A y \in ranges : x <= y
      BY <1>1
    <3>2. ranges \subseteq Nat
      BY <1>1
    <3> HIDE DEF ranges
    <3> QED
      BY <3>1, <3>2, LeastIsMin
  <2>2. t = WriteSetting(s, c, "range", m)
    BY <1>4 DEF PrepareOutputPair
  <2> HIDE DEF m, ranges, t
  <2>3. m \in {1, 2} /\ "range" \in Settings /\ ~Beyond(s.set[c].range, "range", m)
    BY <1>1, <2>1 DEF Settings, Beyond
  <2>4. /\ PairFits(t) /\ t.set[c].range = m
        /\ \A k \in Settings \ {"range"} : k \notin Pair => t.set[c][k] = s.set[c][k]
    BY <2>2, <2>3, WriteFits
  <2>9. /\ PairFits(t)
        /\ \A k \in Settings \ (Pair \cup {"range"}) : t.set[c][k] = s.set[c][k]
        /\ ~Beyond(t.set[c].range, "voltage", v) /\ ~Beyond(t.set[c].range, "current", i)
        /\ ~Beyond(s.set[c].range, "voltage", v) /\ ~Beyond(s.set[c].range, "current", i) => t = s
    BY <1>1, <1>2, <1>4, <2>1, <2>3, <2>4
  <2> QED
    BY <2>9 DEF t
<1> QED
  BY <1>3, <1>4

\* A document: for each channel its switch and its settings; only a PSM-2010
\* has a range, which the setpoints next to it fit.
IsDocument(d, model) ==
  /\ DOMAIN d = ChannelsOf(model)
  /\ \A c \in DOMAIN d :
       /\ DOMAIN d[c].set = Settings
       /\ IF model = "pair"
          THEN d[c].set["range"] # None => d[c].set["range"] \in {1, 2} /\ Fits(d[c].set["range"], d[c].set)
          ELSE d[c].set["range"] = None

\* A draft: what was noted is what is programmed.
IsDraft ==
  /\ DOMAIN draft = ChannelsOf(command.model)
  /\ \A c \in DOMAIN draft :
       /\ DOMAIN draft[c] = {"on", "set"} /\ DOMAIN draft[c].set = Settings
       /\ \A k \in Settings : draft[c].set[k] # None => command.name = "snapshot" /\ draft[c].set[k] = inst.set[c][k]
       /\ command.model # "pair" => draft[c].set["range"] = None

\* Documents are right, and a restore has one.
Documented ==
  /\ PairFits(inst) /\ IsDraft
  /\ doc # Nothing => IsDocument(doc, command.model)
  /\ command.name = "restore-from-snapshot" /\ phase \in {"identify", "run"} => doc # Nothing

\* A draft is kept as a document.
LEMMA DraftIsDocument ==
  ASSUME Sound, Documented
  PROVE  IsDocument(draft, command.model)
<1>1. Shape(inst) /\ inst.model = command.model /\ DOMAIN inst.on = ChannelsOf(command.model)
  BY DEF Sound, Shape
<1>2. DOMAIN draft = ChannelsOf(command.model)
  BY DEF Documented, IsDraft
<1>3. "range" \in Settings /\ Pair \subseteq Settings
  BY DEF Pair, Settings
<1> SUFFICES ASSUME NEW c \in DOMAIN draft
             PROVE  /\ DOMAIN draft[c].set = Settings
                    /\ IF command.model = "pair"
                       THEN draft[c].set["range"] # None =>
                              draft[c].set["range"] \in {1, 2} /\ Fits(draft[c].set["range"], draft[c].set)
                       ELSE draft[c].set["range"] = None
  BY <1>2 DEF IsDocument
<1>4. DOMAIN draft[c].set = Settings /\ (command.model # "pair" => draft[c].set["range"] = None)
      /\ \A k \in Settings : draft[c].set[k] \in {None, inst.set[c][k]}
  BY DEF Documented, IsDraft
<1>5. ASSUME command.model = "pair", draft[c].set["range"] # None
      PROVE  draft[c].set["range"] \in {1, 2} /\ Fits(draft[c].set["range"], draft[c].set)
  <2>1. inst.set[c].range \in {1, 2} /\ Fits(inst.set[c].range, inst.set[c])
    BY <1>1, <1>2, <1>5 DEF Documented, PairFits
  <2>2. draft[c].set["range"] = inst.set[c].range
    BY <1>3, <1>4, <1>5
  <2>3. \A k \in Pair : draft[c].set[k] = None \/ draft[c].set[k] = inst.set[c][k]
    BY <1>3, <1>4
  <2>4. \A k \in Pair : ~Beyond(inst.set[c].range, k, draft[c].set[k])
    BY <2>1, <2>3 DEF Fits, Beyond, None
  <2> QED
    BY <2>1, <2>2, <2>4 DEF Fits
<1> QED
  BY <1>4, <1>5

\* The call that comes next, by its place.
LEMMA NextCall ==
  ASSUME Sound, Running
  PROVE  /\ command \in Commands /\ inst.model = command.model /\ Shape(inst)
         /\ at + 1 \in 1..Len(script) /\ call = script[at + 1].call /\ call \in Calls(command)
         /\ DOMAIN inst.on = ChannelsOf(command.model)
         /\ call.op \in Switches \cup Writers => call.ch \in DOMAIN inst.on
         /\ call.op \in {"onifwas", "put"} => command.name = "restore-from-snapshot"
         /\ call.op \in Drafting => command.name = "snapshot"
         /\ call.op = "set" => call.key # "range"
         /\ call.op \in {"init", "trg"} => command.model = "independent"
         /\ command.name = "snapshot" => call \in Noting(command)
<1>1. command \in Commands /\ script \in Seq(Entries(command)) /\ Shape(inst) /\ inst.model = command.model
  BY TheCommand DEF Sound
<1>2. at + 1 \in 1..Len(script) /\ call = script[at + 1].call
  BY Whereabouts DEF Running
<1>3. call \in Calls(command)
  <2>1. script[at + 1] \in Entries(command)
    BY <1>1, <1>2, ItsElements
  <2> QED
    BY <1>2, <2>1 DEF Entries
<1>4. DOMAIN inst.on = ChannelsOf(command.model) /\ ToSet(command.channels) \subseteq ChannelsOf(command.model)
  BY <1>1, CommandFacts DEF Shape
<1> HIDE DEF at
<1>5. /\ call.op \in Switches \cup Writers => call.ch \in ToSet(command.channels)
      /\ call.op \in {"onifwas", "put"} => command.name = "restore-from-snapshot"
      /\ call.op \in Drafting => command.name = "snapshot"
      /\ call.op = "set" => call.key # "range"
      /\ call.op \in {"init", "trg"} => command.model = "independent"
  BY <1>1, <1>2, Addressed DEF script
<1>6. command.name = "snapshot" => call \in Noting(command)
  BY <1>1, <1>2, SnapshotScript DEF script
<1> QED
  BY <1>1, <1>2, <1>3, <1>4, <1>5, <1>6

\* A call keeps a pair within its range.
LEMMA AfterFits ==
  ASSUME Sound, Documented, Running
  PROVE  PairFits(After)
<1> SUFFICES ASSUME inst.model = "pair" PROVE PairFits(After)
  <2>1. After.model = inst.model
    BY AfterAlters DEF Sound
  <2> QED
    BY <2>1 DEF PairFits
<1>1. Shape(inst) /\ PairFits(inst) /\ command.model = "pair"
  BY NextCall DEF Documented
<1>2. CASE call.op \notin Writers
  <2>1. call.op \notin {"init", "trg"}
    BY <1>1, NextCall
  <2>2. After.set = inst.set /\ After.model = inst.model /\ Shape(After)
    BY <1>1, <1>2, <2>1, AfterAlters
  <2>3. DOMAIN After.on = DOMAIN inst.on
    BY <1>1, <2>2 DEF Shape
  <2> QED
    BY <1>1, <2>2, <2>3 DEF PairFits
<1>3. CASE call.op \in Writers
  <2>1. call.ch \in DOMAIN inst.on
    BY <1>3, NextCall
  <2>2. CASE call.op = "set"
    <3>1. call.key # "range"
      BY <2>2, NextCall
    <3>2. After = WriteSetting(inst, call.ch, call.key, call.val)
      BY <2>2 DEF After
    <3> QED
      BY <1>1, <2>1, <3>1, <3>2, WriteFits
  <2>3. CASE call.op = "put"
    <3>1. command.name = "restore-from-snapshot" /\ phase = "run"
      BY <2>3, NextCall DEF Running
    <3>2. IsDocument(doc, "pair")
      BY <1>1, <3>1 DEF Documented
    <3>3. call.ch \in DOMAIN doc
      BY <1>1, <2>1, <3>2, NextCall DEF IsDocument
    <3>4. call.key = "range" => doc[call.ch].set[call.key] \in {None, 1, 2}
      BY <3>2, <3>3 DEF IsDocument
    <3>5. \/ After = inst
          \/ doc[call.ch].set[call.key] # None
               /\ After = WriteSetting(inst, call.ch, call.key, doc[call.ch].set[call.key])
      BY <2>3 DEF After
    <3> QED
      BY <1>1, <2>1, <3>4, <3>5, WriteFits
  <2>4. CASE call.op = "prepare"
    <3>1. \/ After = inst
          \/ ~PairRefused(inst, call.ch, PairOf[1], PairOf[2])
               /\ After = PrepareOutputPair(inst, call.ch, PairOf[1], PairOf[2])
      BY <2>4 DEF After
    <3> QED
      BY <1>1, <2>1, <3>1, PrepareFits
  <2> QED
    BY <1>3, <2>2, <2>3, <2>4 DEF Writers
<1> QED
  BY <1>2, <1>3

\* What a step does to the draft and the document.
LEMMA HowItNotes ==
  ASSUME Sound, [Next]_vars, index' = index
  PROVE  \/ draft' = draft /\ doc' = doc
         \/ /\ Running /\ call.op \in Drafting /\ (inst' = After \/ inst'.set = inst.set)
            /\ doc' \in {doc, draft}
            /\ \/ draft' = draft
               \/ call.op = "note" /\ draft' = [draft EXCEPT ![call.ch].set[call.key] = inst.set[call.ch][call.key]]
               \/ draft' = [draft EXCEPT ![call.ch].on = inst.on[call.ch]]
<1>1. ~NextCommand
  <2>1. index \in Nat
    BY TheCommand DEF Sound
  <2> QED
    BY <2>1 DEF NextCommand
<1>2. Remember /\ call.op \notin Drafting => draft' = draft /\ doc' = doc
  BY DEF Remember, Drafting
<1>3. Remember => /\ doc' \in {doc, draft}
                  /\ \/ draft' = draft
                     \/ call.op = "note" /\ draft' = [draft EXCEPT ![call.ch].set[call.key] = inst.set[call.ch][call.key]]
                     \/ draft' = [draft EXCEPT ![call.ch].on = inst.on[call.ch]]
  BY DEF Remember
<1>4. Perform => Running /\ Remember /\ inst' = After
  BY DEF Perform
<1>5. Reject => Running /\ Remember /\ inst'.set = inst.set
  <2> SUFFICES ASSUME Reject PROVE Running /\ Remember /\ inst'.set = inst.set
    OBVIOUS
  <2>1. Running /\ Remember /\ inst' = [inst EXCEPT !.queued = TRUE] /\ DOMAIN inst = Parts
    BY DEF Reject, Sound, Shape
  <2>2. inst'.set = inst.set
    BY <2>1 DEF Parts
  <2> QED
    BY <2>1, <2>2
<1>6. Astray => Remember /\ call.op = "set"
  BY DEF Astray
<1>7. Open \/ Identified \/ NotOpened \/ Refuse \/ Completed \/ WaitFails \/ Raise \/ Return \/ RequestStop
        \/ UNCHANGED vars => draft' = draft /\ doc' = doc
  BY DEF Open, Identified, NotOpened, Refuse, Completed, WaitFails, Raise, Return, RequestStop, vars, data
<1>8. (\E c \in DOMAIN inst.on : Trip(c) \/ Settle(c)) => draft' = draft /\ doc' = doc
  BY DEF Trip, Settle, data
<1>9. Astray => draft' = draft /\ doc' = doc
  BY <1>2, <1>6 DEF Drafting
<1>10. Perform \/ Reject => /\ Running /\ (inst' = After \/ inst'.set = inst.set)
                            /\ Remember
  BY <1>4, <1>5
<1> HIDE DEF Remember, Running
<1> QED
  BY <1>1, <1>2, <1>3, <1>7, <1>8, <1>9, <1>10 DEF Next

\* At the start.
LEMMA StartsDocumented == Init => Documented
<1> SUFFICES ASSUME Init PROVE Documented
  OBVIOUS
<1>1. inst = Supply(command.model) /\ draft = Blank(command.model) /\ doc = Nothing /\ phase = "opening"
  BY DEF Init
<1>2. PairFits(inst)
  <2>1. \A c \in ChannelsOf(command.model) : \A k \in Settings : inst.set[c][k] = IF k = "range" THEN 1 ELSE 0
    BY <1>1 DEF Supply
  <2>2. DOMAIN inst.on = ChannelsOf(command.model)
    BY <1>1 DEF Supply
  <2>3. "range" \in Settings /\ \A k \in Pair : k \in Settings /\ k # "range"
    BY DEF Settings, Pair
  <2> QED
    BY <2>1, <2>2, <2>3 DEF PairFits, Fits, Beyond
<1>3. IsDraft
  BY <1>1 DEF IsDraft, Blank, Settings
<1> QED
  BY <1>1, <1>2, <1>3 DEF Documented

\* A step keeps a pair within its range.
LEMMA StepFits ==
  ASSUME Sound, Documented, [Next]_vars
  PROVE  PairFits(inst')
<1>1. Shape(inst) /\ Shape(inst') /\ inst'.model = inst.model /\ DOMAIN inst'.on = DOMAIN inst.on /\ PairFits(inst)
      /\ inst.model = command.model
  BY SupplyKept DEF Sound, Shape, Documented
<1>2. CASE inst'.set = inst.set
  BY <1>1, <1>2 DEF PairFits
<1>3. CASE Running /\ inst' = After
  BY <1>3, AfterFits
<1>4. CASE Astray
  <2>1. inst.model # "pair"
    BY <1>4 DEF Astray
  <2> QED
    BY <1>1, <2>1 DEF PairFits
<1>5. CASE index' # index
  <2>1. inst' = inst
    BY <1>5 DEF Next, Open, Identified, NotOpened, NextCommand, Perform, Refuse, Completed, WaitFails, Raise, Reject,
                Astray, Return, RequestStop, Trip, Settle, Proceed, Throw, control, vars
  <2> QED
    BY <1>1, <2>1
<1> QED
  BY <1>2, <1>3, <1>4, <1>5, OtherwiseQuiet

\* And a draft what is programmed.
LEMMA StepDraft ==
  ASSUME Sound, Documented, [Next]_vars, index' = index
  PROVE  IsDraft'
<1>1. command' = command /\ Shape(inst) /\ inst'.model = inst.model
  BY SameCommand, SupplyKept DEF Sound
<1>2. command.name = "snapshot" => inst'.set = inst.set
  <2> SUFFICES ASSUME command.name = "snapshot" PROVE inst'.set = inst.set
    OBVIOUS
  <2>1. CASE Running
    <3>1. call.op \in Drafting \cup {"read", "drain"}
      BY <2>1, NextCall DEF Noting
    <3>2. After.set = inst.set
      BY <1>1, <3>1, AfterAlters DEF Drafting, Writers
    <3>3. ~Astray
      BY <3>1 DEF Astray, Drafting
    <3> QED
      BY <3>2, <3>3, OtherwiseQuiet
  <2>2. CASE ~Running
    BY <2>2, OtherwiseQuiet
  <2> QED
    BY <2>1, <2>2
<1>3. CASE draft' = draft
  <2>1. IsDraft
    BY DEF Documented
  <2> QED
    BY <1>1, <1>2, <1>3, <2>1 DEF IsDraft
<1>4. ASSUME Running, call.op \in Drafting, inst' = After \/ inst'.set = inst.set,
             call.op = "note", draft' = [draft EXCEPT ![call.ch].set[call.key] = inst.set[call.ch][call.key]]
      PROVE  IsDraft'
  <2>1. command.name = "snapshot" /\ (call.key = "range" => command.model = "pair")
    BY <1>4, NextCall DEF Noting
  <2>2. IsDraft /\ inst'.set = inst.set
    BY <1>2, <2>1 DEF Documented
  <2> DEFINE v == inst.set[call.ch][call.key]
             c == call.ch
             key == call.key
  <2>3. /\ draft' = [draft EXCEPT ![c].set[key] = v] /\ v = inst.set[c][key]
        /\ key = "range" => command.model = "pair"
    BY <1>4, <2>1
  <2> HIDE DEF v, c, key
  <2>4. DOMAIN draft' = DOMAIN draft
        /\ \A d \in DOMAIN draft : draft'[d] = IF d = c THEN [draft[d] EXCEPT !.set[key] = v] ELSE draft[d]
    BY <2>3
  <2>5. ASSUME NEW d \in DOMAIN draft
        PROVE  /\ DOMAIN draft'[d] = {"on", "set"} /\ DOMAIN draft'[d].set = Settings
               /\ \A k \in Settings : draft'[d].set[k] = IF d = c /\ k = key THEN v ELSE draft[d].set[k]
    <3>1. DOMAIN draft[d] = {"on", "set"} /\ DOMAIN draft[d].set = Settings
      BY <2>2 DEF IsDraft
    <3> DEFINE new == [draft[d] EXCEPT !.set[key] = v]
    <3>2. DOMAIN new = {"on", "set"} /\ new.set = [draft[d].set EXCEPT ![key] = v]
      BY <3>1
    <3> HIDE DEF new
    <3>3. draft'[d] = IF d = c THEN new ELSE draft[d]
      BY <2>4 DEF new
    <3> QED
      BY <3>1, <3>2, <3>3
  <2>6. "range" \in Settings
    BY DEF Settings
  <2>7. ASSUME NEW d \in DOMAIN draft
        PROVE  /\ DOMAIN draft'[d] = {"on", "set"} /\ DOMAIN draft'[d].set = Settings
               /\ \A k \in Settings : draft'[d].set[k] # None =>
                    command.name = "snapshot" /\ draft'[d].set[k] = inst.set[d][k]
               /\ command.model # "pair" => draft'[d].set["range"] = None
    <3>1. /\ \A k \in Settings : draft[d].set[k] # None => draft[d].set[k] = inst.set[d][k]
          /\ command.model # "pair" => draft[d].set["range"] = None
      BY <2>2 DEF IsDraft
    <3> QED
      BY <2>1, <2>3, <2>5, <2>6, <3>1
  <2>8. DOMAIN draft' = ChannelsOf(command.model)
    BY <2>2, <2>4 DEF IsDraft
  <2> QED
    BY <1>1, <2>2, <2>4, <2>7, <2>8 DEF IsDraft
<1>5. ASSUME Running, call.op \in Drafting, inst' = After \/ inst'.set = inst.set,
             draft' = [draft EXCEPT ![call.ch].on = inst.on[call.ch]]
      PROVE  IsDraft'
  <2>1. command.name = "snapshot"
    BY <1>5, NextCall
  <2>2. IsDraft /\ inst'.set = inst.set
    BY <1>2, <2>1 DEF Documented
  <2> DEFINE v == inst.on[call.ch]
             c == call.ch
  <2>3. draft' = [draft EXCEPT ![c].on = v]
    BY <1>5
  <2> HIDE DEF v, c
  <2>4. ASSUME NEW d \in DOMAIN draft
        PROVE  DOMAIN draft'[d] = DOMAIN draft[d] /\ draft'[d].set = draft[d].set
    <3>1. DOMAIN draft[d] = {"on", "set"}
      BY <2>2 DEF IsDraft
    <3>2. draft'[d] = IF d = c THEN [draft[d] EXCEPT !.on = v] ELSE draft[d]
      BY <2>3
    <3> QED
      BY <3>1, <3>2
  <2>5. DOMAIN draft' = DOMAIN draft
    BY <2>3
  <2> QED
    BY <1>1, <2>2, <2>4, <2>5 DEF IsDraft
<1> QED
  BY <1>3, <1>4, <1>5, HowItNotes

\* Documents stay right.
LEMMA StepDocumented == Sound /\ Documented /\ [Next]_vars => Documented'
<1> SUFFICES ASSUME Sound, Documented, [Next]_vars PROVE Documented'
  OBVIOUS
<1>1. PairFits(inst')
  BY StepFits
<1>2. CASE index' = index
  <2>1. command' = command
    BY <1>2, SameCommand
  <2>2. IsDraft'
    BY <1>2, StepDraft
  <2>3. doc' \in {doc, draft}
    BY <1>2, HowItNotes
  <2>4. doc' # Nothing => IsDocument(doc', command'.model)
    BY <2>1, <2>3, DraftIsDocument DEF Documented
  <2>5. ASSUME command.name = "restore-from-snapshot", phase' \in {"identify", "run"} PROVE doc' # Nothing
    <3>1. doc' = doc
      <4>1. Running => call.op \notin Drafting
        BY <2>5, NextCall
      <4> QED
        BY <1>2, <4>1, HowItNotes
    <3>2. phase \in {"identify", "run"} \/ (Open /\ ~DocumentMissing)
      <4>1. CASE Open
        BY <2>5, <4>1 DEF Open, End, DocumentMissing, Begin
      <4>2. ~NextCommand
        BY <2>5 DEF NextCommand
      <4>3. CASE ~Open
        <5>1. Identified => phase = "identify"
          BY DEF Identified
        <5>2. NotOpened \/ Return => phase' = "ended"
          BY DEF NotOpened, Return, End
        <5>3. Perform \/ Refuse \/ Completed \/ WaitFails \/ Raise \/ Reject \/ Astray => phase = "run"
          BY DEF Perform, Refuse, Completed, WaitFails, Raise, Reject, Astray, Running
        <5>4. RequestStop \/ (\E c \in DOMAIN inst.on : Trip(c) \/ Settle(c)) \/ UNCHANGED vars => phase' = phase
          BY DEF RequestStop, Trip, Settle, control, vars
        <5> QED
          BY <2>5, <4>2, <4>3, <5>1, <5>2, <5>3, <5>4 DEF Next
      <4> QED
        BY <4>1, <4>3
    <3>3. CASE phase \in {"identify", "run"}
      BY <2>5, <3>1, <3>3 DEF Documented
    <3>4. CASE ~DocumentMissing
      BY <2>5, <3>1, <3>4 DEF DocumentMissing
    <3> QED
      BY <3>2, <3>3, <3>4
  <2> QED
    BY <1>1, <2>1, <2>2, <2>4, <2>5 DEF Documented
<1>3. CASE index' # index
  <2>1. NextCommand
    BY <1>3 DEF Next, Open, Identified, NotOpened, Perform, Refuse, Completed, WaitFails, Raise, Reject,
                Astray, Return, RequestStop, Trip, Settle, Proceed, Throw, control, vars
  <2>2. /\ index' = index + 1 /\ index < Len(program) /\ program' = program /\ phase' = "opening"
        /\ draft' = Blank(command.model) /\ doc' = doc
    BY <2>1 DEF NextCommand
  <2>3. program \in Programs /\ index \in 1..Len(program) /\ Len(program) \in Nat
    <3>1. program \in Programs /\ index \in 1..Len(program)
      BY DEF Sound
    <3>2. program \in Seq(Commands)
      BY <3>1, CommandsAssumption
    <3> QED
      BY <3>1, <3>2, LenProperties
  <2>4. index' \in 1..Len(program)
    BY <2>2, <2>3
  <2>5. command'.model = command.model
    <3>1. command' = program[index']
      BY <2>2 DEF command
    <3> QED
      BY <2>3, <2>4, <3>1, TheCommand
  <2>6. IsDraft'
    BY <2>2, <2>5 DEF IsDraft, Blank, Settings
  <2>7. doc' # Nothing => IsDocument(doc', command'.model)
    BY <2>2, <2>5 DEF Documented
  <2> QED
    BY <1>1, <2>2, <2>6, <2>7 DEF Documented
<1> QED
  BY <1>2, <1>3

-----------------------------------------------------------------------------
(* The settings a restore writes back                                      *)

\* What the call of a restore does to the settings of a channel, f before and
\* g after it, d in the document.
Restores(x, c, pair, f, g, d) ==
  /\ \A k \in Protections : (g[k] = f[k] \/ Puts(x, c, k)) /\ (Puts(x, c, k) => d[k] \in {None, g[k]})
  /\ x.op # "prepare" /\ x.key # "range" =>
       /\ pair => g["range"] = f["range"]
       /\ \A k \in Pair : g[k] = f[k] \/ Puts(x, c, k)
  /\ \A k \in Pair : Puts(x, c, k) /\ (pair => Fits(f["range"], d)) => d[k] \in {None, g[k]}
  /\ pair /\ (d["range"] \in {None, f["range"]} \/ Puts(x, c, "range")) => d["range"] \in {None, g["range"]}
  /\ pair /\ x.op = "prepare" /\ x.ch = c => Fits(g["range"], d)

\* A call that leaves them alone, and puts nothing back.
LEMMA LeftAlone ==
  ASSUME NEW x, NEW c, NEW pair, NEW f, NEW d, \A k : ~Puts(x, c, k), x.op = "prepare" => x.ch # c
  PROVE  Restores(x, c, pair, f, f, d)
BY DEF Restores

\* A supply without a range takes a write as it is.
LEMMA WritePlain ==
  ASSUME NEW s, Shape(s), s.model # "pair", NEW c \in DOMAIN s.on, NEW key, NEW v
  PROVE  \A k \in Settings : WriteSetting(s, c, key, v).set[c][k] = IF k = key THEN v ELSE s.set[c][k]
<1> DEFINE g == [k \in Settings |->
                   IF k = key THEN v
                   ELSE IF s.model = "pair" /\ key = "range" /\ Beyond(v, k, s.set[c][k]) THEN 1 ELSE s.set[c][k]]
<1>1. WriteSetting(s, c, key, v) = [s EXCEPT !.set[c] = g]
  BY DEF WriteSetting
<1>2. \A k \in Settings : g[k] = IF k = key THEN v ELSE s.set[c][k]
  OBVIOUS
<1> HIDE DEF g, WriteSetting
<1>3. WriteSetting(s, c, key, v).set[c] = g
  BY <1>1 DEF Shape, Parts
<1> QED
  BY <1>2, <1>3

\* A setting that is put back.
LEMMA PutRestores ==
  ASSUME Sound, Documented, Running, command.name = "restore-from-snapshot",
         call.op = "put", NEW c \in DOMAIN inst.on, call.ch = c, doc[c].set[call.key] # None
  PROVE  Restores(call, c, command.model = "pair", inst.set[c], After.set[c], doc[c].set)
<1> DEFINE key == call.key
           d == doc[c].set
           f == inst.set[c]
           g == After.set[c]
           pair == command.model = "pair"
<1>1. Shape(inst) /\ inst.model = command.model /\ PairFits(inst) /\ c \in DOMAIN doc /\ IsDocument(doc, command.model)
  <2>1. IsDocument(doc, command.model)
    BY DEF Documented, Running
  <2> QED
    BY <2>1, NextCall DEF Documented, IsDocument
<1>2. After = WriteSetting(inst, c, key, d[key])
  BY DEF After
<1>3. Protections \cup Pair \cup {"range"} = Settings /\ "range" \notin Pair \cup Protections
      /\ Pair \cap Protections = {}
  BY DEF Protections, Pair, Settings
<1>4. \A k : Puts(call, c, k) <=> k = key
  BY DEF Puts
<1>5. ASSUME ~pair PROVE \A k \in Settings : g[k] = IF k = key THEN d[key] ELSE f[k]
  BY <1>1, <1>2, <1>5, WritePlain
<1>6. ASSUME pair
      PROVE  /\ key # "range" => g["range"] = f["range"]
             /\ \A k \in Settings \ {key} : (key = "range" => k \notin Pair) => g[k] = f[k]
             /\ key \in Settings /\ ~Beyond(f["range"], key, d[key]) => g[key] = d[key]
  <2>1. key = "range" => d[key] \in {1, 2}
    BY <1>1, <1>6 DEF IsDocument
  <2> QED
    BY <1>1, <1>2, <1>6, <2>1, WriteFits
<1>7. \A k \in Protections \cup {"range"} : ~Beyond(f["range"], k, d[k])
  BY DEF Beyond, Protections
<1> HIDE DEF key, d, f, g, pair
<1>8. Restores(call, c, pair, f, g, d)
  <2>1. CASE pair
    <3>1. \A k \in Protections : (g[k] = f[k] \/ k = key) /\ (k = key => d[k] = g[k])
      BY <1>3, <1>6, <1>7, <2>1
    <3>2. key # "range" => \A k \in Pair : g[k] = f[k] \/ k = key
      BY <1>3, <1>6, <2>1
    <3>3. \A k \in Pair : k = key /\ Fits(f["range"], d) => d[k] = g[k]
      BY <1>3, <1>6, <2>1 DEF Fits
    <3>4. key = "range" => g["range"] = d["range"]
      BY <1>3, <1>6, <1>7, <2>1
    <3>5. call.op # "prepare" /\ call.key = key
      BY DEF key
    <3> QED
      BY <1>4, <1>6, <2>1, <3>1, <3>2, <3>3, <3>4, <3>5 DEF Restores
  <2>2. CASE ~pair
    <3>1. \A k \in Protections \cup Pair : (g[k] = f[k] \/ k = key) /\ (k = key => d[k] = g[k])
      BY <1>3, <1>5, <2>2
    <3> QED
      BY <1>4, <2>2, <3>1 DEF Restores
  <2> QED
    BY <2>1, <2>2
<1> QED
  BY <1>8 DEF key, d, f, g, pair

\* A pair that is prepared for the document.
LEMMA PrepareRestores ==
  ASSUME Sound, Documented, Running, command.name = "restore-from-snapshot",
         call.op = "prepare", call.key = "document", ~Refused, NEW c \in DOMAIN inst.on, call.ch = c
  PROVE  Restores(call, c, command.model = "pair", inst.set[c], After.set[c], doc[c].set)
<1> DEFINE d == doc[c].set
           f == inst.set[c]
           g == After.set[c]
           pair == command.model = "pair"
           v == PairOf[1]
           i == PairOf[2]
<1>1. Shape(inst) /\ inst.model = command.model /\ PairFits(inst) /\ c \in DOMAIN doc /\ IsDocument(doc, command.model)
  <2>1. IsDocument(doc, command.model)
    BY DEF Documented, Running
  <2> QED
    BY <2>1, NextCall DEF Documented, IsDocument
<1>2. ~PairRefused(inst, c, v, i) /\ After = PrepareOutputPair(inst, c, v, i)
  BY DEF After, Refused
<1>3. v = (IF d["voltage"] = None THEN f["voltage"] ELSE d["voltage"])
      /\ i = (IF d["current"] = None THEN f["current"] ELSE d["current"])
  BY DEF PairOf
<1>4. Protections \subseteq Settings \ (Pair \cup {"range"}) /\ Pair = {"voltage", "current"}
  BY DEF Protections, Pair, Settings
<1>5. \A k : ~Puts(call, c, k)
  BY DEF Puts
<1>6. ASSUME ~pair PROVE \A k \in Protections : g[k] = f[k]
  <2>1. After = inst \/ \E r : After = WriteSetting(inst, c, "range", r)
    BY <1>2 DEF PrepareOutputPair
  <2> QED
    BY <1>1, <1>4, <1>6, <2>1, WritePlain
<1>7. ASSUME pair
      PROVE  /\ \A k \in Protections : g[k] = f[k]
             /\ ~Beyond(g["range"], "voltage", v) /\ ~Beyond(g["range"], "current", i)
             /\ ~Beyond(f["range"], "voltage", v) /\ ~Beyond(f["range"], "current", i) => g["range"] = f["range"]
             /\ f["range"] \in {1, 2} /\ Fits(f["range"], f)
             /\ d["range"] # None => Fits(d["range"], d)
  <2>1. \A k \in Settings \ (Pair \cup {"range"}) : g[k] = f[k]
    BY <1>1, <1>2, <1>7, PrepareFits
  <2>2. /\ ~Beyond(g["range"], "voltage", v) /\ ~Beyond(g["range"], "current", i)
        /\ ~Beyond(f["range"], "voltage", v) /\ ~Beyond(f["range"], "current", i) => After = inst
    BY <1>1, <1>2, <1>7, PrepareFits
  <2>3. f["range"] \in {1, 2} /\ Fits(f["range"], f)
    BY <1>1, <1>7 DEF PairFits
  <2>4. d["range"] # None => Fits(d["range"], d)
    BY <1>1, <1>7 DEF IsDocument
  <2> QED
    BY <1>4, <2>1, <2>2, <2>3, <2>4
<1> HIDE DEF d, f, g, pair, v, i
<1>8. Restores(call, c, pair, f, g, d)
  <2>1. CASE pair
    <3>1. ~Beyond(g["range"], "voltage", d["voltage"]) /\ ~Beyond(g["range"], "current", d["current"])
      BY <1>3, <1>7, <2>1 DEF Beyond, None
    <3>2. Fits(g["range"], d)
      BY <1>4, <3>1 DEF Fits
    <3>3. d["range"] = f["range"] => g["range"] = f["range"]
      <4> SUFFICES ASSUME d["range"] = f["range"] PROVE g["range"] = f["range"]
        OBVIOUS
      <4>1. Fits(f["range"], d) /\ Fits(f["range"], f)
        BY <1>7, <2>1 DEF None
      <4>2. ~Beyond(f["range"], "voltage", v) /\ ~Beyond(f["range"], "current", i)
        BY <1>3, <1>4, <4>1 DEF Fits
      <4> QED
        BY <1>7, <2>1, <4>2
    <3> QED
      BY <1>5, <1>7, <2>1, <3>2, <3>3 DEF Restores
  <2>2. CASE ~pair
    BY <1>5, <1>6, <2>2 DEF Restores
  <2> QED
    BY <2>1, <2>2
<1> QED
  BY <1>8 DEF d, f, g, pair

\* Every call of a restore.
LEMMA CallRestores ==
  ASSUME Sound, Documented, Running, command.name = "restore-from-snapshot", call \in RestoreCalls(command),
         ~Refused, NEW c \in DOMAIN inst.on
  PROVE  Restores(call, c, command.model = "pair", inst.set[c], After.set[c], doc[c].set)
<1>1. Shape(inst)
  BY DEF Sound
<1>2. call.op \in {"poll", "off", "put", "prepare", "onifwas", "errors"} /\ (call.op = "prepare" => call.key = "document")
  BY DEF RestoreCalls
<1>3. CASE call.op \notin {"put", "prepare"}
  <2>1. After.set = inst.set
    BY <1>1, <1>2, <1>3, AfterAlters DEF Writers
  <2>2. \A k : ~Puts(call, c, k)
    BY <1>3 DEF Puts
  <2> QED
    BY <1>3, <2>1, <2>2, LeftAlone
<1>4. CASE call.op \in {"put", "prepare"} /\ call.ch # c
  <2>1. After.set[c] = inst.set[c]
    BY <1>1, <1>4, AfterSet
  <2>2. \A k : ~Puts(call, c, k)
    BY <1>4 DEF Puts
  <2> QED
    BY <1>4, <2>1, <2>2, LeftAlone
<1>5. CASE call.op = "prepare" /\ call.ch = c
  BY <1>2, <1>5, PrepareRestores
<1>6. CASE call.op = "put" /\ call.ch = c
  <2>1. CASE doc[c].set[call.key] # None
    BY <1>6, <2>1, PutRestores
  <2>2. CASE doc[c].set[call.key] = None
    <3>1. After = inst
      BY <1>6, <2>2 DEF After
    <3>2. \A k : Puts(call, c, k) <=> k = call.key
      BY <1>6 DEF Puts
    <3> QED
      BY <1>6, <2>2, <3>1, <3>2 DEF Restores
  <2> QED
    BY <2>1, <2>2
<1> QED
  BY <1>3, <1>4, <1>5, <1>6

-----------------------------------------------------------------------------
(* A restore switches on last                                              *)

\* After n calls of the list L, before its q-th call switches the channel on:
\* each setting is as the document d says, or still to be written back; f are
\* the settings, a is the place of the preparation.
BackAt(L, n, f, d, q, a, pair) ==
  LET comes(m, k) == \E p \in m + 1..q - 1 : Puts(L[p], L[q].ch, k)
      back(k) == d[k] \in {None, f[k]}
  IN  /\ \A k \in Protections : comes(n, k) \/ back(k)
      /\ \A k \in Pair : n < a \/ comes(n, k) \/ back(k)
      /\ pair => (\E p \in n + 1..a - 1 : Puts(L[p], L[q].ch, "range")) \/ back("range")
      /\ pair /\ a <= n => Fits(f["range"], d)

\* At the start everything is to be written back.
LEMMA BackStart ==
  ASSUME NEW L, NEW q \in Nat, NEW a, NEW pair, ReadyAt(L, q, a, pair), NEW f, NEW d
  PROVE  BackAt(L, 0, f, d, q, a, pair)
<1>1. a \in 0..q - 1 /\ (pair => a # 0)
  BY DEF ReadyAt
<1>2. \A k \in Protections : \E p \in 0 + 1..q - 1 : Puts(L[p], L[q].ch, k)
  BY DEF ReadyAt
<1>3. \A k \in Pair : 0 < a \/ \E p \in 0 + 1..q - 1 : Puts(L[p], L[q].ch, k)
  <2>1. CASE a = 0
    BY <2>1 DEF ReadyAt
  <2>2. CASE a # 0
    BY <1>1, <2>2
  <2> QED
    BY <2>1, <2>2
<1>4. pair => \E p \in 0 + 1..a - 1 : Puts(L[p], L[q].ch, "range")
  BY DEF ReadyAt
<1>5. ~(pair /\ a <= 0)
  BY <1>1
<1> QED
  BY <1>2, <1>3, <1>4, <1>5 DEF BackAt

\* A call of the restore keeps it so.
LEMMA BackStep ==
  ASSUME NEW L, NEW q \in Nat, NEW a, NEW pair, ReadyAt(L, q, a, pair), NEW n \in Nat, n + 1 < q, NEW f, NEW g, NEW d,
         BackAt(L, n, f, d, q, a, pair), Restores(L[n + 1], L[q].ch, pair, f, g, d)
  PROVE  BackAt(L, n + 1, g, d, q, a, pair)
<1> DEFINE x == L[n + 1]
           c == L[q].ch
           m == n + 1
<1>1. a \in 0..q - 1 /\ m \in Nat /\ m < q /\ m = n + 1
  BY DEF ReadyAt
<1>2. \A k, e : (\E p \in n + 1..e : Puts(L[p], c, k)) => Puts(x, c, k) \/ \E p \in m + 1..e : Puts(L[p], c, k)
  <2> SUFFICES ASSUME NEW k, NEW e, NEW p \in n + 1..e, Puts(L[p], c, k), ~Puts(x, c, k)
               PROVE  \E i \in m + 1..e : Puts(L[i], c, k)
    OBVIOUS
  <2>1. p # m
    OBVIOUS
  <2>2. p \in m + 1..e
    BY <2>1
  <2> QED
    BY <2>2
<1>3. /\ \A k \in Protections : (\E p \in n + 1..q - 1 : Puts(L[p], c, k)) \/ d[k] \in {None, f[k]}
      /\ \A k \in Pair : n < a \/ (\E p \in n + 1..q - 1 : Puts(L[p], c, k)) \/ d[k] \in {None, f[k]}
      /\ pair => (\E p \in n + 1..a - 1 : Puts(L[p], c, "range")) \/ d["range"] \in {None, f["range"]}
      /\ pair /\ a <= n => Fits(f["range"], d)
  BY DEF BackAt
<1>4. /\ \A k \in Protections : (g[k] = f[k] \/ Puts(x, c, k)) /\ (Puts(x, c, k) => d[k] \in {None, g[k]})
      /\ x.op # "prepare" /\ x.key # "range" =>
           /\ pair => g["range"] = f["range"]
           /\ \A k \in Pair : g[k] = f[k] \/ Puts(x, c, k)
      /\ \A k \in Pair : Puts(x, c, k) /\ (pair => Fits(f["range"], d)) => d[k] \in {None, g[k]}
      /\ pair /\ (d["range"] \in {None, f["range"]} \/ Puts(x, c, "range")) => d["range"] \in {None, g["range"]}
      /\ pair /\ x.op = "prepare" /\ x.ch = c => Fits(g["range"], d)
  BY DEF Restores
<1>5. a < m => x.op # "prepare" /\ x.key # "range"
  BY <1>1 DEF ReadyAt
<1>6. pair /\ m = a => x.op = "prepare" /\ x.ch = c
  BY DEF ReadyAt
<1>7. \A k \in Pair : \E p \in a + 1..q - 1 : Puts(L[p], c, k)
  BY DEF ReadyAt
<1> HIDE DEF x, c, m
<1>8. \A k \in Protections : (\E p \in m + 1..q - 1 : Puts(L[p], c, k)) \/ d[k] \in {None, g[k]}
  BY <1>2, <1>3, <1>4
<1>9. \A k \in Pair : m < a \/ (\E p \in m + 1..q - 1 : Puts(L[p], c, k)) \/ d[k] \in {None, g[k]}
  <2>1. CASE a < m
    <3>1. a <= n /\ ~(n < a)
      BY <1>1, <2>1
    <3> QED
      BY <1>2, <1>3, <1>4, <1>5, <2>1, <3>1
  <2>2. CASE a = m
    BY <1>7, <2>2
  <2>3. CASE m < a
    BY <2>3
  <2> QED
    BY <1>1, <2>1, <2>2, <2>3
<1>10. pair => (\E p \in m + 1..a - 1 : Puts(L[p], c, "range")) \/ d["range"] \in {None, g["range"]}
  BY <1>2, <1>3, <1>4
<1>11. pair /\ a <= m => Fits(g["range"], d)
  <2>1. CASE a < m
    <3>1. a <= n
      BY <1>1, <2>1
    <3> QED
      BY <1>3, <1>4, <1>5, <2>1, <3>1
  <2>2. CASE a = m
    BY <1>4, <1>6, <2>2
  <2> QED
    BY <1>1, <2>1, <2>2
<1>12. BackAt(L, m, g, d, q, a, pair)
  BY <1>8, <1>9, <1>10, <1>11 DEF BackAt, c
<1> QED
  BY <1>12 DEF m

\* Before the switch everything is.
LEMMA BackEnd ==
  ASSUME NEW L, NEW q \in Nat, NEW a \in 0..q - 1, NEW pair, NEW n \in Nat, n + 1 = q, NEW f, NEW d,
         BackAt(L, n, f, d, q, a, pair), ~pair => d["range"] = None
  PROVE  \A k \in Settings : d[k] \in {None, f[k]}
<1>1. n + 1..q - 1 = {} /\ ~(n < a) /\ n + 1..a - 1 = {}
  OBVIOUS
<1>2. Settings = Protections \cup Pair \cup {"range"}
  BY DEF Settings, Protections, Pair
<1>3. \A k \in Protections \cup Pair : d[k] \in {None, f[k]}
  BY <1>1 DEF BackAt
<1>4. d["range"] \in {None, f["range"]}
  BY <1>1 DEF BackAt
<1> QED
  BY <1>2, <1>3, <1>4

\* As long as the supply rejected no write, a restore has written back, or
\* comes to write back, what the document says of a channel it switches on.
RestoreOrder ==
  command.name = "restore-from-snapshot" /\ Running =>
    /\ Smooth
    /\ Hits("reject") = {} =>
         \A q \in at + 1..Len(script) : script[q].call.op = "onifwas" =>
           \E a \in 0..q - 1 :
             LET c == script[q].call.ch
                 L == ItsCalls(script)
                 pair == command.model = "pair"
             IN  ReadyAt(L, q, a, pair) /\ BackAt(L, at, inst.set[c], doc[c].set, q, a, pair)

\* The script of a restore.
LEMMA RestorePlaces ==
  ASSUME Sound, command.name = "restore-from-snapshot"
  PROVE  /\ command \in Commands /\ Len(script) \in Nat /\ Ready(ItsCalls(script), command.model = "pair")
         /\ Len(ItsCalls(script)) = Len(script)
         /\ \A p \in 1..Len(script) :
              /\ script[p].kind = "plain" /\ script[p].call \in RestoreCalls(command)
              /\ ItsCalls(script)[p] = script[p].call
              /\ script[p].call.op = "onifwas" => script[p].call.ch \in DOMAIN inst.on
<1>1. command \in Commands /\ DOMAIN inst.on = ChannelsOf(command.model)
      /\ ToSet(command.channels) \subseteq ChannelsOf(command.model)
  BY TheCommand, CommandFacts DEF Sound, Shape
<1>2. /\ Len(script) \in Nat /\ \A p \in 1..Len(script) : script[p].kind = "plain" /\ script[p].call \in RestoreCalls(command)
      /\ Ready(ItsCalls(script), command.model = "pair")
  BY <1>1, RestoreScript DEF script
<1>3. \A p \in 1..Len(script) : script[p].call.op \in Switches \cup Writers => script[p].call.ch \in ToSet(command.channels)
  BY <1>1, Addressed DEF script
<1>4. \A p \in 1..Len(script) : script[p].call.op = "onifwas" => script[p].call.ch \in DOMAIN inst.on
  BY <1>1, <1>3 DEF Switches
<1> DEFINE s == script
           n == Len(s)
           L == ItsCalls(s)
<1> HIDE DEF s
<1>5. L = [i \in 1..n |-> s[i].call]
  BY DEF ItsCalls
<1>6. n \in Nat
  BY <1>2 DEF s
<1> HIDE DEF L, n
<1>7. L \in [1..n -> {s[i].call : i \in 1..n}] /\ \A i \in 1..n : L[i] = s[i].call
  BY <1>5
<1>8. Len(L) = n
  BY <1>6, <1>7, SeqDef, LenProperties
<1>9. Len(ItsCalls(script)) = Len(script) /\ \A p \in 1..Len(script) : ItsCalls(script)[p] = script[p].call
  BY <1>7, <1>8 DEF L, n, s
<1> QED
  BY <1>1, <1>2, <1>4, <1>9

\* A call that returns.
LEMMA OrderGoesOn ==
  ASSUME Sound, Documented, RestoreOrder, Running, Perform, command.name = "restore-from-snapshot", script' = script,
         command' = command, Hits("reject") = {}, Hits("reject")' = {}, at' = at + 1,
         NEW q \in at + 2..Len(script), script[q].call.op = "onifwas"
  PROVE  \E a \in 0..q - 1 :
           LET c == script[q].call.ch
               L == ItsCalls(script)
               pair == command.model = "pair"
           IN  ReadyAt(L, q, a, pair) /\ BackAt(L, at + 1, inst'.set[c], doc[c].set, q, a, pair)
<1> DEFINE c == script[q].call.ch
           L == ItsCalls(script)
           pair == command.model = "pair"
           d == doc[c].set
           n == at
<1>1. n \in Nat /\ n + 1 \in 1..Len(script) /\ call = script[n + 1].call /\ Len(script) \in Nat
  BY Whereabouts DEF Running
<1> HIDE DEF n
<1>2. q \in n + 1..Len(script) /\ q \in 1..Len(script) /\ n + 1 < q /\ q \in Nat
  BY <1>1 DEF n
<1>3. PICK a \in 0..q - 1 : ReadyAt(L, q, a, pair) /\ BackAt(L, n, inst.set[c], d, q, a, pair)
  BY <1>2 DEF RestoreOrder, n
<1>4. L[n + 1] = call /\ L[q].ch = c /\ call \in RestoreCalls(command) /\ c \in DOMAIN inst.on
  BY <1>1, <1>2, RestorePlaces
<1>5. ~Refused /\ inst' = After
  BY DEF Perform
<1>6. Restores(call, c, pair, inst.set[c], After.set[c], d)
  BY <1>4, <1>5, CallRestores
<1> DEFINE f == inst.set[c]
           g == inst'.set[c]
<1>7. Restores(L[n + 1], L[q].ch, pair, f, g, d)
  BY <1>4, <1>5, <1>6
<1> HIDE DEF c, L, pair, d, f, g
<1>8. ReadyAt(L, q, a, pair) /\ BackAt(L, n, f, d, q, a, pair)
  BY <1>3 DEF f
<1>9. BackAt(L, n + 1, g, d, q, a, pair)
  BY <1>1, <1>2, <1>7, <1>8, BackStep
<1> QED
  BY <1>8, <1>9 DEF c, L, pair, d, g, n

\* The start of the script.
LEMMA OrderStarts ==
  ASSUME Sound, command.name = "restore-from-snapshot", script' = script, at' = 0,
         NEW q \in 1..Len(script), script[q].call.op = "onifwas"
  PROVE  \E a \in 0..q - 1 :
           LET c == script[q].call.ch
               L == ItsCalls(script)
               pair == command.model = "pair"
           IN  ReadyAt(L, q, a, pair) /\ BackAt(L, 0, inst.set[c], doc[c].set, q, a, pair)
<1> DEFINE c == script[q].call.ch
           L == ItsCalls(script)
           pair == command.model = "pair"
<1>1. Ready(L, pair) /\ L[q].op = "onifwas" /\ q \in 1..Len(L)
  BY RestorePlaces
<1> HIDE DEF c, L, pair
<1>2. PICK a \in 0..q - 1 : ReadyAt(L, q, a, pair)
  BY <1>1 DEF Ready
<1>3. q \in Nat
  OBVIOUS
<1>4. BackAt(L, 0, inst.set[c], doc[c].set, q, a, pair)
  BY <1>2, <1>3, BackStart
<1> QED
  BY <1>2, <1>4 DEF c, L, pair

\* The hits of a kind only grow.
LEMMA HitsStay ==
  ASSUME Sound, [Next]_vars, index' = index, NEW what, Hits(what)' = {}
  PROVE  Hits(what) = {}
<1>1. hits \subseteq hits'
  BY SameCommand
<1> QED
  BY <1>1 DEF Hits

\* Every step keeps the order of a restore.
LEMMA StepOrder ==
  ASSUME Sound, Documented, RestoreOrder, [Next]_vars
  PROVE  RestoreOrder'
<1> SUFFICES ASSUME command'.name = "restore-from-snapshot", Running'
             PROVE  /\ Smooth'
                    /\ Hits("reject")' = {} =>
                         \A q \in at' + 1..Len(script') : script'[q].call.op = "onifwas" =>
                           \E a \in 0..q - 1 :
                             LET c == script'[q].call.ch
                                 L == ItsCalls(script')
                                 pair == command'.model = "pair"
                             IN  ReadyAt(L, q, a, pair) /\ BackAt(L, at', inst'.set[c], doc'[c].set, q, a, pair)
  BY DEF RestoreOrder
<1>1. phase' = "run" /\ rest' # << >>
  BY DEF Running
<1>2. index' = index
  <2> SUFFICES ASSUME index' # index PROVE FALSE
    OBVIOUS
  <2>1. NextCommand
    BY DEF Next, Open, Identified, NotOpened, Perform, Refuse, Completed, WaitFails, Raise, Reject,
           Astray, Return, RequestStop, Trip, Settle, Proceed, Throw, control, vars
  <2> QED
    BY <1>1, <2>1 DEF NextCommand
<1>3. command' = command /\ script' = script /\ command.name = "restore-from-snapshot"
  BY <1>2, SameCommand
<1>4. command \in Commands /\ Len(script) \in Nat /\ (\A p \in 1..Len(script) :
        script[p].kind = "plain" /\ script[p].call \in RestoreCalls(command))
  BY <1>3, RestorePlaces
<1>5. Running => /\ block = "plain" /\ call \in RestoreCalls(command) /\ Smooth
  <2> SUFFICES ASSUME Running PROVE block = "plain" /\ call \in RestoreCalls(command) /\ Smooth
    OBVIOUS
  <2>1. at + 1 \in 1..Len(script) /\ call = script[at + 1].call /\ block = script[at + 1].kind
    BY Whereabouts DEF Running
  <2> HIDE DEF at
  <2> QED
    BY <1>3, <1>4, <2>1 DEF RestoreOrder
<1>6. CASE Perform
  <2>1. Running /\ Proceed /\ Smooth /\ Smooth'
    BY <1>5, <1>6 DEF Perform, Proceed, Smooth
  <2>2. at' = at + 1
    <3>1. at' \in at + 1..Len(script) /\ \A j \in at + 2..at' : script[j].kind \in Skipped
      BY <1>3, <2>1, SmoothMove
    <3>2. at \in 0..Len(script)
      BY Whereabouts
    <3> DEFINE n == at
               m == at'
    <3> HIDE DEF n, m
    <3>3. m \in n + 1..Len(script) /\ n \in Nat /\ \A j \in n + 2..m : script[j].kind \in Skipped
      BY <1>4, <3>1, <3>2 DEF n, m
    <3>4. m \in n + 2..m => script[m].kind = "plain" /\ script[m].kind \in Skipped
      BY <1>4, <3>3
    <3>5. m = n + 1
      BY <3>3, <3>4 DEF Skipped
    <3> QED
      BY <3>5 DEF n, m
  <2>3. doc' = doc
    <3>1. call.op \notin Drafting
      BY <1>5, <2>1 DEF RestoreCalls, Drafting
    <3> QED
      BY <1>2, <3>1, HowItNotes
  <2>4. at' + 1 = at + 2
    <3>1. at \in Nat
      BY Whereabouts
    <3> QED
      BY <2>2, <3>1
  <2>5. ASSUME Hits("reject")' = {}, NEW q \in at' + 1..Len(script), script[q].call.op = "onifwas"
        PROVE  \E a \in 0..q - 1 :
                 LET c == script[q].call.ch
                     L == ItsCalls(script)
                     pair == command.model = "pair"
                 IN  ReadyAt(L, q, a, pair) /\ BackAt(L, at + 1, inst'.set[c], doc[c].set, q, a, pair)
    <3>1. Hits("reject") = {}
      BY <1>2, <2>5, HitsStay
    <3>2. q \in at + 2..Len(script)
      BY <2>4
    <3> QED
      BY <1>3, <1>6, <2>1, <2>2, <2>5, <3>1, <3>2, OrderGoesOn
  <2> QED
    BY <1>3, <2>1, <2>2, <2>3, <2>5
<1>7. CASE Reject
  <2>1. Hit("reject") \in hits' /\ Hit("reject").what = "reject"
    BY <1>7 DEF Reject, Disturb, Hit
  <2>2. Hits("reject")' # {}
    BY <2>1 DEF Hits
  <2>3. Smooth'
    BY <1>5, <1>7 DEF Reject, Proceed, Smooth
  <2> QED
    BY <2>2, <2>3
<1>8. ~Completed /\ ~Astray
  <2>1. Running => call.op \notin {"wait", "set"}
    BY <1>5 DEF RestoreCalls
  <2> QED
    BY <2>1 DEF Completed, Astray
<1>9. ~(Refuse \/ WaitFails \/ Raise)
  BY <1>1, <1>5 DEF Refuse, WaitFails, Raise, Throw
<1>10. ~(NotOpened \/ Return \/ NextCommand)
  BY <1>1 DEF NotOpened, Return, NextCommand, End
<1>11. CASE Open \/ Identified
  <2>1. rest' = script /\ inst' = inst /\ doc' = doc /\ pending' = pending /\ failed' = failed
        /\ phase \in {"opening", "identify"}
    BY <1>1, <1>11 DEF Open, Identified, Begin, End, script, data
  <2>2. Smooth'
    BY <2>1 DEF Sound, Smooth
  <2>3. at' = 0
    BY <1>3, <2>1, ScriptStarts
  <2>4. \A q \in 1..Len(script) : script[q].call.op = "onifwas" =>
          \E a \in 0..q - 1 :
            LET c == script[q].call.ch
                L == ItsCalls(script)
                pair == command.model = "pair"
            IN  ReadyAt(L, q, a, pair) /\ BackAt(L, 0, inst.set[c], doc[c].set, q, a, pair)
    BY <1>3, <2>3, OrderStarts
  <2> QED
    BY <1>3, <2>1, <2>2, <2>3, <2>4
<1>12. CASE RequestStop \/ (\E c \in DOMAIN inst.on : Trip(c) \/ Settle(c)) \/ UNCHANGED vars
  <2>1. UNCHANGED <<phase, rest, pending, failed, doc>>
    BY <1>12 DEF RequestStop, Trip, Settle, vars, control, data
  <2>2. inst'.set = inst.set
    <3>1. CASE RequestStop \/ UNCHANGED vars
      BY <3>1 DEF RequestStop, vars
    <3>2. ASSUME NEW c \in DOMAIN inst.on, Trip(c) \/ Settle(c) PROVE inst'.set = inst.set
      <4>1. inst' = [inst EXCEPT !.on[c] = FALSE, !.tripped[c] = TRUE] \/ inst' = [inst EXCEPT !.init[c] = "idle"]
        BY <3>2 DEF Trip, Settle
      <4>2. DOMAIN inst = Parts
        BY DEF Sound, Shape
      <4> QED
        BY <4>1, <4>2 DEF Parts
    <3> QED
      BY <1>12, <3>1, <3>2
  <2>3. at' = at
    BY <1>3, <2>1 DEF at
  <2>4. Running
    BY <1>1, <2>1 DEF Running
  <2>5. Smooth' /\ (Hits("reject")' = {} => Hits("reject") = {})
    BY <1>2, <1>5, <2>1, <2>4, HitsStay DEF Smooth
  <2>6. Hits("reject") = {} =>
          \A q \in at + 1..Len(script) : script[q].call.op = "onifwas" =>
            \E a \in 0..q - 1 :
              LET c == script[q].call.ch
                  L == ItsCalls(script)
                  pair == command.model = "pair"
              IN  ReadyAt(L, q, a, pair) /\ BackAt(L, at, inst.set[c], doc[c].set, q, a, pair)
    BY <1>3, <2>4 DEF RestoreOrder
  <2> QED
    BY <1>3, <2>1, <2>2, <2>3, <2>5, <2>6
<1> QED
  BY <1>6, <1>7, <1>8, <1>9, <1>10, <1>11, <1>12 DEF Next

\* The settings are the document's when an output goes on.
LEMMA RestoredWhenOn ==
  ASSUME Sound, Documented, RestoreOrder, [Next]_vars, NEW c \in DOMAIN inst.on,
         command.name = "restore-from-snapshot", ~inst.on[c], inst'.on[c]
  PROVE  doc[c].on /\ ((\A k \in Settings : doc[c].set[k] \in {None, inst.set[c][k]}) \/ Hits("reject") # {})
<1>1. index' = index
  <2> SUFFICES ASSUME index' # index PROVE FALSE
    OBVIOUS
  <2>1. inst' = inst
    BY DEF Next, Open, Identified, NotOpened, NextCommand, Perform, Refuse, Completed, WaitFails, Raise, Reject,
           Astray, Return, RequestStop, Trip, Settle, Proceed, Throw, control, vars
  <2> QED
    BY <2>1
<1>2. /\ Running /\ call.op \in {"on", "onifwas"} /\ c \in Switched(inst, call.ch)
      /\ call.op = "onifwas" => doc[call.ch].on
  BY <1>1, OnlyOnSwitches
<1>3. at + 1 \in 1..Len(script) /\ call = script[at + 1].call /\ at \in Nat
  BY <1>2, Whereabouts DEF Running
<1>4. command \in Commands /\ call \in RestoreCalls(command)
  BY <1>3, RestorePlaces
<1>5. call.op = "onifwas"
  BY <1>2, <1>4 DEF RestoreCalls
<1>6. call.ch = c
  <2>1. Admitted(command)
    BY <1>4, CommandFacts
  <2>2. inst.model # "global"
    BY <2>1 DEF Admitted, Sound
  <2> QED
    BY <1>2, <2>2 DEF Switched
<1>7. ASSUME Hits("reject") = {} PROVE \A k \in Settings : doc[c].set[k] \in {None, inst.set[c][k]}
  <2> DEFINE n == at
             q == at + 1
             L == ItsCalls(script)
             pair == command.model = "pair"
             f == inst.set[c]
             d == doc[c].set
  <2>1. q \in n + 1..Len(script) /\ script[q].call.op = "onifwas" /\ script[q].call.ch = c
    BY <1>3, <1>5, <1>6
  <2>2. PICK a \in 0..q - 1 : BackAt(L, n, f, d, q, a, pair)
    BY <1>2, <1>7, <2>1 DEF RestoreOrder
  <2>3. ~pair => d["range"] = None
    <3>1. IsDocument(doc, command.model)
      BY <1>2 DEF Documented, Running
    <3>2. c \in DOMAIN doc
      BY <1>2, <3>1, NextCall DEF IsDocument
    <3> QED
      BY <3>1, <3>2 DEF IsDocument
  <2>4. n \in Nat /\ q \in Nat /\ n + 1 = q
    BY <1>3
  <2> HIDE DEF n, q, L, pair, f, d
  <2>5. \A k \in Settings : d[k] \in {None, f[k]}
    BY <2>2, <2>3, <2>4, BackEnd
  <2> QED
    BY <2>5 DEF d, f
<1> QED
  BY <1>2, <1>5, <1>6, <1>7

\* A restore switches an output on only when the document has it on, and then
\* everything the document says of the channel is programmed, unless the supply
\* rejected a write: for every program, number of channels and disturbance
\* (Commands!RestoreSwitchesOnLast).
THEOREM RestoredBeforeOn == Spec => RestoreSwitchesOnLast
<1> DEFINE Inv == Sound /\ Documented /\ RestoreOrder
<1>1. Init => Inv
  <2> SUFFICES ASSUME Init PROVE Inv
    OBVIOUS
  <2>1. RestoreOrder
    BY DEF Init, RestoreOrder, Running
  <2> QED
    BY <2>1, InitSound, StartsDocumented
<1>2. Inv /\ [Next]_vars => Inv'
  BY StepSound, StepDocumented, StepOrder
<1>3. Inv /\ [Next]_vars =>
        [\A c \in DOMAIN inst.on :
          command.name = "restore-from-snapshot" /\ ~inst.on[c] /\ inst'.on[c] =>
            /\ doc[c].on
            /\ \/ \A k \in Settings : doc[c].set[k] \in {None, inst.set[c][k]}
               \/ Hits("reject") # {}]_vars
  BY RestoredWhenOn
<1> HIDE DEF Inv
<1> QED
  BY <1>1, <1>2, <1>3, PTL DEF Spec, RestoreSwitchesOnLast
=============================================================================
