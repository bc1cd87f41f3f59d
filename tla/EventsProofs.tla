------------------------------ MODULE EventsProofs ------------------------------
(***************************************************************************)
(* What holds of server-sent events for any number of users, tabs, sources   *)
(* and events, and for queues and channels of any size: the slice the router *)
(* walks over, whose array is edited under its hands, serves every tab once  *)
(* unless a tab of the same user closes during the round; and only the end   *)
(* of the server closes a channel somebody sends on.  Then, of the logins of *)
(* Identity, what the cookies of a browser tell of its tabs, for any number  *)
(* of tabs, people and deployments.                                          *)
(***************************************************************************)
EXTENDS Browser, FiniteSetTheorems, SequenceTheorems, TLAPS

\* Event m is in the channel of client c, or was.
In(c, m) == \E i \in 1 .. Len(got[c]) : got[c][i] = m

Once(c, m) == \A i, j \in 1 .. Len(got[c]) : got[c][i] = m /\ got[c][j] = m => i = j

\* No two of the elements are the same.
Distinct(s, n) == \A i, j \in 1 .. n : s[i] = s[j] => i = j

Cells == Seq(Clients \cup {Nil})

TypeInv ==
  /\ conns \in [Accounts -> [cells : Cells, used : Nat]]
  /\ subs \in [Sources -> SUBSET Clients]
  /\ place \in [Clients -> Places]
  /\ unread \in [Clients -> 0 .. ChanCap]
  /\ closed \subseteq Clients
  /\ sending \in [Msgs -> {"new", "waiting", "sent"}]
  /\ userq \in Seq(Msgs) /\ Len(userq) <= QueueCap
  /\ sourceq \in Seq(Updates) /\ Len(sourceq) <= QueueCap
  /\ router \in [msg : Msgs \cup {Nil}, cells : Cells, used : Nat, i : Nat \ {0},
                 shared : BOOLEAN, due : SUBSET Clients]
  /\ feeder \in [upd : Updates \cup {Nil}, served : SUBSET Clients, owed : SUBSET Clients]
  /\ stage \in {"up", "closed", "flushed"} /\ fate \in {"up", "panicked", "raced"}
  /\ told \subseteq Updates
  /\ got \in [Clients -> Seq(Msgs \cup Updates)]
  /\ shaken \subseteq Msgs

\* The slice of each user holds its clients, each once.
ConnsOK ==
  \A u \in Accounts :
    /\ conns[u].used <= Len(conns[u].cells)
    /\ \A i \in 1 .. conns[u].used : conns[u].cells[i] \in Clients /\ Owner[conns[u].cells[i]] = u
    /\ Distinct(conns[u].cells, conns[u].used)

\* It holds those that have registered and not left, until the server shuts down.
PlacesOK ==
  \A c \in Clients :
    /\ place[c] \in {"new", "gone"} => c \notin Listed
    /\ place[c] \in {"half", "on", "leaving"} /\ c \notin closed => c \in Listed

\* The slice in the router's hands, whatever became of its array.
SliceOK ==
  router.msg # Nil =>
    /\ router.used <= Len(router.cells)
    /\ \A j \in 1 .. router.used : router.cells[j] \in Clients
    /\ router.shared => router.cells = conns[To[router.msg]].cells

\* While no tab of the user closes, it stays what it was.
RoundOK ==
  router.msg # Nil /\ router.msg \notin shaken =>
    /\ Distinct(router.cells, router.used)
    /\ router.shared => router.used <= conns[To[router.msg]].used
    /\ \A c \in router.due : \E j \in router.i .. router.used : router.cells[j] = c
    /\ \A c \in Clients :
         In(c, router.msg) => \E j \in 1 .. router.used : j < router.i /\ router.cells[j] = c

\* An event for users is in one place.
UserEventsOK ==
  /\ Distinct(userq, Len(userq))
  /\ \A i \in 1 .. Len(userq) : userq[i] # router.msg /\ sending[userq[i]] = "sent"
  /\ router.msg # Nil => sending[router.msg] = "sent"
  /\ \A c \in Clients, m \in Msgs : In(c, m) =>
       sending[m] = "sent" /\ \A i \in 1 .. Len(userq) : userq[i] # m

\* So is an update of a source.
UpdatesOK ==
  /\ Distinct(sourceq, Len(sourceq))
  /\ \A i \in 1 .. Len(sourceq) : sourceq[i] # feeder.upd /\ sourceq[i] \in told
  /\ feeder.upd # Nil => feeder.upd \in told
  /\ \A c \in Clients, s \in Updates : In(c, s) =>
       /\ s \in told
       /\ \A i \in 1 .. Len(sourceq) : sourceq[i] # s
       /\ feeder.upd = s => c \in feeder.served

OnceOK == \A c \in Clients, m \in (Msgs \cup Updates) \ shaken : Once(c, m)

\* Nothing is closed before the end.
UpOK ==
  stage = "up" =>
    /\ closed = {} /\ fate # "panicked"
    /\ \A c \in Clients, s \in Sources : c \in subs[s] => place[c] \in {"on", "leaving"}

EInv == /\ TypeInv /\ ConnsOK /\ PlacesOK /\ SliceOK /\ RoundOK
        /\ UserEventsOK /\ UpdatesOK /\ OnceOK /\ UpOK

-------------------------------------------------------------------------------
(* Cells. *)

LEMMA NoCells ==
  /\ <<>> \in Cells /\ Len(<<>>) = 0
  /\ \A n \in Nat : [j \in 1 .. n - 1 |-> Nil] \in Cells
<1>1. <<>> \in Cells /\ Len(<<>>) = 0
  BY EmptySeq DEF Cells
<1>2. ASSUME NEW n \in Nat PROVE [j \in 1 .. n - 1 |-> Nil] \in Cells
  <2>1. CASE n = 0
    <3>1. 1 .. n - 1 = 1 .. 0
      BY <2>1
    <3>2. [j \in 1 .. n - 1 |-> Nil] \in [1 .. 0 -> Clients \cup {Nil}]
      BY <3>1
    <3> QED BY <3>2, SeqDef DEF Cells
  <2>2. CASE n # 0
    <3>1. n - 1 \in Nat
      BY <2>2
    <3>2. [j \in 1 .. n - 1 |-> Nil] \in [1 .. n - 1 -> Clients \cup {Nil}]
      OBVIOUS
    <3> QED BY <3>1, <3>2, SeqDef, Zenon DEF Cells
  <2> QED BY <2>1, <2>2
<1> QED BY <1>1, <1>2

LEMMA ConnsType ==
  ASSUME TypeInv, NEW u \in Accounts
  PROVE  /\ conns[u].cells \in Cells /\ conns[u].used \in Nat /\ Len(conns[u].cells) \in Nat
         /\ DOMAIN conns[u].cells = 1 .. Len(conns[u].cells)
BY LenProperties DEF TypeInv, Cells

LEMMA RouterType ==
  ASSUME TypeInv
  PROVE  /\ router.cells \in Cells /\ router.used \in Nat /\ router.i \in Nat \ {0}
         /\ router.shared \in BOOLEAN /\ router.due \in SUBSET Clients
         /\ router.msg \in Msgs \cup {Nil} /\ Len(router.cells) \in Nat
         /\ DOMAIN router.cells = 1 .. Len(router.cells)
<1>1. /\ router.cells \in Cells /\ router.used \in Nat /\ router.i \in Nat \ {0}
      /\ router.shared \in BOOLEAN /\ router.due \in SUBSET Clients
      /\ router.msg \in Msgs \cup {Nil}
  BY DEF TypeInv
<1> QED BY <1>1, LenProperties DEF Cells

\* Who is in a map, by place.
LEMMA ListedAt ==
  ASSUME NEW c \in Clients
  PROVE  c \in Listed <=> \E i \in 1 .. conns[Owner[c]].used : conns[Owner[c]].cells[i] = c
BY DEF Listed

LEMMA Home ==
  /\ \A c \in Clients : Owner[c] \in Accounts
  /\ \A m \in Msgs : To[m] \in Accounts
BY EventsAssumption

(* What Register leaves: the cells that were in use are as they were, one more is the  *)
(* client's, and the router's are as they were as far as the map's were in use.       *)
LEMMA AppendToOK ==
  ASSUME TypeInv, ConnsOK, SliceOK, NEW c \in Clients, c \notin Listed, AppendTo(Owner[c], c)
  PROVE  LET u == Owner[c] IN
         /\ conns' \in [Accounts -> [cells : Cells, used : Nat]]
         /\ \A v \in Accounts \ {u} : conns'[v] = conns[v]
         /\ conns'[u].used = conns[u].used + 1 /\ conns'[u].used <= Len(conns'[u].cells)
         /\ conns'[u].cells[conns[u].used + 1] = c
         /\ \A j \in 1 .. conns[u].used : conns'[u].cells[j] = conns[u].cells[j]
         /\ router' \in [msg : Msgs \cup {Nil}, cells : Cells, used : Nat, i : Nat \ {0},
                         shared : BOOLEAN, due : SUBSET Clients]
         /\ router'.msg = router.msg /\ router'.used = router.used /\ router'.i = router.i
         /\ router'.due = router.due
         /\ router'.shared => router.shared
         /\ Len(router'.cells) = Len(router.cells)
         /\ \A j \in 1 .. Len(router.cells) :
              \/ router'.cells[j] = router.cells[j]
              \/ /\ router'.cells[j] = c
                 /\ router.msg # Nil /\ router.shared /\ To[router.msg] = u /\ j = conns[u].used + 1
         /\ router'.msg # Nil /\ router'.shared => router'.cells = conns'[To[router.msg]].cells
<1> DEFINE u == Owner[c]
           a == conns[u]
<1>1. u \in Accounts /\ conns \in [Accounts -> [cells : Cells, used : Nat]]
  BY Home DEF TypeInv
<1>2. a.cells \in Cells /\ a.used \in Nat /\ Len(a.cells) \in Nat /\ a.used <= Len(a.cells)
  BY <1>1, ConnsType DEF ConnsOK
<1>3. router \in [msg : Msgs \cup {Nil}, cells : Cells, used : Nat, i : Nat \ {0},
                  shared : BOOLEAN, due : SUBSET Clients]
  BY DEF TypeInv
<1>4. router.cells \in Cells /\ router.msg \in Msgs \cup {Nil} /\ router.shared \in BOOLEAN
  BY <1>3
<1>5. CASE a.used < Len(a.cells)
  <2> DEFINE cells == [a.cells EXCEPT ![a.used + 1] = c]
  <2>1. a.used + 1 \in 1 .. Len(a.cells)
    BY <1>2, <1>5
  <2>2. /\ cells \in Cells /\ Len(cells) = Len(a.cells)
        /\ \A j \in 1 .. Len(a.cells) : cells[j] = IF j = a.used + 1 THEN c ELSE a.cells[j]
    BY <1>2, <2>1, ExceptSeq DEF Cells
  <2>3. /\ conns' = [conns EXCEPT ![u] = [cells |-> cells, used |-> a.used + 1]]
        /\ router' = IF Shares(u) THEN [router EXCEPT !.cells = cells] ELSE router
    BY <1>5 DEF AppendTo, InPlace
  <2> HIDE DEF cells
  <2>4. /\ conns'[u].cells = cells /\ conns'[u].used = a.used + 1
        /\ conns' \in [Accounts -> [cells : Cells, used : Nat]]
        /\ \A v \in Accounts \ {u} : conns'[v] = conns[v]
    BY <1>1, <1>2, <2>2, <2>3
  <2>5. /\ conns'[u].used <= Len(conns'[u].cells)
        /\ conns'[u].cells[a.used + 1] = c
        /\ \A j \in 1 .. a.used : conns'[u].cells[j] = a.cells[j]
    <3> HIDE DEF a
    <3>1. a.used + 1 <= Len(cells) /\ cells[a.used + 1] = c
      BY <1>2, <1>5, <2>1, <2>2
    <3>2. \A j \in 1 .. a.used : j \in 1 .. Len(a.cells) /\ j # a.used + 1
      BY <1>2
    <3>3. \A j \in 1 .. a.used : cells[j] = a.cells[j]
      BY <2>2, <3>2
    <3> QED BY <2>4, <3>1, <3>3
  <2>6. CASE Shares(u)
    <3>1. router.msg # Nil /\ router.shared /\ To[router.msg] = u
      BY <2>6 DEF Shares
    <3>2. router.cells = a.cells
      BY <3>1 DEF SliceOK
    <3>3. router' = [router EXCEPT !.cells = cells]
      BY <2>3, <2>6
    <3>4. /\ router' \in [msg : Msgs \cup {Nil}, cells : Cells, used : Nat, i : Nat \ {0},
                         shared : BOOLEAN, due : SUBSET Clients]
          /\ router'.msg = router.msg /\ router'.used = router.used /\ router'.i = router.i
          /\ router'.due = router.due /\ router'.shared = router.shared /\ router'.cells = cells
      BY <1>3, <2>2, <3>3
    <3> QED BY <2>2, <2>4, <2>5, <3>1, <3>2, <3>4
  <2>7. CASE ~Shares(u)
    <3>1. router' = router /\ ~(router.msg # Nil /\ router.shared /\ To[router.msg] = u)
      BY <2>3, <2>7 DEF Shares
    <3>2. router.msg # Nil => To[router.msg] \in Accounts
      BY <1>4, Home
    <3>3. router.msg # Nil /\ router.shared => router.cells = conns'[To[router.msg]].cells
      BY <2>4, <3>1, <3>2 DEF SliceOK
    <3> QED BY <1>3, <2>4, <2>5, <3>1, <3>3
  <2> QED BY <2>6, <2>7
<1>6. CASE ~(a.used < Len(a.cells))
  <2> DEFINE pad == [j \in 1 .. a.used - 1 |-> Nil]
             front == a.cells \o <<c>>
             cells == front \o pad
  <2>1. Len(a.cells) = a.used
    BY <1>2, <1>6
  <2>2. pad \in Cells /\ <<c>> \in Cells /\ Len(<<c>>) = 1 /\ <<c>>[1] = c
    BY <1>2, NoCells DEF Cells
  <2>3. /\ front \in Cells /\ Len(front) = a.used + 1
        /\ \A j \in 1 .. a.used + 1 : front[j] = IF j <= a.used THEN a.cells[j] ELSE <<c>>[j - a.used]
    <3> HIDE DEF a
    <3>1. /\ a.cells \o <<c>> \in Cells /\ Len(a.cells \o <<c>>) = Len(a.cells) + Len(<<c>>)
          /\ \A j \in 1 .. Len(a.cells) + Len(<<c>>) : (a.cells \o <<c>>)[j] =
               IF j <= Len(a.cells) THEN a.cells[j] ELSE <<c>>[j - Len(a.cells)]
      BY <1>2, <2>2, ConcatProperties, Zenon DEF Cells
    <3> QED BY <2>1, <2>2, <3>1
  <2>4. Len(pad) \in Nat
    BY <2>2, LenProperties DEF Cells
  <2> HIDE DEF pad, front
  <2>5. /\ cells \in Cells /\ Len(cells) = a.used + 1 + Len(pad)
        /\ \A j \in 1 .. a.used + 1 + Len(pad) :
             cells[j] = IF j <= a.used + 1 THEN front[j] ELSE pad[j - (a.used + 1)]
    <3> HIDE DEF a
    <3>1. /\ front \o pad \in Cells /\ Len(front \o pad) = Len(front) + Len(pad)
          /\ \A j \in 1 .. Len(front) + Len(pad) : (front \o pad)[j] =
               IF j <= Len(front) THEN front[j] ELSE pad[j - Len(front)]
      BY <2>2, <2>3, ConcatProperties, Zenon DEF Cells
    <3> QED BY <2>3, <3>1
  <2>6. /\ conns' = [conns EXCEPT ![u] = [cells |-> cells, used |-> a.used + 1]]
        /\ router' = IF Shares(u) THEN [router EXCEPT !.shared = FALSE] ELSE router
    BY <1>6 DEF AppendTo, Anew, pad, front
  <2> HIDE DEF cells
  <2>7. /\ conns'[u].cells = cells /\ conns'[u].used = a.used + 1
        /\ conns' \in [Accounts -> [cells : Cells, used : Nat]]
        /\ \A v \in Accounts \ {u} : conns'[v] = conns[v]
    BY <1>1, <1>2, <2>5, <2>6
  <2>8. /\ conns'[u].used <= Len(conns'[u].cells)
        /\ conns'[u].cells[a.used + 1] = c
        /\ \A j \in 1 .. a.used : conns'[u].cells[j] = a.cells[j]
    <3> HIDE DEF a
    <3>1. a.used + 1 <= Len(cells) /\ a.used + 1 \in 1 .. a.used + 1 + Len(pad)
      BY <1>2, <2>4, <2>5
    <3>2. front[a.used + 1] = c
      BY <1>2, <2>2, <2>3
    <3>3. cells[a.used + 1] = c
      BY <1>2, <2>5, <3>1, <3>2
    <3>4. ASSUME NEW j \in 1 .. a.used PROVE cells[j] = a.cells[j]
      <4>1. j \in 1 .. a.used + 1 /\ j \in 1 .. a.used + 1 + Len(pad) /\ j <= a.used
        BY <1>2, <2>4
      <4>2. cells[j] = front[j]
        BY <1>2, <2>5, <4>1
      <4>3. front[j] = a.cells[j]
        BY <2>3, <4>1
      <4> QED BY <4>2, <4>3
    <3> QED BY <2>7, <3>1, <3>3, <3>4
  <2>9. /\ router' \in [msg : Msgs \cup {Nil}, cells : Cells, used : Nat, i : Nat \ {0},
                        shared : BOOLEAN, due : SUBSET Clients]
        /\ router'.msg = router.msg /\ router'.used = router.used /\ router'.i = router.i
        /\ router'.due = router.due /\ router'.cells = router.cells
        /\ router'.shared => router.shared /\ ~Shares(u)
    BY <1>3, <2>6
  <2>10. router'.msg # Nil /\ router'.shared => router'.cells = conns'[To[router.msg]].cells
    <3>1. router.msg # Nil => To[router.msg] \in Accounts
      BY <1>4, Home
    <3> QED BY <2>7, <2>9, <3>1 DEF SliceOK, Shares
  <2> QED BY <2>7, <2>8, <2>9, <2>10
<1> QED BY <1>5, <1>6

(* What Unregister leaves: whoever was in use and is not the client still is, once; in  *)
(* the router's hands the cells change only if its round is shaken.                    *)
LEMMA TakeOK ==
  ASSUME TypeInv, ConnsOK, SliceOK, NEW c \in Clients, c \in Listed, Take(Owner[c], c)
  PROVE  LET u == Owner[c] IN
         /\ conns' \in [Accounts -> [cells : Cells, used : Nat]]
         /\ \A v \in Accounts \ {u} : conns'[v] = conns[v]
         /\ conns'[u].used <= Len(conns'[u].cells)
         /\ \A j \in 1 .. conns'[u].used :
              conns'[u].cells[j] \in {conns[u].cells[i] : i \in 1 .. conns[u].used} \ {c}
         /\ Distinct(conns'[u].cells, conns'[u].used)
         /\ \A i \in 1 .. conns[u].used : conns[u].cells[i] # c =>
              \E j \in 1 .. conns'[u].used : conns'[u].cells[j] = conns[u].cells[i]
         /\ router' \in [msg : Msgs \cup {Nil}, cells : Cells, used : Nat, i : Nat \ {0},
                         shared : BOOLEAN, due : SUBSET Clients]
         /\ router'.msg = router.msg /\ router'.used = router.used /\ router'.i = router.i
         /\ router'.due = router.due
         /\ router'.shared => router.shared
         /\ Len(router'.cells) = Len(router.cells)
         /\ \A j \in 1 .. router.used : router.msg # Nil => router'.cells[j] \in Clients
         /\ router'.msg # Nil /\ router'.shared => router'.cells = conns'[To[router.msg]].cells
         /\ router.msg # Nil /\ router.msg \notin shaken' =>
              router'.cells = router.cells /\ To[router.msg] # u
         /\ shaken' \in {shaken, shaken \cup {router.msg}} /\ (router.msg = Nil => shaken' = shaken)
<1> DEFINE u == Owner[c]
           a == conns[u]
           i == CHOOSE i \in 1 .. a.used : a.cells[i] = c
           moved == [j \in 1 .. Len(a.cells) |->
                       IF i <= j /\ j < a.used THEN a.cells[j + 1] ELSE a.cells[j]]
<1>1. u \in Accounts /\ conns \in [Accounts -> [cells : Cells, used : Nat]]
  BY Home DEF TypeInv
<1>2. /\ a.cells \in Cells /\ a.used \in Nat /\ Len(a.cells) \in Nat /\ a.used <= Len(a.cells)
      /\ \A j \in 1 .. a.used : a.cells[j] \in Clients
      /\ Distinct(a.cells, a.used)
  BY <1>1, ConnsType DEF ConnsOK
<1>3. router \in [msg : Msgs \cup {Nil}, cells : Cells, used : Nat, i : Nat \ {0},
                  shared : BOOLEAN, due : SUBSET Clients]
  BY DEF TypeInv
<1>4. /\ router.cells \in Cells /\ router.msg \in Msgs \cup {Nil} /\ router.shared \in BOOLEAN
      /\ router.used \in Nat
      /\ router.msg # Nil => To[router.msg] \in Accounts
  BY <1>3, Home
<1>5. i \in 1 .. a.used /\ a.cells[i] = c
  <2>1. \E j \in 1 .. a.used : a.cells[j] = c
    BY ListedAt
  <2> QED BY <2>1
<1>6. /\ IF a.used = 1 THEN Anew(u, <<>>, 0) ELSE InPlace(u, moved, a.used - 1)
      /\ shaken' = IF router.msg # Nil /\ To[router.msg] = u THEN shaken \cup {router.msg} ELSE shaken
  BY DEF Take
<1>7. \A j \in 1 .. Len(a.cells) : moved[j] = IF i <= j /\ j < a.used THEN a.cells[j + 1] ELSE a.cells[j]
  OBVIOUS
<1>8. moved \in Cells /\ Len(moved) = Len(a.cells)
  <2> HIDE DEF i
  <2>1. \A j \in 1 .. Len(a.cells) : a.cells[j] \in Clients \cup {Nil}
    BY <1>2, ElementOfSeq DEF Cells
  <2>2. moved \in [1 .. Len(a.cells) -> Clients \cup {Nil}]
    BY <1>2, <1>5, <2>1
  <2> HIDE DEF moved, a
  <2> QED BY <1>2, <2>2 DEF Cells
<1>9. \A j \in 1 .. Len(a.cells) : j <= a.used - 1 => moved[j] = IF j < i THEN a.cells[j] ELSE a.cells[j + 1]
  <2> HIDE DEF i, moved, a
  <2>1. i \in Nat /\ a.used \in Nat /\ Len(a.cells) \in Nat
    BY <1>2, <1>5
  <2>2. \A j \in 1 .. Len(a.cells) : j <= a.used - 1 => (j < a.used /\ (j < i <=> ~(i <= j)))
    BY <2>1
  <2> QED BY <1>7, <2>2
<1> HIDE DEF i, moved
<1>10. CASE a.used = 1
  <2>1. /\ conns' = [conns EXCEPT ![u] = [cells |-> <<>>, used |-> 0]]
        /\ router' = IF Shares(u) THEN [router EXCEPT !.shared = FALSE] ELSE router
    BY <1>6, <1>10 DEF Anew
  <2>2. /\ conns'[u].cells = <<>> /\ conns'[u].used = 0
        /\ conns' \in [Accounts -> [cells : Cells, used : Nat]]
        /\ \A v \in Accounts \ {u} : conns'[v] = conns[v]
    BY <1>1, <2>1, NoCells
  <2>3. /\ router' \in [msg : Msgs \cup {Nil}, cells : Cells, used : Nat, i : Nat \ {0},
                        shared : BOOLEAN, due : SUBSET Clients]
        /\ router'.msg = router.msg /\ router'.used = router.used /\ router'.i = router.i
        /\ router'.due = router.due /\ router'.cells = router.cells
        /\ router'.shared => router.shared /\ ~Shares(u)
    BY <1>3, <2>1
  <2>4. router'.msg # Nil /\ router'.shared => router'.cells = conns'[To[router.msg]].cells
    BY <1>4, <2>2, <2>3 DEF SliceOK, Shares
  <2>5. \A j \in 1 .. a.used : a.cells[j] = c
    BY <1>5, <1>10
  <2>6. conns'[u].used <= Len(conns'[u].cells) /\ Distinct(conns'[u].cells, conns'[u].used)
    BY <2>2, NoCells DEF Distinct
  <2>7. \A j \in 1 .. router.used : router.msg # Nil => router'.cells[j] \in Clients
    BY <2>3 DEF SliceOK
  <2>8. router.msg # Nil /\ router.msg \notin shaken' => To[router.msg] # u
    BY <1>6
  <2>9. \A j \in 1 .. conns'[u].used : FALSE
    BY <2>2
  <2> HIDE DEF a
  <2> QED BY <1>6, <2>2, <2>3, <2>4, <2>5, <2>6, <2>7, <2>8, <2>9 DEF a
<1>11. CASE a.used # 1
  <2>1. /\ conns' = [conns EXCEPT ![u] = [cells |-> moved, used |-> a.used - 1]]
        /\ router' = IF Shares(u) THEN [router EXCEPT !.cells = moved] ELSE router
    BY <1>6, <1>11 DEF InPlace
  <2>2. a.used - 1 \in Nat
    BY <1>2, <1>5
  <2>3. /\ conns'[u].cells = moved /\ conns'[u].used = a.used - 1
        /\ conns' \in [Accounts -> [cells : Cells, used : Nat]]
        /\ \A v \in Accounts \ {u} : conns'[v] = conns[v]
    BY <1>1, <1>8, <2>1, <2>2
  <2>4. ASSUME NEW j \in 1 .. a.used - 1
        PROVE  \E k \in 1 .. a.used : moved[j] = a.cells[k] /\ k # i /\ k = IF j < i THEN j ELSE j + 1
    <3>1. j \in 1 .. Len(a.cells) /\ j <= a.used - 1 /\ j \in 1 .. a.used /\ j + 1 \in 1 .. a.used
      BY <1>2
    <3>2. i \in Nat
      BY <1>2, <1>5
    <3>3. CASE j < i
      BY <1>9, <3>1, <3>2, <3>3
    <3>4. CASE ~(j < i)
      BY <1>9, <3>1, <3>2, <3>4
    <3> QED BY <3>3, <3>4
  <2>5. \A j \in 1 .. conns'[u].used : conns'[u].cells[j] \in {a.cells[k] : k \in 1 .. a.used} \ {c}
    <3>1. \A k \in 1 .. a.used : k # i => a.cells[k] # c
      BY <1>2, <1>5 DEF Distinct
    <3> HIDE DEF a
    <3> QED BY <2>3, <2>4, <3>1
  <2>6. Distinct(conns'[u].cells, conns'[u].used)
    <3> SUFFICES ASSUME NEW j \in 1 .. a.used - 1, NEW l \in 1 .. a.used - 1, moved[j] = moved[l]
                 PROVE  j = l
      BY <2>3 DEF Distinct
    <3>1. PICK k \in 1 .. a.used : moved[j] = a.cells[k] /\ k = IF j < i THEN j ELSE j + 1
      BY <2>4
    <3>2. PICK m \in 1 .. a.used : moved[l] = a.cells[m] /\ m = IF l < i THEN l ELSE l + 1
      BY <2>4
    <3>3. k = m
      BY <1>2, <3>1, <3>2 DEF Distinct
    <3>4. i \in Nat /\ j \in Nat /\ l \in Nat
      BY <1>2, <1>5
    <3> HIDE DEF a
    <3> QED BY <3>1, <3>2, <3>3, <3>4
  <2>7. ASSUME NEW k \in 1 .. a.used, a.cells[k] # c
        PROVE  \E j \in 1 .. conns'[u].used : conns'[u].cells[j] = a.cells[k]
    <3>1. k # i /\ k \in Nat /\ i \in Nat
      BY <1>2, <1>5, <2>7
    <3>2. CASE k < i
      <4>1. k \in 1 .. a.used - 1 /\ k \in 1 .. Len(a.cells) /\ k <= a.used - 1
        BY <1>2, <1>5, <3>1, <3>2
      <4>2. moved[k] = a.cells[k]
        BY <1>9, <3>2, <4>1
      <4> QED BY <2>3, <4>1, <4>2
    <3>3. CASE k > i
      <4>1. k - 1 \in 1 .. a.used - 1 /\ k - 1 \in 1 .. Len(a.cells) /\ k - 1 <= a.used - 1
            /\ ~(k - 1 < i) /\ k - 1 + 1 = k
        BY <1>2, <1>5, <3>1, <3>3
      <4>2. moved[k - 1] = a.cells[k]
        BY <1>9, <4>1
      <4> QED BY <2>3, <4>1, <4>2
    <3> QED BY <3>1, <3>2, <3>3
  <2>8. conns'[u].used <= Len(conns'[u].cells)
    BY <1>2, <1>8, <2>3
  <2>9. router.msg # Nil /\ router.msg \notin shaken' => To[router.msg] # u
    BY <1>6
  <2>10. CASE Shares(u)
    <3>1. router.msg # Nil /\ router.shared /\ To[router.msg] = u
      BY <2>10 DEF Shares
    <3>2. router.cells = a.cells
      BY <3>1 DEF SliceOK
    <3>3. router' = [router EXCEPT !.cells = moved]
      BY <2>1, <2>10
    <3>4. /\ router' \in [msg : Msgs \cup {Nil}, cells : Cells, used : Nat, i : Nat \ {0},
                         shared : BOOLEAN, due : SUBSET Clients]
          /\ router'.msg = router.msg /\ router'.used = router.used /\ router'.i = router.i
          /\ router'.due = router.due /\ router'.shared = router.shared /\ router'.cells = moved
      BY <1>3, <1>8, <3>3
    <3>5. ASSUME NEW j \in 1 .. router.used PROVE router'.cells[j] \in Clients
      <4>1. j \in 1 .. Len(a.cells) /\ a.cells[j] \in Clients
        BY <1>2, <1>4, <3>1, <3>2 DEF SliceOK
      <4>2. j < a.used => j + 1 \in 1 .. a.used
        BY <1>2
      <4>3. moved[j] \in Clients
        BY <1>2, <1>7, <4>1, <4>2 DEF moved
      <4> QED BY <3>4, <4>3
    <3> HIDE DEF a
    <3> QED BY <1>6, <1>8, <2>3, <2>5, <2>6, <2>7, <2>8, <2>9, <3>1, <3>2, <3>4, <3>5 DEF a
  <2>11. CASE ~Shares(u)
    <3>1. router' = router /\ ~(router.msg # Nil /\ router.shared /\ To[router.msg] = u)
      BY <2>1, <2>11 DEF Shares
    <3>2. router.msg # Nil /\ router.shared => router.cells = conns'[To[router.msg]].cells
      BY <1>4, <2>3, <3>1 DEF SliceOK
    <3>3. \A j \in 1 .. router.used : router.msg # Nil => router.cells[j] \in Clients
      BY DEF SliceOK
    <3> HIDE DEF a
    <3> QED BY <1>3, <1>6, <2>3, <2>5, <2>6, <2>7, <2>8, <2>9, <3>1, <3>2, <3>3 DEF a
  <2> QED BY <2>10, <2>11
<1> QED BY <1>10, <1>11

-------------------------------------------------------------------------------
(* What an action leaves alone. *)

LEMMA SameIn ==
  ASSUME got' = got
  PROVE  \A c, m : (In(c, m)' <=> In(c, m)) /\ (Once(c, m)' <=> Once(c, m))
BY DEF In, Once

LEMMA SameUserEvents ==
  ASSUME UserEventsOK, UNCHANGED <<got, userq, sending>>, router'.msg = router.msg
  PROVE  UserEventsOK'
<1>1. \A c, m : In(c, m)' <=> In(c, m)
  BY SameIn
<1> QED BY <1>1 DEF UserEventsOK, Distinct

LEMMA SameUpdates ==
  ASSUME TypeInv, UpdatesOK, UNCHANGED <<got, sourceq, told>>, feeder' = feeder \/ feeder' = Resting
  PROVE  UpdatesOK'
<1>1. \A c, m : In(c, m)' <=> In(c, m)
  BY SameIn
<1>2. CASE feeder' = feeder
  BY <1>1, <1>2 DEF UpdatesOK, Distinct
<1>3. CASE feeder' = Resting
  <2>1. feeder'.upd = Nil
    BY <1>3 DEF Resting
  <2>2. \A i \in 1 .. Len(sourceq) : sourceq[i] # Nil
    BY ElementOfSeq, EventsAssumption DEF TypeInv
  <2>3. \A s \in Updates : s # Nil
    BY EventsAssumption
  <2> QED BY <1>1, <2>1, <2>2, <2>3 DEF UpdatesOK, Distinct
<1> QED BY <1>2, <1>3

LEMMA SameOnce ==
  ASSUME OnceOK, got' = got, shaken \subseteq shaken'
  PROVE  OnceOK'
BY SameIn DEF OnceOK

LEMMA SameSlices ==
  ASSUME TypeInv, ConnsOK, SliceOK, RoundOK, UNCHANGED <<conns, router, got, shaken>>
  PROVE  ConnsOK' /\ SliceOK' /\ RoundOK'
<1>1. \A c, m : In(c, m)' <=> In(c, m)
  BY SameIn
<1>2. ConnsOK' /\ SliceOK'
  BY DEF ConnsOK, SliceOK, Distinct
<1>3. RoundOK'
  BY <1>1 DEF RoundOK, Distinct
<1> QED BY <1>2, <1>3

LEMMA RoundNext ==
  ASSUME /\ Distinct(router'.cells, router'.used)
         /\ router'.shared => router'.used <= conns'[To[router'.msg]].used
         /\ \A d \in router'.due : \E j \in router'.i .. router'.used : router'.cells[j] = d
         /\ \A d \in Clients : (\E n \in 1 .. Len(got'[d]) : got'[d][n] = router'.msg) =>
              \E j \in 1 .. router'.used : j < router'.i /\ router'.cells[j] = d
  PROVE  RoundOK'
BY DEF RoundOK, In, Distinct

LEMMA SameListed == ASSUME conns' = conns PROVE Listed' = Listed
BY DEF Listed

\* The watchers change.
LEMMA WatchersOK ==
  ASSUME TypeInv, NEW new \in [Sources -> SUBSET Clients], Watchers(new)
  PROVE  /\ subs' = new
         /\ feeder' \in [upd : Updates \cup {Nil}, served : SUBSET Clients, owed : SUBSET Clients]
         /\ feeder' = feeder \/ feeder' = Resting
         /\ fate' \in {"up", "panicked", "raced"} /\ (fate' = fate \/ fate' # "panicked")
BY DEF Watchers, TypeInv, Resting

-------------------------------------------------------------------------------
(* Clients. *)

LEMMA RegisterOK ==
  ASSUME EInv, NEW c \in Clients, Register(c)
  PROVE  EInv'
<1> DEFINE u == Owner[c]
<1>1. TypeInv /\ ConnsOK /\ PlacesOK /\ SliceOK /\ RoundOK /\ UserEventsOK /\ UpdatesOK /\ OnceOK /\ UpOK
  BY DEF EInv
<1>2. /\ place[c] = "new" /\ place' = [place EXCEPT ![c] = "half"] /\ AppendTo(u, c)
      /\ UNCHANGED <<subs, unread, closed, sending, userq, sourceq, feeder, stage, fate, told, got, shaken>>
  BY DEF Register
<1>3. c \notin Listed
  BY <1>1, <1>2 DEF PlacesOK
<1>4. /\ conns' \in [Accounts -> [cells : Cells, used : Nat]]
      /\ \A v \in Accounts \ {u} : conns'[v] = conns[v]
      /\ conns'[u].used = conns[u].used + 1 /\ conns'[u].used <= Len(conns'[u].cells)
      /\ conns'[u].cells[conns[u].used + 1] = c
      /\ \A j \in 1 .. conns[u].used : conns'[u].cells[j] = conns[u].cells[j]
  BY <1>1, <1>2, <1>3, AppendToOK
<1>5. /\ router' \in [msg : Msgs \cup {Nil}, cells : Cells, used : Nat, i : Nat \ {0},
                      shared : BOOLEAN, due : SUBSET Clients]
      /\ router'.msg = router.msg /\ router'.used = router.used /\ router'.i = router.i
      /\ router'.due = router.due
      /\ router'.shared => router.shared
      /\ Len(router'.cells) = Len(router.cells)
      /\ \A j \in 1 .. Len(router.cells) :
           \/ router'.cells[j] = router.cells[j]
           \/ /\ router'.cells[j] = c
              /\ router.msg # Nil /\ router.shared /\ To[router.msg] = u /\ j = conns[u].used + 1
      /\ router'.msg # Nil /\ router'.shared => router'.cells = conns'[To[router.msg]].cells
  BY <1>1, <1>2, <1>3, AppendToOK
<1>6. u \in Accounts /\ conns[u].used \in Nat /\ conns'[u].used \in Nat
  BY <1>1, <1>4, Home, ConnsType
<1>7. \A j \in 1 .. conns[u].used : conns[u].cells[j] # c
  BY <1>3, ListedAt
<1>8. place \in [Clients -> Places] /\ place'[c] = "half" /\ \A d \in Clients \ {c} : place'[d] = place[d]
  BY <1>1, <1>2 DEF TypeInv
<1>9. TypeInv'
  BY <1>1, <1>2, <1>4, <1>5 DEF TypeInv, Places
<1>10. ConnsOK'
  <2>1. ASSUME NEW v \in Accounts \ {u}
        PROVE  /\ conns'[v].used <= Len(conns'[v].cells)
               /\ \A i \in 1 .. conns'[v].used : conns'[v].cells[i] \in Clients /\ Owner[conns'[v].cells[i]] = v
               /\ Distinct(conns'[v].cells, conns'[v].used)
    BY <1>1, <1>4 DEF ConnsOK
  <2>2. \A i \in 1 .. conns'[u].used : i \in 1 .. conns[u].used \/ i = conns[u].used + 1
    BY <1>4, <1>6
  <2>3. \A i \in 1 .. conns'[u].used : conns'[u].cells[i] \in Clients /\ Owner[conns'[u].cells[i]] = u
    BY <1>1, <1>4, <1>6, <2>2 DEF ConnsOK
  <2>4. Distinct(conns'[u].cells, conns'[u].used)
    <3> SUFFICES ASSUME NEW i \in 1 .. conns'[u].used, NEW j \in 1 .. conns'[u].used,
                        conns'[u].cells[i] = conns'[u].cells[j]
                 PROVE  i = j
      BY DEF Distinct
    <3>1. \A k \in 1 .. conns[u].used : conns'[u].cells[k] = conns[u].cells[k] /\ conns[u].cells[k] # c
      BY <1>4, <1>7
    <3>2. CASE i \in 1 .. conns[u].used /\ j \in 1 .. conns[u].used
      BY <1>1, <1>6, <3>1, <3>2 DEF ConnsOK, Distinct
    <3>3. CASE i = conns[u].used + 1 \/ j = conns[u].used + 1
      BY <1>4, <2>2, <3>1, <3>3
    <3> QED BY <2>2, <3>2, <3>3
  <2> QED BY <1>4, <2>1, <2>3, <2>4 DEF ConnsOK
<1>11. \A d \in Clients : d \in Listed' <=> d \in Listed \/ d = c
  <2> SUFFICES ASSUME NEW d \in Clients PROVE d \in Listed' <=> d \in Listed \/ d = c
    OBVIOUS
  <2>1. d \in Listed' <=> \E i \in 1 .. conns'[Owner[d]].used : conns'[Owner[d]].cells[i] = d
    BY DEF Listed
  <2>2. d \in Listed <=> \E i \in 1 .. conns[Owner[d]].used : conns[Owner[d]].cells[i] = d
    BY ListedAt
  <2>3. CASE Owner[d] # u
    BY <1>4, <2>1, <2>2, <2>3, Home
  <2>4. CASE Owner[d] = u
    <3>1. \A i \in 1 .. conns'[u].used : i \in 1 .. conns[u].used \/ i = conns[u].used + 1
      BY <1>4, <1>6
    <3>2. conns[u].used + 1 \in 1 .. conns'[u].used /\ \A i \in 1 .. conns[u].used : i \in 1 .. conns'[u].used
      BY <1>4, <1>6
    <3> QED BY <1>4, <2>1, <2>2, <2>4, <3>1, <3>2
  <2> QED BY <2>3, <2>4
<1>12. PlacesOK'
  BY <1>1, <1>2, <1>8, <1>11 DEF PlacesOK
<1>13. router.used \in Nat /\ Len(router.cells) \in Nat
  BY <1>1, RouterType
<1>14. SliceOK'
  BY <1>1, <1>4, <1>5, <1>13 DEF SliceOK
<1>15. RoundOK'
  <2> SUFFICES ASSUME router.msg # Nil, router.msg \notin shaken PROVE RoundOK'
    BY <1>2, <1>5 DEF RoundOK
  <2>1. \A j \in 1 .. router.used : router'.cells[j] = router.cells[j]
    <3>1. router.shared => router.used <= conns[To[router.msg]].used
      BY <1>1 DEF RoundOK
    <3>2. router.used <= Len(router.cells)
      BY <1>1 DEF SliceOK
    <3> QED BY <1>5, <1>6, <1>13, <3>1, <3>2
  <2>2. router'.shared => router.used <= conns'[To[router.msg]].used
    <3>1. To[router.msg] \in Accounts
      BY <1>1, RouterType, Home
    <3>2. router.shared => router.used <= conns[To[router.msg]].used
      BY <1>1 DEF RoundOK
    <3>3. conns'[To[router.msg]].used = conns[To[router.msg]].used
          \/ conns'[To[router.msg]].used = conns[To[router.msg]].used + 1
      BY <1>4, <3>1
    <3>4. conns[To[router.msg]].used \in Nat
      BY <1>1, <3>1, ConnsType
    <3>5. router'.shared => router.used <= conns[To[router.msg]].used
      BY <1>5, <3>2
    <3> QED BY <1>13, <3>3, <3>4, <3>5
  <2>3. Distinct(router'.cells, router.used)
    BY <1>1, <2>1 DEF RoundOK, Distinct
  <2>4. \A d \in router.due : \E j \in router.i .. router.used : router'.cells[j] = d
    <3>1. \A j \in router.i .. router.used : j \in 1 .. router.used
      BY <1>1, RouterType
    <3> QED BY <1>1, <2>1, <3>1 DEF RoundOK
  <2>5. \A d \in Clients : In(d, router.msg) => \E j \in 1 .. router.used : j < router.i /\ router'.cells[j] = d
    BY <1>1, <2>1 DEF RoundOK
  <2>6. \A d \in Clients : (\E n \in 1 .. Len(got'[d]) : got'[d][n] = router'.msg) =>
          \E j \in 1 .. router.used : j < router.i /\ router'.cells[j] = d
    BY <1>2, <1>5, <2>5 DEF In
  <2>7. router'.used = router.used /\ router'.i = router.i /\ router'.due = router.due /\ router'.msg = router.msg
    BY <1>5
  <2> QED BY <2>2, <2>3, <2>4, <2>6, <2>7, RoundNext
<1>16. UserEventsOK' /\ UpdatesOK' /\ OnceOK'
  BY <1>1, <1>2, <1>5, SameUserEvents, SameUpdates, SameOnce
<1>17. UpOK'
  BY <1>1, <1>2, <1>8 DEF UpOK
<1> QED BY <1>9, <1>10, <1>12, <1>14, <1>15, <1>16, <1>17 DEF EInv

LEMMA UnregisterOK ==
  ASSUME EInv, NEW c \in Clients, Unregister(c)
  PROVE  EInv'
<1> DEFINE u == Owner[c]
<1>1. TypeInv /\ ConnsOK /\ PlacesOK /\ SliceOK /\ RoundOK /\ UserEventsOK /\ UpdatesOK /\ OnceOK /\ UpOK
  BY DEF EInv
<1>2. /\ place[c] = "leaving" /\ place' = [place EXCEPT ![c] = "gone"]
      /\ IF c \in Listed THEN Take(u, c) ELSE UNCHANGED <<conns, router, shaken>>
      /\ IF conns[u].used = 0
         THEN UNCHANGED <<subs, feeder, fate>>
         ELSE Watchers([s \in Sources |-> subs[s] \ {c}])
      /\ UNCHANGED <<unread, closed, sending, userq, sourceq, stage, told, got>>
  BY DEF Unregister
<1>3. place \in [Clients -> Places] /\ place'[c] = "gone" /\ \A d \in Clients \ {c} : place'[d] = place[d]
  BY <1>1, <1>2 DEF TypeInv
<1>4. place' \in [Clients -> Places]
  BY <1>2, <1>3 DEF Places
<1>5. /\ subs' \in [Sources -> SUBSET Clients]
      /\ feeder' \in [upd : Updates \cup {Nil}, served : SUBSET Clients, owed : SUBSET Clients]
      /\ feeder' = feeder \/ feeder' = Resting
      /\ fate' \in {"up", "panicked", "raced"} /\ (fate' = fate \/ fate' # "panicked")
      /\ conns[u].used # 0 => \A s \in Sources : subs'[s] = subs[s] \ {c}
      /\ conns[u].used = 0 => subs' = subs
  <2>1. [s \in Sources |-> subs[s] \ {c}] \in [Sources -> SUBSET Clients]
    BY <1>1 DEF TypeInv
  <2>2. CASE conns[u].used = 0
    BY <1>1, <1>2, <2>2 DEF TypeInv
  <2>3. CASE conns[u].used # 0
    <3>1. Watchers([s \in Sources |-> subs[s] \ {c}])
      BY <1>2, <2>3
    <3>2. subs' = [s \in Sources |-> subs[s] \ {c}]
      BY <1>1, <2>1, <3>1, WatchersOK
    <3> QED BY <1>1, <2>1, <2>3, <3>1, <3>2, WatchersOK
  <2> QED BY <2>2, <2>3
<1>6. UpdatesOK'
  BY <1>1, <1>2, <1>5, SameUpdates
<1>7. UpOK'
  <2> SUFFICES ASSUME stage = "up" PROVE UpOK'
    BY <1>2 DEF UpOK
  <2>1. closed = {} /\ fate' # "panicked"
    BY <1>1, <1>5 DEF UpOK
  <2>2. conns[u].used # 0
    <3>1. c \in Listed
      BY <1>1, <1>2, <2>1 DEF PlacesOK
    <3>2. conns[u].used \in Nat
      BY <1>1, Home, ConnsType
    <3> QED BY <3>1, <3>2, ListedAt
  <2>3. \A d \in Clients, s \in Sources : d \in subs'[s] => d # c /\ d \in subs[s]
    BY <1>5, <2>2
  <2>4. \A d \in Clients, s \in Sources : d \in subs'[s] => place'[d] \in {"on", "leaving"}
    BY <1>1, <1>3, <2>3 DEF UpOK
  <2> QED BY <1>2, <2>1, <2>4 DEF UpOK
<1>8. CASE c \notin Listed
  <2>1. UNCHANGED <<conns, router, shaken, got>>
    BY <1>2, <1>8
  <2>2. TypeInv'
    BY <1>1, <1>2, <1>4, <1>5, <2>1 DEF TypeInv
  <2>3. ConnsOK' /\ SliceOK' /\ RoundOK'
    BY <1>1, <2>1, SameSlices
  <2>4. Listed' = Listed
    BY <2>1, SameListed
  <2>5. PlacesOK'
    BY <1>1, <1>2, <1>3, <1>8, <2>4 DEF PlacesOK
  <2>6. UserEventsOK' /\ OnceOK'
    BY <1>1, <1>2, <2>1, SameUserEvents, SameOnce
  <2> QED BY <1>6, <1>7, <2>2, <2>3, <2>5, <2>6 DEF EInv
<1>9. CASE c \in Listed
  <2>1. Take(u, c)
    BY <1>2, <1>9
  <2>2. /\ conns' \in [Accounts -> [cells : Cells, used : Nat]]
        /\ \A v \in Accounts \ {u} : conns'[v] = conns[v]
        /\ conns'[u].used <= Len(conns'[u].cells)
        /\ \A j \in 1 .. conns'[u].used :
             conns'[u].cells[j] \in {conns[u].cells[i] : i \in 1 .. conns[u].used} \ {c}
        /\ Distinct(conns'[u].cells, conns'[u].used)
        /\ \A i \in 1 .. conns[u].used : conns[u].cells[i] # c =>
             \E j \in 1 .. conns'[u].used : conns'[u].cells[j] = conns[u].cells[i]
    BY <1>1, <1>9, <2>1, TakeOK
  <2>3. /\ router' \in [msg : Msgs \cup {Nil}, cells : Cells, used : Nat, i : Nat \ {0},
                        shared : BOOLEAN, due : SUBSET Clients]
        /\ router'.msg = router.msg /\ router'.used = router.used /\ router'.i = router.i
        /\ router'.due = router.due
        /\ router'.shared => router.shared
        /\ Len(router'.cells) = Len(router.cells)
        /\ \A j \in 1 .. router.used : router.msg # Nil => router'.cells[j] \in Clients
        /\ router'.msg # Nil /\ router'.shared => router'.cells = conns'[To[router.msg]].cells
    BY <1>1, <1>9, <2>1, TakeOK
  <2>4. /\ router.msg # Nil /\ router.msg \notin shaken' =>
             router'.cells = router.cells /\ To[router.msg] # u
        /\ shaken' \in {shaken, shaken \cup {router.msg}} /\ (router.msg = Nil => shaken' = shaken)
    BY <1>1, <1>9, <2>1, TakeOK
  <2>5. router.msg \in Msgs \cup {Nil} /\ router.used \in Nat /\ u \in Accounts
        /\ (router.msg # Nil => To[router.msg] \in Accounts)
    BY <1>1, RouterType, Home
  <2>6. shaken' \subseteq Msgs /\ shaken \subseteq shaken'
    BY <1>1, <2>4, <2>5 DEF TypeInv
  <2>7. TypeInv'
    BY <1>1, <1>2, <1>4, <1>5, <2>2, <2>3, <2>6 DEF TypeInv
  <2>8. ConnsOK'
    <3>1. ASSUME NEW v \in Accounts \ {u}
          PROVE  /\ conns'[v].used <= Len(conns'[v].cells)
                 /\ \A i \in 1 .. conns'[v].used : conns'[v].cells[i] \in Clients /\ Owner[conns'[v].cells[i]] = v
                 /\ Distinct(conns'[v].cells, conns'[v].used)
      BY <1>1, <2>2 DEF ConnsOK
    <3>2. \A i \in 1 .. conns'[u].used : conns'[u].cells[i] \in Clients /\ Owner[conns'[u].cells[i]] = u
      BY <1>1, <2>2, <2>5 DEF ConnsOK
    <3> QED BY <2>2, <3>1, <3>2 DEF ConnsOK
  <2>9. \A d \in Clients : d \in Listed' <=> d \in Listed /\ d # c
    <3> SUFFICES ASSUME NEW d \in Clients PROVE d \in Listed' <=> d \in Listed /\ d # c
      OBVIOUS
    <3>1. d \in Listed' <=> \E i \in 1 .. conns'[Owner[d]].used : conns'[Owner[d]].cells[i] = d
      BY DEF Listed
    <3>2. d \in Listed <=> \E i \in 1 .. conns[Owner[d]].used : conns[Owner[d]].cells[i] = d
      BY ListedAt
    <3>3. CASE Owner[d] # u
      BY <2>2, <3>1, <3>2, <3>3, Home
    <3>4. CASE Owner[d] = u
      <4>1. d \in Listed' => d \in Listed /\ d # c
        BY <2>2, <3>1, <3>2, <3>4
      <4>2. d \in Listed /\ d # c => d \in Listed'
        BY <2>2, <3>1, <3>2, <3>4
      <4> QED BY <4>1, <4>2
    <3> QED BY <3>3, <3>4
  <2>10. PlacesOK'
    BY <1>1, <1>2, <1>3, <2>9 DEF PlacesOK
  <2>11. SliceOK'
    BY <1>1, <2>3 DEF SliceOK
  <2>12. RoundOK'
    <3> SUFFICES ASSUME router.msg # Nil, router.msg \notin shaken' PROVE RoundOK'
      BY <2>3 DEF RoundOK
    <3>1. /\ router'.cells = router.cells /\ To[router.msg] # u /\ router.msg \notin shaken
          /\ conns'[To[router.msg]] = conns[To[router.msg]]
      BY <2>2, <2>4, <2>5, <2>6
    <3>2. /\ Distinct(router.cells, router.used)
          /\ router.shared => router.used <= conns[To[router.msg]].used
          /\ \A d \in router.due : \E j \in router.i .. router.used : router.cells[j] = d
          /\ \A d \in Clients :
               In(d, router.msg) => \E j \in 1 .. router.used : j < router.i /\ router.cells[j] = d
      BY <1>1, <3>1 DEF RoundOK
    <3>3. \A d \in Clients : (\E n \in 1 .. Len(got'[d]) : got'[d][n] = router.msg) =>
            \E j \in 1 .. router.used : j < router.i /\ router'.cells[j] = d
      BY <1>2, <3>1, <3>2 DEF In
    <3>4. /\ router'.used = router.used /\ router'.i = router.i /\ router'.due = router.due
          /\ router'.msg = router.msg
      BY <2>3
    <3>5. router'.shared => router'.used <= conns'[To[router'.msg]].used
      BY <2>3, <3>1, <3>2
    <3> QED BY <3>1, <3>2, <3>3, <3>4, <3>5, RoundNext
  <2>13. UserEventsOK' /\ OnceOK'
    BY <1>1, <1>2, <2>3, <2>6, SameUserEvents, SameOnce
  <2> QED BY <1>6, <1>7, <2>7, <2>8, <2>10, <2>11, <2>12, <2>13 DEF EInv
<1> QED BY <1>8, <1>9

LEMMA SubscribeOK ==
  ASSUME EInv, NEW c \in Clients, Subscribe(c)
  PROVE  EInv'
<1> DEFINE new == [s \in Sources |-> IF s \in Watches[c] THEN subs[s] \cup {c} ELSE subs[s]]
<1>1. TypeInv /\ ConnsOK /\ PlacesOK /\ SliceOK /\ RoundOK /\ UserEventsOK /\ UpdatesOK /\ OnceOK /\ UpOK
  BY DEF EInv
<1>2. /\ place[c] = "half" /\ place' = [place EXCEPT ![c] = "on"] /\ Watchers(new)
      /\ UNCHANGED <<conns, unread, closed, sending, userq, sourceq, router, stage, told, got, shaken>>
  BY DEF Subscribe
<1>3. /\ place' \in [Clients -> Places] /\ place'[c] = "on"
      /\ \A d \in Clients \ {c} : place'[d] = place[d]
  BY <1>1, <1>2 DEF TypeInv, Places
<1>4. new \in [Sources -> SUBSET Clients] /\ \A s \in Sources : new[s] \subseteq subs[s] \cup {c}
  BY <1>1 DEF TypeInv
<1> HIDE DEF new
<1>5. /\ subs' = new
      /\ feeder' \in [upd : Updates \cup {Nil}, served : SUBSET Clients, owed : SUBSET Clients]
      /\ feeder' = feeder \/ feeder' = Resting
      /\ fate' \in {"up", "panicked", "raced"} /\ (fate' = fate \/ fate' # "panicked")
  BY <1>1, <1>2, <1>4, WatchersOK
<1>6. TypeInv'
  BY <1>1, <1>2, <1>3, <1>4, <1>5 DEF TypeInv
<1>7. ConnsOK' /\ SliceOK' /\ RoundOK'
  BY <1>1, <1>2, SameSlices
<1>8. Listed' = Listed
  BY <1>2, SameListed
<1>9. PlacesOK'
  BY <1>1, <1>2, <1>3, <1>8 DEF PlacesOK
<1>10. UserEventsOK' /\ UpdatesOK' /\ OnceOK'
  BY <1>1, <1>2, <1>5, SameUserEvents, SameUpdates, SameOnce
<1>11. UpOK'
  BY <1>1, <1>2, <1>3, <1>4, <1>5 DEF UpOK
<1> QED BY <1>6, <1>7, <1>9, <1>10, <1>11 DEF EInv

LEMMA ReceiveLeaveOK ==
  ASSUME EInv, NEW c \in Clients, Receive(c) \/ Leave(c)
  PROVE  EInv'
<1>1. TypeInv /\ ConnsOK /\ PlacesOK /\ SliceOK /\ RoundOK /\ UserEventsOK /\ UpdatesOK /\ OnceOK /\ UpOK
  BY DEF EInv
<1>2. /\ UNCHANGED <<conns, subs, closed, sending, userq, sourceq, router, feeder, stage, fate, told, got, shaken>>
      /\ place[c] = "on"
      /\ \/ place' = place /\ unread[c] > 0 /\ unread' = [unread EXCEPT ![c] = @ - 1]
         \/ unread' = unread /\ place' = [place EXCEPT ![c] = "leaving"]
  BY DEF Receive, Leave
<1>3. place' \in [Clients -> Places] /\ unread' \in [Clients -> 0 .. ChanCap]
  <2>1. place \in [Clients -> Places] /\ unread \in [Clients -> 0 .. ChanCap] /\ ChanCap \in Nat
    BY <1>1, EventsAssumption DEF TypeInv
  <2>2. unread[c] > 0 => unread[c] - 1 \in 0 .. ChanCap
    BY <2>1
  <2> QED BY <1>2, <2>1, <2>2 DEF Places
<1>4. \A d \in Clients : place'[d] = place[d] \/ (d = c /\ place'[d] = "leaving")
  BY <1>1, <1>2 DEF TypeInv
<1>5. TypeInv'
  BY <1>1, <1>2, <1>3 DEF TypeInv
<1>6. ConnsOK' /\ SliceOK' /\ RoundOK'
  BY <1>1, <1>2, SameSlices
<1>7. Listed' = Listed
  BY <1>2, SameListed
<1>8. PlacesOK'
  BY <1>1, <1>2, <1>4, <1>7 DEF PlacesOK
<1>9. UserEventsOK' /\ UpdatesOK' /\ OnceOK'
  BY <1>1, <1>2, SameUserEvents, SameUpdates, SameOnce
<1>10. UpOK'
  BY <1>1, <1>2, <1>4 DEF UpOK
<1> QED BY <1>5, <1>6, <1>8, <1>9, <1>10 DEF EInv

-------------------------------------------------------------------------------
(* Events for users. *)

LEMMA SendOK ==
  ASSUME EInv, NEW m \in Msgs, Send(m)
  PROVE  EInv'
<1>1. TypeInv /\ ConnsOK /\ PlacesOK /\ SliceOK /\ RoundOK /\ UserEventsOK /\ UpdatesOK /\ OnceOK /\ UpOK
  BY DEF EInv
<1>2. /\ sending[m] = "new" /\ sending' = [sending EXCEPT ![m] = "waiting"]
      /\ UNCHANGED <<conns, subs, place, unread, closed, userq, sourceq, router, feeder, stage, fate,
                     told, got, shaken>>
  BY DEF Send
<1>3. TypeInv'
  BY <1>1, <1>2 DEF TypeInv
<1>4. ConnsOK' /\ SliceOK' /\ RoundOK' /\ UpdatesOK' /\ OnceOK' /\ Listed' = Listed
  BY <1>1, <1>2, SameSlices, SameUpdates, SameOnce, SameListed
<1>5. PlacesOK' /\ UpOK'
  BY <1>1, <1>2, <1>4 DEF PlacesOK, UpOK
<1>6. UserEventsOK'
  <2>1. \A n \in Msgs : sending[n] = "sent" => sending'[n] = "sent"
    BY <1>1, <1>2 DEF TypeInv
  <2>2. \A i \in 1 .. Len(userq) : userq[i] \in Msgs
    BY <1>1, ElementOfSeq DEF TypeInv
  <2>3. \A c, n : In(c, n)' <=> In(c, n)
    BY <1>2, SameIn
  <2>4. router.msg \in Msgs \cup {Nil}
    BY <1>1, RouterType
  <2> QED BY <1>1, <1>2, <2>1, <2>2, <2>3, <2>4 DEF UserEventsOK, Distinct
<1> QED BY <1>3, <1>4, <1>5, <1>6 DEF EInv

LEMMA QueueOK ==
  ASSUME EInv, NEW m \in Msgs, Queue(m)
  PROVE  EInv'
<1>1. TypeInv /\ ConnsOK /\ PlacesOK /\ SliceOK /\ RoundOK /\ UserEventsOK /\ UpdatesOK /\ OnceOK /\ UpOK
  BY DEF EInv
<1>2. /\ sending[m] = "waiting" /\ Len(userq) < QueueCap /\ sending' = [sending EXCEPT ![m] = "sent"]
      /\ userq' = Append(userq, m)
      /\ UNCHANGED <<conns, subs, place, unread, closed, sourceq, router, feeder, stage, fate,
                     told, got, shaken>>
  BY DEF Queue
<1>3. userq \in Seq(Msgs) /\ Len(userq) \in Nat /\ QueueCap \in Nat /\ \A i \in 1 .. Len(userq) : userq[i] \in Msgs
  BY <1>1, LenProperties, ElementOfSeq, EventsAssumption DEF TypeInv
<1>4. /\ userq' \in Seq(Msgs) /\ Len(userq') = Len(userq) + 1 /\ userq'[Len(userq) + 1] = m
      /\ \A i \in 1 .. Len(userq) : userq'[i] = userq[i]
  BY <1>2, <1>3, AppendProperties
<1>5. sending' \in [Msgs -> {"new", "waiting", "sent"}] /\ Len(userq') <= QueueCap
  BY <1>1, <1>2, <1>3, <1>4 DEF TypeInv
<1>6. TypeInv'
  BY <1>1, <1>2, <1>4, <1>5 DEF TypeInv
<1>7. ConnsOK' /\ SliceOK' /\ RoundOK' /\ UpdatesOK' /\ OnceOK' /\ Listed' = Listed
  BY <1>1, <1>2, SameSlices, SameUpdates, SameOnce, SameListed
<1>8. PlacesOK' /\ UpOK'
  BY <1>1, <1>2, <1>7 DEF PlacesOK, UpOK
<1>9. UserEventsOK'
  <2>1. \A n \in Msgs : sending[n] = "sent" => sending'[n] = "sent" /\ n # m
    BY <1>1, <1>2 DEF TypeInv
  <2>2. sending'[m] = "sent"
    BY <1>1, <1>2 DEF TypeInv
  <2>3. \A i \in 1 .. Len(userq') : i \in 1 .. Len(userq) \/ i = Len(userq) + 1
    BY <1>3, <1>4
  <2>4. router.msg \in Msgs \cup {Nil} /\ m # Nil
    BY <1>1, RouterType, EventsAssumption
  <2>5. \A i \in 1 .. Len(userq) : userq[i] # m /\ userq[i] # router.msg /\ sending'[userq[i]] = "sent"
    BY <1>1, <1>3, <2>1 DEF UserEventsOK
  <2>6. router.msg # m /\ (router.msg # Nil => sending'[router.msg] = "sent")
    BY <1>1, <2>1, <2>4 DEF UserEventsOK
  <2>7. Distinct(userq', Len(userq'))
    <3> SUFFICES ASSUME NEW i \in 1 .. Len(userq'), NEW j \in 1 .. Len(userq'), userq'[i] = userq'[j]
                 PROVE  i = j
      BY DEF Distinct
    <3>1. CASE i \in 1 .. Len(userq) /\ j \in 1 .. Len(userq)
      <4>1. Distinct(userq, Len(userq)) /\ userq[i] = userq[j]
        BY <1>1, <1>4, <3>1 DEF UserEventsOK
      <4> QED BY <3>1, <4>1 DEF Distinct
    <3>2. CASE i = Len(userq) + 1 \/ j = Len(userq) + 1
      BY <1>4, <2>3, <2>5, <3>2
    <3> QED BY <2>3, <3>1, <3>2
  <2>8. \A i \in 1 .. Len(userq') : userq'[i] # router.msg /\ sending'[userq'[i]] = "sent"
    BY <1>4, <2>2, <2>3, <2>5, <2>6
  <2>9. \A c \in Clients, n \in Msgs : In(c, n) =>
          sending'[n] = "sent" /\ \A i \in 1 .. Len(userq') : userq'[i] # n
    <3> SUFFICES ASSUME NEW c \in Clients, NEW n \in Msgs, In(c, n), NEW i \in 1 .. Len(userq')
                 PROVE  sending'[n] = "sent" /\ userq'[i] # n
      BY <1>1, <2>1 DEF UserEventsOK
    <3>1. sending[n] = "sent" /\ \A k \in 1 .. Len(userq) : userq[k] # n
      BY <1>1 DEF UserEventsOK
    <3> QED BY <1>4, <2>1, <2>3, <3>1
  <2>10. \A c, n : In(c, n)' <=> In(c, n)
    BY <1>2, SameIn
  <2> QED BY <1>2, <2>6, <2>7, <2>8, <2>9, <2>10 DEF UserEventsOK
<1> QED BY <1>6, <1>7, <1>8, <1>9 DEF EInv

LEMMA RoutedOK ==
  ASSUME EInv, Routed
  PROVE  EInv'
<1>1. TypeInv /\ ConnsOK /\ PlacesOK /\ SliceOK /\ RoundOK /\ UserEventsOK /\ UpdatesOK /\ OnceOK /\ UpOK
  BY DEF EInv
<1>2. /\ router' = Idle
      /\ UNCHANGED <<conns, subs, place, unread, closed, sending, userq, sourceq, feeder, stage, fate,
                     told, got, shaken>>
  BY DEF Routed
<1>3. /\ router'.msg = Nil
      /\ router' \in [msg : Msgs \cup {Nil}, cells : Cells, used : Nat, i : Nat \ {0},
                      shared : BOOLEAN, due : SUBSET Clients]
  BY <1>2, NoCells DEF Idle
<1>4. TypeInv'
  BY <1>1, <1>2, <1>3 DEF TypeInv
<1>5. ConnsOK' /\ SliceOK' /\ RoundOK'
  BY <1>1, <1>2, <1>3 DEF ConnsOK, SliceOK, RoundOK, Distinct
<1>6. UpdatesOK' /\ OnceOK' /\ Listed' = Listed
  BY <1>1, <1>2, SameUpdates, SameOnce, SameListed
<1>7. PlacesOK' /\ UpOK'
  BY <1>1, <1>2, <1>6 DEF PlacesOK, UpOK
<1>8. UserEventsOK'
  <2>1. \A i \in 1 .. Len(userq) : userq[i] # Nil
    BY <1>1, ElementOfSeq, EventsAssumption DEF TypeInv
  <2>2. \A c, n : In(c, n)' <=> In(c, n)
    BY <1>2, SameIn
  <2> QED BY <1>1, <1>2, <1>3, <2>1, <2>2 DEF UserEventsOK, Distinct
<1> QED BY <1>4, <1>5, <1>6, <1>7, <1>8 DEF EInv

LEMMA RouteOK ==
  ASSUME EInv, Route
  PROVE  EInv'
<1> DEFINE m == Head(userq)
           a == conns[To[m]]
           due == {c \in Clients \ closed : Owner[c] = To[m] /\ place[c] = "on"}
<1>1. TypeInv /\ ConnsOK /\ PlacesOK /\ SliceOK /\ RoundOK /\ UserEventsOK /\ UpdatesOK /\ OnceOK /\ UpOK
  BY DEF EInv
<1>2. /\ router.msg = Nil /\ userq # <<>> /\ userq' = Tail(userq)
      /\ router' = [msg |-> m, cells |-> a.cells, used |-> a.used, i |-> 1,
                    shared |-> a.used > 0, due |-> due]
      /\ UNCHANGED <<conns, subs, place, unread, closed, sending, sourceq, feeder, stage, fate,
                     told, got, shaken>>
  BY DEF Route
<1>3. userq \in Seq(Msgs) /\ Len(userq) \in Nat \ {0} /\ m = userq[1] /\ Len(userq) <= QueueCap
  BY <1>1, <1>2, EmptySeq DEF TypeInv
<1>4. /\ m \in Msgs /\ userq' \in Seq(Msgs) /\ Len(userq') = Len(userq) - 1
      /\ \A i \in 1 .. Len(userq') : userq'[i] = userq[i + 1]
  BY <1>2, <1>3, HeadTailProperties
<1>5. \A i \in 1 .. Len(userq') : i + 1 \in 1 .. Len(userq) /\ i + 1 # 1
  BY <1>3, <1>4
<1>6. /\ To[m] \in Accounts /\ m # Nil
      /\ a.cells \in Cells /\ a.used \in Nat /\ Len(a.cells) \in Nat
  BY <1>1, <1>4, Home, ConnsType, EventsAssumption
<1>7. /\ a.used <= Len(a.cells) /\ \A i \in 1 .. a.used : a.cells[i] \in Clients
      /\ Distinct(a.cells, a.used)
  BY <1>1, <1>6 DEF ConnsOK
<1> HIDE DEF m, a, due
<1>8. /\ router'.msg = m /\ router'.cells = a.cells /\ router'.used = a.used /\ router'.i = 1
      /\ router'.due = due
  BY <1>2
<1>9. TypeInv'
  <2>1. due \in SUBSET Clients
    BY DEF due
  <2>2. router' \in [msg : Msgs \cup {Nil}, cells : Cells, used : Nat, i : Nat \ {0},
                     shared : BOOLEAN, due : SUBSET Clients]
    BY <1>2, <1>4, <1>6, <2>1
  <2>3. Len(userq') <= QueueCap
    BY <1>3, <1>4, EventsAssumption
  <2> QED BY <1>1, <1>2, <1>4, <2>2, <2>3 DEF TypeInv
<1>10. ConnsOK'
  BY <1>1, <1>2 DEF ConnsOK, Distinct
<1>11. SliceOK'
  BY <1>2, <1>7, <1>8 DEF SliceOK, a
<1>12. \A c \in Clients : ~In(c, m)
  <2>1. 1 \in 1 .. Len(userq)
    BY <1>3
  <2> QED BY <1>1, <1>3, <1>4, <2>1 DEF UserEventsOK
<1>13. RoundOK'
  <2>1. \A d \in due : \E j \in 1 .. a.used : a.cells[j] = d
    <3>1. \A d \in due : d \in Clients /\ d \in Listed /\ Owner[d] = To[m]
      BY <1>1 DEF PlacesOK, due
    <3> QED BY <3>1, ListedAt DEF a
  <2>2. \A d \in Clients : (\E n \in 1 .. Len(got'[d]) : got'[d][n] = m) => FALSE
    BY <1>2, <1>12 DEF In
  <2>3. a.used <= conns'[To[m]].used
    BY <1>2, <1>6 DEF a
  <2> QED BY <1>7, <1>8, <2>1, <2>2, <2>3, RoundNext
<1>14. UpdatesOK' /\ OnceOK' /\ Listed' = Listed
  BY <1>1, <1>2, SameUpdates, SameOnce, SameListed
<1>15. PlacesOK' /\ UpOK'
  BY <1>1, <1>2, <1>14 DEF PlacesOK, UpOK
<1>16. UserEventsOK'
  <2>1. /\ Distinct(userq, Len(userq)) /\ \A i \in 1 .. Len(userq) : sending[userq[i]] = "sent"
        /\ \A c \in Clients, n \in Msgs : In(c, n) =>
             sending[n] = "sent" /\ \A i \in 1 .. Len(userq) : userq[i] # n
    BY <1>1 DEF UserEventsOK
  <2>2. 1 \in 1 .. Len(userq) /\ sending[m] = "sent"
    BY <1>3, <2>1
  <2>3. \A i \in 1 .. Len(userq') : userq'[i] # m /\ sending[userq'[i]] = "sent"
    BY <1>3, <1>4, <1>5, <2>1, <2>2 DEF Distinct
  <2>4. Distinct(userq', Len(userq'))
    <3> SUFFICES ASSUME NEW i \in 1 .. Len(userq'), NEW j \in 1 .. Len(userq'), userq'[i] = userq'[j]
                 PROVE  i = j
      BY DEF Distinct
    <3>1. userq[i + 1] = userq[j + 1] /\ i + 1 \in 1 .. Len(userq) /\ j + 1 \in 1 .. Len(userq)
      BY <1>4, <1>5
    <3>2. i + 1 = j + 1
      BY <2>1, <3>1 DEF Distinct
    <3> QED BY <3>2
  <2>5. \A c \in Clients, n \in Msgs : In(c, n) => \A i \in 1 .. Len(userq') : userq'[i] # n
    BY <1>4, <1>5, <2>1
  <2>6. \A c, n : In(c, n)' <=> In(c, n)
    BY <1>2, SameIn
  <2> QED BY <1>2, <1>8, <2>1, <2>2, <2>3, <2>4, <2>5, <2>6 DEF UserEventsOK
<1> QED BY <1>9, <1>10, <1>11, <1>13, <1>14, <1>15, <1>16 DEF EInv

\* An event is put into a channel, or dropped, or the process ends.
LEMMA OfferOK ==
  ASSUME TypeInv, NEW c \in Clients, NEW m \in Msgs \cup Updates, Offer(c, m)
  PROVE  /\ unread' \in [Clients -> 0 .. ChanCap]
         /\ got' \in [Clients -> Seq(Msgs \cup Updates)]
         /\ fate' \in {"up", "panicked", "raced"} /\ (fate' = fate \/ c \in closed)
         /\ \A d \in Clients : \A n : (\E i \in 1 .. Len(got'[d]) : got'[d][i] = n) => In(d, n) \/ (d = c /\ n = m)
         /\ \A d \in Clients : \A n : Once(d, n) /\ ~(In(d, n) /\ d = c /\ n = m) => Once(d, n)'
<1>1. unread \in [Clients -> 0 .. ChanCap] /\ got \in [Clients -> Seq(Msgs \cup Updates)] /\ ChanCap \in Nat
      /\ fate \in {"up", "panicked", "raced"}
  BY EventsAssumption DEF TypeInv
<1>2. CASE UNCHANGED <<unread, got>>
  BY <1>1, <1>2 DEF Offer, In, Once
<1>3. CASE ~UNCHANGED <<unread, got>>
  <2>1. /\ unread[c] < ChanCap /\ unread' = [unread EXCEPT ![c] = @ + 1]
        /\ got' = [got EXCEPT ![c] = Append(@, m)] /\ fate' = fate
    BY <1>3 DEF Offer
  <2>2. unread[c] + 1 \in 0 .. ChanCap
    BY <1>1, <2>1
  <2>3. \A d \in Clients : got[d] \in Seq(Msgs \cup Updates) /\ Len(got[d]) \in Nat
    BY <1>1, LenProperties
  <2> DEFINE s == Append(got[c], m)
  <2>4. /\ s \in Seq(Msgs \cup Updates) /\ Len(s) = Len(got[c]) + 1 /\ s[Len(got[c]) + 1] = m
        /\ \A i \in 1 .. Len(got[c]) : s[i] = got[c][i]
    BY <2>3, AppendProperties
  <2> HIDE DEF s
  <2>5. got' = [got EXCEPT ![c] = s]
    BY <2>1 DEF s
  <2>6. got'[c] = s /\ \A d \in Clients \ {c} : got'[d] = got[d]
    BY <1>1, <2>5
  <2>7. \A i \in 1 .. Len(s) : i \in 1 .. Len(got[c]) \/ i = Len(got[c]) + 1
    BY <2>3, <2>4
  <2>8. unread' \in [Clients -> 0 .. ChanCap] /\ got' \in [Clients -> Seq(Msgs \cup Updates)]
    BY <1>1, <2>1, <2>2, <2>4, <2>5
  <2>9. ASSUME NEW d \in Clients, NEW n, \E i \in 1 .. Len(got'[d]) : got'[d][i] = n
        PROVE  In(d, n) \/ (d = c /\ n = m)
    <3>1. CASE d # c
      BY <2>6, <2>9, <3>1 DEF In
    <3>2. CASE d = c
      <4>1. PICK i \in 1 .. Len(s) : s[i] = n
        BY <2>6, <2>9, <3>2
      <4> QED BY <2>4, <2>7, <3>2, <4>1 DEF In
    <3> QED BY <3>1, <3>2
  <2>10. ASSUME NEW d \in Clients, NEW n, Once(d, n), ~(In(d, n) /\ d = c /\ n = m)
         PROVE  Once(d, n)'
    <3>1. CASE d # c
      BY <2>6, <2>10, <3>1 DEF Once
    <3>2. CASE d = c
      <4> SUFFICES ASSUME NEW i \in 1 .. Len(s), NEW j \in 1 .. Len(s), s[i] = n, s[j] = n PROVE i = j
        BY <2>6, <3>2 DEF Once
      <4>1. CASE i \in 1 .. Len(got[c]) /\ j \in 1 .. Len(got[c])
        BY <2>4, <2>10, <3>2, <4>1 DEF Once
      <4>2. CASE n = m
        <5>1. \A k \in 1 .. Len(got[c]) : got[c][k] # m
          BY <2>10, <3>2, <4>2 DEF In
        <5> QED BY <2>4, <2>7, <4>2, <5>1
      <4>3. CASE n # m
        BY <2>4, <2>7, <4>1, <4>3
      <4> QED BY <4>2, <4>3
    <3> QED BY <3>1, <3>2
  <2> QED BY <1>1, <2>1, <2>8, <2>9, <2>10
<1> QED BY <1>2, <1>3

LEMMA DeliverOK ==
  ASSUME EInv, Deliver
  PROVE  EInv'
<1> DEFINE c == router.cells[router.i]
           m == router.msg
<1>1. TypeInv /\ ConnsOK /\ PlacesOK /\ SliceOK /\ RoundOK /\ UserEventsOK /\ UpdatesOK /\ OnceOK /\ UpOK
  BY DEF EInv
<1>2. /\ m # Nil /\ router.i <= router.used /\ Offer(c, m)
      /\ router' = [router EXCEPT !.i = @ + 1, !.due = @ \ {c}]
      /\ UNCHANGED <<conns, subs, place, closed, sending, userq, sourceq, feeder, stage, told, shaken>>
  BY DEF Deliver
<1>3. /\ router.cells \in Cells /\ router.used \in Nat /\ router.i \in Nat \ {0}
      /\ router.shared \in BOOLEAN /\ router.due \in SUBSET Clients
      /\ m \in Msgs \cup {Nil} /\ Len(router.cells) \in Nat
      /\ router \in [msg : Msgs \cup {Nil}, cells : Cells, used : Nat, i : Nat \ {0},
                     shared : BOOLEAN, due : SUBSET Clients]
  BY <1>1, RouterType DEF TypeInv
<1>4. m \in Msgs /\ m \in Msgs \cup Updates /\ m \notin Updates /\ router.i \in 1 .. router.used
  BY <1>2, <1>3, EventsAssumption
<1>5. c \in Clients
  BY <1>1, <1>2, <1>4 DEF SliceOK
<1> HIDE DEF c, m
<1>6. /\ router'.msg = m /\ router'.cells = router.cells /\ router'.used = router.used
      /\ router'.i = router.i + 1 /\ router'.shared = router.shared /\ router'.due = router.due \ {c}
      /\ router' \in [msg : Msgs \cup {Nil}, cells : Cells, used : Nat, i : Nat \ {0},
                      shared : BOOLEAN, due : SUBSET Clients]
  <2>1. router.i + 1 \in Nat \ {0} /\ router.due \ {c} \in SUBSET Clients
    BY <1>3
  <2> QED BY <1>2, <1>3, <2>1 DEF m
<1>7. /\ unread' \in [Clients -> 0 .. ChanCap]
      /\ got' \in [Clients -> Seq(Msgs \cup Updates)]
      /\ fate' \in {"up", "panicked", "raced"} /\ (fate' = fate \/ c \in closed)
      /\ \A d \in Clients : \A n : (\E i \in 1 .. Len(got'[d]) : got'[d][i] = n) => In(d, n) \/ (d = c /\ n = m)
      /\ \A d \in Clients : \A n : Once(d, n) /\ ~(In(d, n) /\ d = c /\ n = m) => Once(d, n)'
  BY <1>1, <1>2, <1>4, <1>5, OfferOK
<1>8. TypeInv'
  BY <1>1, <1>2, <1>6, <1>7 DEF TypeInv
<1>9. ConnsOK'
  BY <1>1, <1>2 DEF ConnsOK, Distinct
<1>10. PlacesOK'
  <2>1. Listed' = Listed
    BY <1>2, SameListed
  <2> QED BY <1>1, <1>2, <2>1 DEF PlacesOK
<1>11. SliceOK'
  BY <1>1, <1>2, <1>6 DEF SliceOK, m
<1>12. RoundOK'
  <2> SUFFICES ASSUME m \notin shaken PROVE RoundOK'
    BY <1>2, <1>6 DEF RoundOK
  <2>1. /\ Distinct(router.cells, router.used)
        /\ router.shared => router.used <= conns[To[m]].used
        /\ \A d \in router.due : \E j \in router.i .. router.used : router.cells[j] = d
        /\ \A d \in Clients :
             In(d, m) => \E j \in 1 .. router.used : j < router.i /\ router.cells[j] = d
    BY <1>1, <1>2 DEF RoundOK, m
  <2>2. \A d \in router.due \ {c} : \E j \in router.i + 1 .. router.used : router.cells[j] = d
    <3> SUFFICES ASSUME NEW d \in router.due \ {c}
                 PROVE  \E j \in router.i + 1 .. router.used : router.cells[j] = d
      OBVIOUS
    <3>1. PICK j \in router.i .. router.used : router.cells[j] = d
      BY <2>1
    <3>2. j # router.i
      BY <3>1 DEF c
    <3>3. j \in router.i + 1 .. router.used
      BY <1>3, <3>2
    <3> QED BY <3>1, <3>3
  <2>3. ASSUME NEW d \in Clients, \E n \in 1 .. Len(got'[d]) : got'[d][n] = m
        PROVE  \E j \in 1 .. router.used : j < router.i + 1 /\ router.cells[j] = d
    <3>1. CASE In(d, m)
      <4>1. PICK j \in 1 .. router.used : j < router.i /\ router.cells[j] = d
        BY <2>1, <3>1
      <4>2. j < router.i + 1
        BY <1>3, <4>1
      <4> QED BY <4>1, <4>2
    <3>2. CASE d = c
      <4>1. router.i < router.i + 1
        BY <1>3
      <4> QED BY <1>4, <3>2, <4>1 DEF c
    <3> QED BY <1>7, <2>3, <3>1, <3>2
  <2> QED BY <1>2, <1>6, <2>1, <2>2, <2>3, RoundNext
<1>13. UserEventsOK'
  <2>1. /\ Distinct(userq, Len(userq))
        /\ \A i \in 1 .. Len(userq) : userq[i] # m /\ sending[userq[i]] = "sent"
        /\ sending[m] = "sent"
        /\ \A d \in Clients, n \in Msgs : In(d, n) =>
             sending[n] = "sent" /\ \A i \in 1 .. Len(userq) : userq[i] # n
    BY <1>1, <1>2 DEF UserEventsOK, m
  <2>2. \A d \in Clients, n \in Msgs : (\E i \in 1 .. Len(got'[d]) : got'[d][i] = n) =>
          sending[n] = "sent" /\ \A i \in 1 .. Len(userq) : userq[i] # n
    BY <1>7, <2>1
  <2> QED BY <1>2, <1>6, <2>1, <2>2 DEF UserEventsOK, In
<1>14. UpdatesOK'
  <2>1. \A d \in Clients, s \in Updates : (\E i \in 1 .. Len(got'[d]) : got'[d][i] = s) => In(d, s)
    BY <1>4, <1>7
  <2> QED BY <1>1, <1>2, <2>1 DEF UpdatesOK, In, Distinct
<1>15. OnceOK'
  <2>1. m \notin shaken => ~In(c, m)
    <3> SUFFICES ASSUME m \notin shaken, In(c, m) PROVE FALSE
      OBVIOUS
    <3>1. PICK j \in 1 .. router.used : j < router.i /\ router.cells[j] = c
      BY <1>1, <1>2, <1>5 DEF RoundOK, m
    <3>2. j = router.i
      BY <1>1, <1>2, <1>4, <3>1 DEF RoundOK, Distinct, c, m
    <3> QED BY <1>3, <3>1, <3>2
  <2> QED BY <1>1, <1>2, <1>7, <2>1 DEF OnceOK
<1>16. UpOK'
  BY <1>1, <1>2, <1>7 DEF UpOK
<1> QED BY <1>8, <1>9, <1>10, <1>11, <1>12, <1>13, <1>14, <1>15, <1>16 DEF EInv

-------------------------------------------------------------------------------
(* Events for the watchers of a source. *)

LEMMA SendSourceUpdateOK ==
  ASSUME EInv, NEW s \in Updates, SendSourceUpdate(s)
  PROVE  EInv'
<1>1. TypeInv /\ ConnsOK /\ PlacesOK /\ SliceOK /\ RoundOK /\ UserEventsOK /\ UpdatesOK /\ OnceOK /\ UpOK
  BY DEF EInv
<1>2. /\ s \notin told /\ told' = told \cup {s}
      /\ sourceq' = IF Len(sourceq) < QueueCap THEN Append(sourceq, s) ELSE sourceq
      /\ UNCHANGED <<conns, subs, place, unread, closed, sending, userq, router, feeder, stage, fate,
                     got, shaken>>
  BY DEF SendSourceUpdate
<1>3. sourceq \in Seq(Updates) /\ Len(sourceq) \in Nat /\ Len(sourceq) <= QueueCap /\ QueueCap \in Nat
  BY <1>1, LenProperties, EventsAssumption DEF TypeInv
<1>4. /\ sourceq' \in Seq(Updates) /\ Len(sourceq') \in Nat /\ Len(sourceq') <= QueueCap
      /\ \A i \in 1 .. Len(sourceq') :
           \/ i \in 1 .. Len(sourceq) /\ sourceq'[i] = sourceq[i]
           \/ i = Len(sourceq) + 1 /\ sourceq'[i] = s
  <2>1. CASE Len(sourceq) < QueueCap
    <3>1. /\ sourceq' \in Seq(Updates) /\ Len(sourceq') = Len(sourceq) + 1
          /\ sourceq'[Len(sourceq) + 1] = s
          /\ \A i \in 1 .. Len(sourceq) : sourceq'[i] = sourceq[i]
      BY <1>2, <1>3, <2>1, AppendProperties
    <3> QED BY <1>3, <2>1, <3>1
  <2>2. CASE ~(Len(sourceq) < QueueCap)
    BY <1>2, <1>3, <2>2
  <2> QED BY <2>1, <2>2
<1>5. TypeInv'
  BY <1>1, <1>2, <1>4 DEF TypeInv
<1>6. ConnsOK' /\ SliceOK' /\ RoundOK' /\ UserEventsOK' /\ OnceOK' /\ Listed' = Listed
  BY <1>1, <1>2, SameSlices, SameUserEvents, SameOnce, SameListed
<1>7. PlacesOK' /\ UpOK'
  BY <1>1, <1>2, <1>6 DEF PlacesOK, UpOK
<1>8. UpdatesOK'
  <2>1. /\ Distinct(sourceq, Len(sourceq))
        /\ \A i \in 1 .. Len(sourceq) : sourceq[i] # feeder.upd /\ sourceq[i] \in told
        /\ feeder.upd # Nil => feeder.upd \in told
        /\ \A c \in Clients, n \in Updates : In(c, n) =>
             /\ n \in told
             /\ \A i \in 1 .. Len(sourceq) : sourceq[i] # n
             /\ feeder.upd = n => c \in feeder.served
    BY <1>1 DEF UpdatesOK
  <2>2. s # Nil /\ s # feeder.upd /\ \A i \in 1 .. Len(sourceq) : sourceq[i] # s
    BY <1>2, <2>1, EventsAssumption
  <2>3. Distinct(sourceq', Len(sourceq'))
    BY <1>4, <2>1, <2>2 DEF Distinct
  <2>4. \A i \in 1 .. Len(sourceq') : sourceq'[i] # feeder.upd /\ sourceq'[i] \in told'
    BY <1>2, <1>4, <2>1, <2>2
  <2>5. \A c \in Clients, n \in Updates : In(c, n) =>
          /\ n \in told'
          /\ \A i \in 1 .. Len(sourceq') : sourceq'[i] # n
          /\ feeder.upd = n => c \in feeder.served
    BY <1>2, <1>4, <2>1
  <2>6. \A c, n : In(c, n)' <=> In(c, n)
    BY <1>2, SameIn
  <2> QED BY <1>2, <2>1, <2>3, <2>4, <2>5, <2>6 DEF UpdatesOK
<1> QED BY <1>5, <1>6, <1>7, <1>8 DEF EInv

LEMMA FeedOK ==
  ASSUME EInv, Feed
  PROVE  EInv'
<1> DEFINE s == Head(sourceq)
<1>1. TypeInv /\ ConnsOK /\ PlacesOK /\ SliceOK /\ RoundOK /\ UserEventsOK /\ UpdatesOK /\ OnceOK /\ UpOK
  BY DEF EInv
<1>2. /\ feeder.upd = Nil /\ sourceq # <<>> /\ sourceq' = Tail(sourceq)
      /\ feeder' = IF subs[s[1]] = {} THEN Resting
                   ELSE [upd |-> s, served |-> {}, owed |-> subs[s[1]]]
      /\ UNCHANGED <<conns, subs, place, unread, closed, sending, userq, router, stage, fate,
                     told, got, shaken>>
  BY DEF Feed
<1>3. sourceq \in Seq(Updates) /\ Len(sourceq) \in Nat \ {0} /\ s = sourceq[1] /\ Len(sourceq) <= QueueCap
  BY <1>1, <1>2, EmptySeq DEF TypeInv
<1>4. /\ s \in Updates /\ sourceq' \in Seq(Updates) /\ Len(sourceq') = Len(sourceq) - 1
      /\ \A i \in 1 .. Len(sourceq') : sourceq'[i] = sourceq[i + 1]
  BY <1>2, <1>3, HeadTailProperties
<1>5. \A i \in 1 .. Len(sourceq') : i + 1 \in 1 .. Len(sourceq) /\ i + 1 # 1
  BY <1>3, <1>4
<1>6. s[1] \in Sources /\ s # Nil
  BY <1>4, EventsAssumption
<1> HIDE DEF s
<1>7. /\ feeder' \in [upd : Updates \cup {Nil}, served : SUBSET Clients, owed : SUBSET Clients]
      /\ feeder'.upd \in {Nil, s}
  BY <1>1, <1>2, <1>4, <1>6 DEF TypeInv, Resting
<1>8. Len(sourceq') <= QueueCap
  BY <1>3, <1>4, EventsAssumption
<1>9. TypeInv'
  BY <1>1, <1>2, <1>4, <1>7, <1>8 DEF TypeInv
<1>10. ConnsOK' /\ SliceOK' /\ RoundOK' /\ UserEventsOK' /\ OnceOK' /\ Listed' = Listed
  BY <1>1, <1>2, SameSlices, SameUserEvents, SameOnce, SameListed
<1>11. PlacesOK' /\ UpOK'
  BY <1>1, <1>2, <1>10 DEF PlacesOK, UpOK
<1>12. UpdatesOK'
  <2>1. /\ Distinct(sourceq, Len(sourceq))
        /\ \A i \in 1 .. Len(sourceq) : sourceq[i] \in told
        /\ \A c \in Clients, n \in Updates : In(c, n) =>
             n \in told /\ \A i \in 1 .. Len(sourceq) : sourceq[i] # n
    BY <1>1 DEF UpdatesOK
  <2>2. 1 \in 1 .. Len(sourceq) /\ s \in told /\ \A c \in Clients : ~In(c, s)
    BY <1>3, <1>4, <2>1
  <2>3. \A i \in 1 .. Len(sourceq') : sourceq'[i] # s /\ sourceq'[i] \in told
    BY <1>3, <1>4, <1>5, <2>1, <2>2 DEF Distinct
  <2>4. \A i \in 1 .. Len(sourceq') : sourceq'[i] # Nil
    BY <1>4, ElementOfSeq, EventsAssumption
  <2>5. Distinct(sourceq', Len(sourceq'))
    <3> SUFFICES ASSUME NEW i \in 1 .. Len(sourceq'), NEW j \in 1 .. Len(sourceq'), sourceq'[i] = sourceq'[j]
                 PROVE  i = j
      BY DEF Distinct
    <3>1. sourceq[i + 1] = sourceq[j + 1] /\ i + 1 \in 1 .. Len(sourceq) /\ j + 1 \in 1 .. Len(sourceq)
      BY <1>4, <1>5
    <3>2. i + 1 = j + 1
      BY <2>1, <3>1 DEF Distinct
    <3> QED BY <3>2
  <2>6. \A c \in Clients, n \in Updates : In(c, n) =>
          /\ n \in told
          /\ \A i \in 1 .. Len(sourceq') : sourceq'[i] # n
          /\ feeder'.upd # n
    BY <1>4, <1>5, <1>6, <1>7, <2>1, <2>2, EventsAssumption
  <2>7. \A c, n : In(c, n)' <=> In(c, n)
    BY <1>2, SameIn
  <2>8. \A i \in 1 .. Len(sourceq') : sourceq'[i] # feeder'.upd /\ sourceq'[i] \in told'
    BY <1>2, <1>7, <2>3, <2>4
  <2>9. feeder'.upd # Nil => feeder'.upd \in told'
    BY <1>2, <1>7, <2>2
  <2> QED BY <1>2, <2>5, <2>6, <2>7, <2>8, <2>9 DEF UpdatesOK
<1> QED BY <1>9, <1>10, <1>11, <1>12 DEF EInv

LEMMA FeedOneOK ==
  ASSUME EInv, NEW c \in Clients, FeedOne(c)
  PROVE  EInv'
<1> DEFINE s == feeder.upd
<1>1. TypeInv /\ ConnsOK /\ PlacesOK /\ SliceOK /\ RoundOK /\ UserEventsOK /\ UpdatesOK /\ OnceOK /\ UpOK
  BY DEF EInv
<1>2. /\ s # Nil /\ c \notin feeder.served /\ Offer(c, s)
      /\ feeder' = [feeder EXCEPT !.served = @ \cup {c}]
      /\ UNCHANGED <<conns, subs, place, closed, sending, userq, sourceq, router, stage, told, shaken>>
  BY DEF FeedOne
<1>3. feeder \in [upd : Updates \cup {Nil}, served : SUBSET Clients, owed : SUBSET Clients]
  BY <1>1 DEF TypeInv
<1> HIDE DEF s
<1>4. /\ feeder' \in [upd : Updates \cup {Nil}, served : SUBSET Clients, owed : SUBSET Clients]
      /\ feeder'.upd = s /\ feeder'.served = feeder.served \cup {c}
  BY <1>2, <1>3 DEF s
<1>5. s \in Updates /\ s \in Msgs \cup Updates /\ s \notin Msgs
  BY <1>2, <1>3, EventsAssumption DEF s
<1>6. /\ unread' \in [Clients -> 0 .. ChanCap]
      /\ got' \in [Clients -> Seq(Msgs \cup Updates)]
      /\ fate' \in {"up", "panicked", "raced"} /\ (fate' = fate \/ c \in closed)
      /\ \A d \in Clients : \A n : (\E i \in 1 .. Len(got'[d]) : got'[d][i] = n) => In(d, n) \/ (d = c /\ n = s)
      /\ \A d \in Clients : \A n : Once(d, n) /\ ~(In(d, n) /\ d = c /\ n = s) => Once(d, n)'
  BY <1>1, <1>2, <1>5, OfferOK
<1>7. TypeInv'
  BY <1>1, <1>2, <1>4, <1>6 DEF TypeInv
<1>8. ConnsOK' /\ SliceOK'
  BY <1>1, <1>2 DEF ConnsOK, SliceOK, Distinct
<1>9. Listed' = Listed
  BY <1>2, SameListed
<1>10. PlacesOK' /\ UpOK'
  BY <1>1, <1>2, <1>6, <1>9 DEF PlacesOK, UpOK
<1>11. RoundOK'
  <2> SUFFICES ASSUME router.msg # Nil, router.msg \notin shaken PROVE RoundOK'
    BY <1>2 DEF RoundOK
  <2>1. router.msg \in Msgs /\ router.msg # s
    BY <1>1, <1>5, RouterType
  <2>2. \A d \in Clients : (\E n \in 1 .. Len(got'[d]) : got'[d][n] = router.msg) =>
          \E j \in 1 .. router.used : j < router.i /\ router.cells[j] = d
    BY <1>1, <1>6, <2>1 DEF RoundOK
  <2>3. /\ Distinct(router.cells, router.used)
        /\ router.shared => router.used <= conns[To[router.msg]].used
        /\ \A d \in router.due : \E j \in router.i .. router.used : router.cells[j] = d
    BY <1>1 DEF RoundOK
  <2> QED BY <1>2, <2>2, <2>3, RoundNext
<1>12. UserEventsOK'
  <2>1. \A d \in Clients, n \in Msgs : (\E i \in 1 .. Len(got'[d]) : got'[d][i] = n) => In(d, n)
    BY <1>5, <1>6
  <2> QED BY <1>1, <1>2, <2>1 DEF UserEventsOK, In, Distinct
<1>13. UpdatesOK'
  <2>1. /\ Distinct(sourceq, Len(sourceq))
        /\ \A i \in 1 .. Len(sourceq) : sourceq[i] # s /\ sourceq[i] \in told
        /\ s \in told
        /\ \A d \in Clients, n \in Updates : In(d, n) =>
             /\ n \in told
             /\ \A i \in 1 .. Len(sourceq) : sourceq[i] # n
             /\ s = n => d \in feeder.served
    BY <1>1, <1>2 DEF UpdatesOK, s
  <2>2. \A d \in Clients, n \in Updates : (\E i \in 1 .. Len(got'[d]) : got'[d][i] = n) =>
          /\ n \in told
          /\ \A i \in 1 .. Len(sourceq) : sourceq[i] # n
          /\ s = n => d \in feeder.served \cup {c}
    BY <1>6, <2>1
  <2> QED BY <1>2, <1>4, <2>1, <2>2 DEF UpdatesOK, In, Distinct
<1>14. OnceOK'
  <2>1. ~In(c, s)
    BY <1>1, <1>2, <1>5 DEF UpdatesOK, s
  <2> QED BY <1>1, <1>2, <1>6, <2>1 DEF OnceOK
<1> QED BY <1>7, <1>8, <1>10, <1>11, <1>12, <1>13, <1>14 DEF EInv

LEMMA FedOK ==
  ASSUME EInv, Fed
  PROVE  EInv'
<1>1. TypeInv /\ ConnsOK /\ PlacesOK /\ SliceOK /\ RoundOK /\ UserEventsOK /\ UpdatesOK /\ OnceOK /\ UpOK
  BY DEF EInv
<1>2. /\ feeder' = Resting
      /\ UNCHANGED <<conns, subs, place, unread, closed, sending, userq, sourceq, router, stage, fate,
                     told, got, shaken>>
  BY DEF Fed
<1>3. TypeInv'
  BY <1>1, <1>2 DEF TypeInv, Resting
<1>4. ConnsOK' /\ SliceOK' /\ RoundOK' /\ UserEventsOK' /\ UpdatesOK' /\ OnceOK' /\ Listed' = Listed
  BY <1>1, <1>2, SameSlices, SameUserEvents, SameUpdates, SameOnce, SameListed
<1>5. PlacesOK' /\ UpOK'
  BY <1>1, <1>2, <1>4 DEF PlacesOK, UpOK
<1> QED BY <1>3, <1>4, <1>5 DEF EInv

-------------------------------------------------------------------------------
(* The end. *)

LEMMA ShutdownOK ==
  ASSUME EInv, Shutdown
  PROVE  EInv'
<1> DEFINE new == [s \in Sources |-> subs[s] \ Listed]
<1>1. TypeInv /\ ConnsOK /\ PlacesOK /\ SliceOK /\ RoundOK /\ UserEventsOK /\ UpdatesOK /\ OnceOK /\ UpOK
  BY DEF EInv
<1>2. /\ stage' = "closed" /\ closed' = closed \cup Listed /\ Watchers(new)
      /\ conns' = [u \in Accounts |-> Empty] /\ router' = [router EXCEPT !.shared = FALSE]
      /\ UNCHANGED <<place, unread, sending, userq, sourceq, told, got, shaken>>
  BY DEF Shutdown
<1>3. new \in [Sources -> SUBSET Clients]
  BY <1>1 DEF TypeInv
<1> HIDE DEF new
<1>4. /\ subs' = new
      /\ feeder' \in [upd : Updates \cup {Nil}, served : SUBSET Clients, owed : SUBSET Clients]
      /\ feeder' = feeder \/ feeder' = Resting
      /\ fate' \in {"up", "panicked", "raced"}
  BY <1>1, <1>2, <1>3, WatchersOK
<1>5. /\ router' \in [msg : Msgs \cup {Nil}, cells : Cells, used : Nat, i : Nat \ {0},
                      shared : BOOLEAN, due : SUBSET Clients]
      /\ router'.msg = router.msg /\ router'.cells = router.cells /\ router'.used = router.used
      /\ router'.i = router.i /\ router'.due = router.due /\ router'.shared = FALSE
  BY <1>1, <1>2 DEF TypeInv
<1>6. /\ conns' \in [Accounts -> [cells : Cells, used : Nat]]
      /\ \A u \in Accounts : conns'[u].cells = <<>> /\ conns'[u].used = 0
  BY <1>2, NoCells DEF Empty
<1>7. closed' \subseteq Clients
  BY <1>1, <1>2 DEF TypeInv, Listed
<1>8. TypeInv'
  BY <1>1, <1>2, <1>3, <1>4, <1>5, <1>6, <1>7 DEF TypeInv
<1>9. ConnsOK'
  BY <1>6, NoCells DEF ConnsOK, Distinct
<1>10. PlacesOK'
  <2>1. \A c \in Clients : c \notin Listed'
    <3> SUFFICES ASSUME NEW c \in Clients PROVE c \notin Listed'
      OBVIOUS
    <3>1. conns'[Owner[c]].used = 0
      BY <1>6, Home
    <3> QED BY <3>1 DEF Listed
  <2> QED BY <1>1, <1>2, <2>1 DEF PlacesOK
<1>11. SliceOK'
  BY <1>1, <1>5 DEF SliceOK
<1>12. RoundOK'
  <2> SUFFICES ASSUME router.msg # Nil, router.msg \notin shaken PROVE RoundOK'
    BY <1>2, <1>5 DEF RoundOK
  <2>1. /\ Distinct(router.cells, router.used)
        /\ \A d \in router.due : \E j \in router.i .. router.used : router.cells[j] = d
        /\ \A d \in Clients : (\E n \in 1 .. Len(got'[d]) : got'[d][n] = router.msg) =>
             \E j \in 1 .. router.used : j < router.i /\ router.cells[j] = d
    BY <1>1, <1>2 DEF RoundOK, In
  <2> QED BY <1>5, <2>1, RoundNext
<1>13. UserEventsOK' /\ UpdatesOK' /\ OnceOK'
  BY <1>1, <1>2, <1>4, <1>5, SameUserEvents, SameUpdates, SameOnce
<1>14. UpOK'
  BY <1>2 DEF UpOK
<1> QED BY <1>8, <1>9, <1>10, <1>11, <1>12, <1>13, <1>14 DEF EInv

LEMMA FlushOK ==
  ASSUME EInv, Flush \/ UNCHANGED evars
  PROVE  EInv'
<1>1. TypeInv /\ ConnsOK /\ PlacesOK /\ SliceOK /\ RoundOK /\ UserEventsOK /\ UpdatesOK /\ OnceOK /\ UpOK
  BY DEF EInv
<1>2. /\ stage' = stage \/ stage' = "flushed"
      /\ UNCHANGED <<conns, subs, place, unread, closed, sending, userq, sourceq, router, feeder, fate,
                     told, got, shaken>>
  BY DEF Flush, evars
<1>3. TypeInv'
  BY <1>1, <1>2 DEF TypeInv
<1>4. ConnsOK' /\ SliceOK' /\ RoundOK' /\ UserEventsOK' /\ UpdatesOK' /\ OnceOK' /\ Listed' = Listed
  BY <1>1, <1>2, SameSlices, SameUserEvents, SameUpdates, SameOnce, SameListed
<1>5. PlacesOK' /\ UpOK'
  BY <1>1, <1>2, <1>4 DEF PlacesOK, UpOK
<1> QED BY <1>3, <1>4, <1>5 DEF EInv

LEMMA InitOK == Init => EInv
<1> SUFFICES ASSUME Init PROVE EInv
  OBVIOUS
<1>1. PICK cast \in Casts :
        /\ conns = [u \in Accounts |-> Empty]
        /\ subs = [s \in Sources |-> {}]
        /\ place = [c \in Clients |-> IF c \in cast[1] THEN "new" ELSE "gone"]
        /\ unread = [c \in Clients |-> 0]
        /\ closed = {}
        /\ sending = [m \in Msgs |-> IF m \in cast[2] THEN "new" ELSE "sent"]
        /\ told = Updates \ cast[3]
        /\ userq = <<>> /\ sourceq = <<>>
        /\ router = Idle
        /\ feeder = Resting
        /\ stage = "up" /\ fate = "up"
        /\ got = [c \in Clients |-> <<>>]
        /\ shaken = {}
  BY DEF Init
<1>2. Len(<<>>) = 0 /\ \A S : <<>> \in Seq(S)
  BY EmptySeq
<1>3. \A u \in Accounts : conns[u].cells = <<>> /\ conns[u].used = 0
  BY <1>1 DEF Empty
<1>4. \A c \in Clients : got[c] = <<>>
  BY <1>1
<1>5. router.msg = Nil /\ feeder.upd = Nil
  BY <1>1 DEF Idle, Resting
<1>6. TypeInv
  <2>1. 0 <= QueueCap /\ 0 \in 0 .. ChanCap
    BY EventsAssumption
  <2>2. /\ conns \in [Accounts -> [cells : Cells, used : Nat]]
        /\ router \in [msg : Msgs \cup {Nil}, cells : Cells, used : Nat, i : Nat \ {0},
                       shared : BOOLEAN, due : SUBSET Clients]
        /\ feeder \in [upd : Updates \cup {Nil}, served : SUBSET Clients, owed : SUBSET Clients]
    BY <1>1, NoCells DEF Empty, Idle, Resting
  <2> QED BY <1>1, <1>2, <2>1, <2>2 DEF TypeInv, Places
<1>7. ConnsOK
  BY <1>2, <1>3 DEF ConnsOK, Distinct
<1>8. PlacesOK
  <2>1. \A c \in Clients : c \notin Listed
    BY <1>3, Home DEF Listed
  <2> QED BY <1>1, <2>1 DEF PlacesOK
<1>9. SliceOK /\ RoundOK
  BY <1>5 DEF SliceOK, RoundOK
<1>10. UserEventsOK /\ UpdatesOK /\ OnceOK
  BY <1>1, <1>2, <1>4, <1>5 DEF UserEventsOK, UpdatesOK, OnceOK, Distinct, In, Once
<1>11. UpOK
  BY <1>1 DEF UpOK
<1> QED BY <1>6, <1>7, <1>8, <1>9, <1>10, <1>11 DEF EInv

(* The invariant of the events. *)
THEOREM Invariance == Spec => []EInv
<1>1. ASSUME EInv, [Next]_evars PROVE EInv'
  <2>1. ASSUME NEW c \in Clients, Client(c) PROVE EInv'
    BY <1>1, <2>1, RegisterOK, SubscribeOK, ReceiveLeaveOK, UnregisterOK DEF Client
  <2>2. ASSUME NEW m \in Msgs, Send(m) \/ Queue(m) PROVE EInv'
    BY <1>1, <2>2, SendOK, QueueOK
  <2>3. CASE Router
    BY <1>1, <2>3, RouteOK, DeliverOK, RoutedOK DEF Router
  <2>4. ASSUME NEW s \in Updates, SendSourceUpdate(s) PROVE EInv'
    BY <1>1, <2>4, SendSourceUpdateOK
  <2>5. CASE Feeder
    BY <1>1, <2>5, FeedOK, FeedOneOK, FedOK DEF Feeder
  <2>6. CASE Shutdown
    BY <1>1, <2>6, ShutdownOK
  <2>7. CASE Flush \/ UNCHANGED evars
    BY <1>1, <2>7, FlushOK
  <2> QED BY <1>1, <2>1, <2>2, <2>3, <2>4, <2>5, <2>6, <2>7 DEF Next
<1> QED BY <1>1, InitOK, PTL DEF Spec

-------------------------------------------------------------------------------
(* What it says. *)

(* Only the end of the server can make the router or the feeder send on a closed      *)
(* channel, whatever tabs come and go under the slice and the map they walk over.     *)
THEOREM PanicsOnlyAtTheEndAlways == Spec => []PanicsOnlyAtTheEnd
<1>1. EInv => PanicsOnlyAtTheEnd
  BY DEF EInv, UpOK, PanicsOnlyAtTheEnd
<1> QED BY <1>1, Invariance, PTL

(* The slices and maps of the router hold what they are for, the queues no more than   *)
(* they have room for; and a tab that has left while the server is up is neither in     *)
(* userClients nor in sourceClients, so that no events pile up for it.                *)
THEOREM TabsTypedAlways == Spec => []TabsTyped
<1>1. EInv => EventsTyped
  BY DEF EInv, TypeInv, ConnsOK, EventsTyped
<1>2. EInv => NothingLeft
  BY DEF EInv, UpOK, PlacesOK, NothingLeft
<1> QED BY <1>1, <1>2, Invariance, PTL DEF TabsTyped

(* handleUserEvents offers an event to every tab its user had open when it fetched     *)
(* the slice, and no channel gets an event twice, unless a tab of that user closes     *)
(* during the round: registering a tab in the array the router walks over is harmless.  *)
THEOREM EachOnceAlways == Spec => []EachOnce
<1>1. ASSUME EInv PROVE EachOnce
  <2>1. ASSUME router.msg # Nil, router.i > router.used, router.msg \notin shaken
        PROVE  router.due = {}
    <3>1. \A c \in router.due : \E j \in router.i .. router.used : router.cells[j] = c
      BY <1>1, <2>1 DEF EInv, RoundOK
    <3>2. router.used \in Nat /\ router.i \in Nat \ {0}
      BY <1>1, RouterType DEF EInv
    <3> QED BY <2>1, <3>1, <3>2
  <2>2. ASSUME NEW c \in Clients, NEW m \in (Msgs \cup Updates) \ shaken
        PROVE  Cardinality({i \in 1 .. Len(got[c]) : got[c][i] = m}) <= 1
    <3> DEFINE S == {i \in 1 .. Len(got[c]) : got[c][i] = m}
    <3>1. \A i, j \in S : i = j
      BY <1>1 DEF EInv, OnceOK, Once
    <3> HIDE DEF S
    <3>2. Cardinality(S) \in {0, 1}
      <4>1. CASE S = {}
        BY <4>1, FS_EmptySet
      <4>2. CASE S # {}
        <5>1. PICK i \in S : S = {i}
          BY <3>1, <4>2
        <5>2. Cardinality({i}) = 1
          BY FS_Singleton
        <5> QED BY <5>1, <5>2
      <4> QED BY <4>1, <4>2
    <3>3. Cardinality(S) <= 1
      BY <3>2
    <3> QED BY <3>3 DEF S
  <2> QED BY <2>1, <2>2 DEF EachOnce
<1> QED BY <1>1, Invariance, PTL

-----------------------------------------------------------------------------
(* Identity providers and the cookies (Identity), for any number of people and    *)
(* tabs, whatever is enabled, and whatever cookie an earlier release has left.     *)

Cookies == [who : People, stale : BOOLEAN]
Rows == [method : {"chainfs", "oidc", "proxy"}, admin : BOOLEAN]
Logging ==
  [pc : {"idle", "provider", "back", "check", "write"}, kind : {"chainfs", "oidc", Nil},
   silent : BOOLEAN, who : People \cup {Nil}, err : {"login_required", "other", "cancelled", Nil},
   admin : BOOLEAN]

\* Who comes back from the provider without an error is somebody.
Known ==
  \A t \in Tabs :
    (flow[t].pc = "back" /\ flow[t].err = Nil) \/ flow[t].pc \in {"check", "write"} => flow[t].who \in People

FlowsOK == flow \in [Tabs -> Logging] /\ b2c \in People \cup {Nil} /\ Known

SessOK ==
  /\ sess \in [I!Forms -> Cookies \cup {Nil}]
  /\ first \in I!Forms \cup {Nil} /\ (first = Nil <=> \A f \in I!Forms : sess[f] = Nil)
  /\ first # Nil => sess[first] # Nil

RowsOK == db \in [People -> Rows \cup {Nil}]

\* What setSessionCookie has set is alone, and what was there at the start was as well.
Newest == latest => \A f \in I!Forms : sess[f] # Nil => ~sess[f].stale

CookieInv == FlowsOK /\ SessOK /\ RowsOK /\ I!SignedOut /\ Newest

USE DEF Cookies, Rows

LEMMA CookieIs ==
  ASSUME I!IdentityAssumption, NEW p \in People
  PROVE  I!Cookie(p) \in Cookies /\ I!Cookie(p) # Nil /\ ~I!Cookie(p).stale
<1>1. Nil \notin Cookies BY DEF I!IdentityAssumption
<1>2. I!Cookie(p) \in Cookies /\ I!Cookie(p).stale = FALSE BY DEF I!Cookie
<1> QED BY <1>1, <1>2

LEMMA CookieInit == ASSUME I!IdentityAssumption, I!Init PROVE CookieInv
<1>1. I!Forms = {"host", "legacy"} /\ Nil \notin I!Forms /\ Nil \notin People
  BY DEF I!IdentityAssumption, I!Forms
<1>2. FlowsOK
  <2>1. flow = [t \in Tabs |-> I!Still] /\ I!Still \in Logging /\ I!Still.pc = "idle"
    BY DEF I!Init, I!Still, Logging
  <2> QED BY <2>1, <1>1 DEF FlowsOK, Known, I!Init
<1>3. PICK old \in BOOLEAN, p \in People :
        /\ sess = [f \in I!Forms |-> IF old /\ f = "legacy" THEN I!Cookie(p) ELSE Nil]
        /\ first = IF old THEN "legacy" ELSE Nil
  BY DEF I!Init
<1>4. I!Cookie(p) \in Cookies /\ I!Cookie(p) # Nil /\ ~I!Cookie(p).stale
  BY CookieIs
<1>5. SessOK /\ Newest BY <1>1, <1>3, <1>4 DEF SessOK, Newest
<1>6. RowsOK BY DEF I!Init, RowsOK
<1>7. I!SignedOut BY DEF I!Init, I!SignedOut
<1> QED BY <1>2, <1>5, <1>6, <1>7 DEF CookieInv

-----------------------------------------------------------------------------
(* The session cookie                                                          *)

\* A form is set: it is the newest there is, and what else is kept is outdated.
LEMMA FormSet ==
  ASSUME I!IdentityAssumption, SessOK, NEW p \in People, NEW f \in I!Forms,
         NEW others \in SUBSET I!Forms, f \notin others, I!SetForm(f, p, others)
  PROVE  SessOK' /\ I!SignedOut' /\ sess'[f] = I!Cookie(p)
         /\ \A g \in I!Forms \ others : g # f => sess'[g] = Nil
<1>1. I!Forms = {"host", "legacy"} /\ Nil \notin I!Forms /\ Nil \notin Cookies
  BY DEF I!IdentityAssumption, I!Forms
<1>2. I!Cookie(p) \in Cookies /\ I!Cookie(p) # Nil BY CookieIs
<1>3. \A g \in I!Forms : sess[g] # Nil => [sess[g] EXCEPT !.stale = TRUE] \in Cookies
  BY DEF SessOK
<1>4. /\ sess' = [g \in I!Forms |-> IF g = f THEN I!Cookie(p)
                              ELSE IF g \in others /\ sess[g] # Nil THEN [sess[g] EXCEPT !.stale = TRUE]
                              ELSE Nil]
      /\ first' = IF first \in others THEN first ELSE f
      /\ out' = FALSE
  BY DEF I!SetForm
<1>5. sess' \in [I!Forms -> Cookies \cup {Nil}] BY <1>2, <1>3, <1>4
<1>6. sess'[f] = I!Cookie(p) BY <1>4
<1>7. first' \in I!Forms /\ sess'[first'] # Nil
  <2>1. CASE first \in others
    <3>1. first # f /\ sess[first] # Nil /\ first \in I!Forms BY <2>1, <1>1 DEF SessOK
    <3>2. sess'[first] \in Cookies BY <3>1, <2>1, <1>3, <1>4
    <3> QED BY <3>1, <3>2, <2>1, <1>4, <1>1
  <2>2. CASE first \notin others BY <2>2, <1>4, <1>6, <1>2
  <2> QED BY <2>1, <2>2
<1>8. SessOK' BY <1>1, <1>5, <1>7 DEF SessOK
<1>9. \A g \in I!Forms \ others : g # f => sess'[g] = Nil BY <1>4
<1> QED BY <1>4, <1>6, <1>8, <1>9 DEF I!SignedOut

LEMMA SessionSet ==
  ASSUME I!IdentityAssumption, SessOK, NEW p \in People, I!SetSessionCookie(p)
  PROVE  SessOK' /\ I!SignedOut' /\ Newest'
<1>1. I!SetForm("host", p, {}) /\ "host" \in I!Forms /\ {} \in SUBSET I!Forms
  BY DEF I!SetSessionCookie, I!Forms
<1>2. SessOK' /\ I!SignedOut' /\ sess'["host"] = I!Cookie(p)
      /\ \A g \in I!Forms \ {} : g # "host" => sess'[g] = Nil
  BY <1>1, FormSet
<1>3. ~I!Cookie(p).stale BY DEF I!Cookie
<1>4. Newest' BY <1>2, <1>3 DEF Newest, I!Forms
<1> QED BY <1>2, <1>4

LEMMA OidcSet ==
  ASSUME I!IdentityAssumption, SessOK, NEW p \in People, I!SetOidcCookie(p)
  PROVE  SessOK' /\ I!SignedOut' /\ Newest'
<1>1. I!SetForm("legacy", p, {"host"}) /\ "legacy" \in I!Forms /\ {"host"} \in SUBSET I!Forms
  BY DEF I!SetOidcCookie, I!Forms
<1>2. SessOK' /\ I!SignedOut' BY <1>1, FormSet
<1>3. Newest' BY DEF Newest, I!SetOidcCookie
<1> QED BY <1>2, <1>3

LEMMA HostDropped ==
  ASSUME I!IdentityAssumption, SessOK, I!SignedOut, Newest, I!DropHost, UNCHANGED <<out, latest>>
  PROVE  SessOK' /\ I!SignedOut' /\ Newest'
<1>1. I!Forms = {"host", "legacy"} /\ Nil \notin I!Forms BY DEF I!IdentityAssumption, I!Forms
<1>2. sess' = [sess EXCEPT !["host"] = Nil] /\ first' = IF sess["legacy"] # Nil THEN "legacy" ELSE Nil
  BY DEF I!DropHost
<1>3. SessOK' BY <1>1, <1>2 DEF SessOK
<1>4. out => sess["legacy"] = Nil BY <1>1 DEF SessOK, I!SignedOut
<1>5. I!SignedOut' BY <1>2, <1>4 DEF I!SignedOut
<1>6. Newest' BY <1>1, <1>2 DEF Newest, SessOK
<1> QED BY <1>3, <1>5, <1>6

LEMMA AllCleared ==
  ASSUME I!IdentityAssumption, I!ClearSessionCookies
  PROVE  SessOK' /\ I!SignedOut' /\ Newest'
<1>1. Nil \notin I!Forms BY DEF I!IdentityAssumption
<1>2. sess' = [f \in I!Forms |-> Nil] /\ first' = Nil BY DEF I!ClearSessionCookies
<1> QED BY <1>1, <1>2 DEF SessOK, I!SignedOut, Newest

LEMMA CookiesKept ==
  ASSUME SessOK, I!SignedOut, Newest, UNCHANGED <<sess, first, out, latest>>
  PROVE  SessOK' /\ I!SignedOut' /\ Newest'
  BY DEF SessOK, I!SignedOut, Newest

-----------------------------------------------------------------------------
(* The logins of the tabs                                                       *)

\* One tab gets on.
LEMMA OneFlow ==
  ASSUME FlowsOK, NEW t \in Tabs, NEW r \in Logging,
         flow' = [flow EXCEPT ![t] = r], b2c' \in People \cup {Nil},
         (r.pc = "back" /\ r.err = Nil) \/ r.pc \in {"check", "write"} => r.who \in People
  PROVE  FlowsOK'
<1>1. flow' \in [Tabs -> Logging] BY DEF FlowsOK
<1>2. Known' BY DEF FlowsOK, Known
<1> QED BY <1>1, <1>2 DEF FlowsOK

LEMMA StillOK == I!Still \in Logging /\ I!Still.pc = "idle"
  BY DEF I!Still, Logging

LEMMA FlowEnds ==
  ASSUME FlowsOK, NEW t \in Tabs, I!End(t), UNCHANGED b2c
  PROVE  FlowsOK'
<1>1. flow' = [flow EXCEPT ![t] = I!Still] BY DEF I!End
<1>2. b2c' \in People \cup {Nil} BY DEF FlowsOK
<1> QED BY <1>1, <1>2, StillOK, OneFlow

LEMMA FlowLeaves ==
  ASSUME FlowsOK, NEW t \in Tabs, NEW kind \in I!Redirecting, NEW silent \in BOOLEAN,
         I!Leaves(t, kind, silent), UNCHANGED b2c
  PROVE  FlowsOK'
<1> DEFINE r == [I!Still EXCEPT !.pc = "provider", !.kind = kind, !.silent = silent]
<1>1. flow' = [flow EXCEPT ![t] = r] BY DEF I!Leaves
<1>2. r \in Logging /\ r.pc = "provider" BY DEF I!Still, Logging, I!Redirecting
<1>3. b2c' \in People \cup {Nil} BY DEF FlowsOK
<1> QED BY <1>1, <1>2, <1>3, OneFlow

LEMMA FlowsSame ==
  ASSUME FlowsOK, UNCHANGED <<flow, b2c>>
  PROVE  FlowsOK'
  BY DEF FlowsOK, Known

LEMMA AnswersFlow ==
  ASSUME I!IdentityAssumption, FlowsOK, NEW t \in Tabs,
         I!AnswersSilently(t) \/ \E p \in People : I!Answers(t, p)
  PROVE  FlowsOK'
<1>1. flow \in [Tabs -> Logging] /\ b2c \in People \cup {Nil} BY DEF FlowsOK
<1>2. CASE I!AnswersSilently(t)
  <2>1. PICK err \in {"login_required", "other", Nil} :
          /\ (err = Nil) => b2c # Nil
          /\ flow' = [flow EXCEPT ![t].pc = "back", ![t].err = err, ![t].who = IF err = Nil THEN b2c ELSE Nil]
    BY <1>2 DEF I!AnswersSilently
  <2> DEFINE r == [flow[t] EXCEPT !.pc = "back", !.err = err, !.who = IF err = Nil THEN b2c ELSE Nil]
  <2>2. flow' = [flow EXCEPT ![t] = r] BY <2>1, <1>1
  <2>3. r \in Logging /\ r.err = err /\ r.pc = "back" /\ (err = Nil => r.who = b2c) BY <1>1, <2>1 DEF Logging
  <2>4. b2c' \in People \cup {Nil} BY <1>1, <1>2 DEF I!AnswersSilently
  <2>5. (r.pc = "back" /\ r.err = Nil) \/ r.pc \in {"check", "write"} => r.who \in People
    BY <1>1, <2>1, <2>3
  <2> HIDE DEF r
  <2> QED BY <2>2, <2>3, <2>4, <2>5, OneFlow
<1>3. ASSUME NEW p \in People, I!Answers(t, p) PROVE FlowsOK'
  <2>1. CASE flow' = [flow EXCEPT ![t].pc = "back", ![t].who = p] /\ b2c' = p
    <3> DEFINE r == [flow[t] EXCEPT !.pc = "back", !.who = p]
    <3>1. flow' = [flow EXCEPT ![t] = r] BY <2>1, <1>1
    <3>2. r \in Logging /\ r.who = p BY <1>1 DEF Logging
    <3> QED BY <2>1, <3>1, <3>2, OneFlow
  <2>2. CASE flow' = [flow EXCEPT ![t].pc = "back", ![t].err = "cancelled"] /\ UNCHANGED b2c
    <3> DEFINE r == [flow[t] EXCEPT !.pc = "back", !.err = "cancelled"]
    <3>1. flow' = [flow EXCEPT ![t] = r] BY <2>2, <1>1
    <3>2. r \in Logging /\ r.err = "cancelled" /\ r.pc = "back" BY <1>1 DEF Logging
    <3>3. Nil # "cancelled" BY DEF I!IdentityAssumption
    <3> QED BY <1>1, <2>2, <3>1, <3>2, <3>3, OneFlow
  <2> QED BY <1>3, <2>1, <2>2 DEF I!Answers
<1> QED BY <1>2, <1>3

LEMMA ArriveFlow ==
  ASSUME I!IdentityAssumption, FlowsOK, NEW t \in Tabs, I!Arrive(t)
  PROVE  FlowsOK'
<1>1. flow \in [Tabs -> Logging] /\ b2c \in People \cup {Nil} BY DEF FlowsOK
<1>2. CASE I!CallbackError(t)
  <2>1. UNCHANGED b2c BY <1>2 DEF I!CallbackError
  <2>2. CASE I!FallBack(t)
    BY <2>1, <2>2, FlowLeaves DEF I!FallBack, I!Redirecting
  <2>3. CASE I!End(t) BY <2>1, <2>3, FlowEnds
  <2> QED BY <1>2, <2>2, <2>3 DEF I!CallbackError
<1>3. CASE I!Callback(t)
  <2>1. UNCHANGED b2c /\ flow[t].pc = "back" /\ flow[t].err = Nil BY <1>3 DEF I!Callback, I!At
  <2>2. flow[t].who \in People BY <2>1 DEF FlowsOK, Known
  <2>3. CASE I!End(t) BY <2>1, <2>3, FlowEnds
  <2>4. CASE flow' = [flow EXCEPT ![t].pc = "check"]
    <3> DEFINE r == [flow[t] EXCEPT !.pc = "check"]
    <3>1. flow' = [flow EXCEPT ![t] = r] BY <2>4, <1>1
    <3>2. r \in Logging /\ r.who = flow[t].who BY <1>1 DEF Logging
    <3> QED BY <1>1, <2>1, <2>2, <3>1, <3>2, OneFlow
  <2> QED BY <1>3, <2>3, <2>4 DEF I!Callback
<1>4. CASE I!OidcCallback(t)
  <2>1. UNCHANGED b2c /\ flow[t].pc = "back" BY <1>4 DEF I!OidcCallback, I!At
  <2>2. CASE I!End(t) BY <2>1, <2>2, FlowEnds
  <2>3. CASE flow[t].err = Nil /\ flow' = [flow EXCEPT ![t].pc = "write", ![t].admin = flow[t].who \in Claimed]
    <3> DEFINE r == [flow[t] EXCEPT !.pc = "write", !.admin = flow[t].who \in Claimed]
    <3>1. flow' = [flow EXCEPT ![t] = r] BY <2>3, <1>1
    <3>2. flow[t].who \in People BY <2>1, <2>3 DEF FlowsOK, Known
    <3>3. (flow[t].who \in Claimed) \in BOOLEAN OBVIOUS
    <3>4. r \in Logging /\ r.who = flow[t].who BY <1>1, <3>3 DEF Logging
    <3> QED BY <1>1, <2>1, <3>1, <3>2, <3>4, OneFlow
  <2> QED BY <1>4, <2>2, <2>3 DEF I!OidcCallback
<1> QED BY <1>2, <1>3, <1>4 DEF I!Arrive

-----------------------------------------------------------------------------
(* The account                                                                 *)

\* Somebody who may be an administrator already.
LEMMA AdminIs == ASSUME RowsOK, I!IdentityAssumption, NEW p \in People PROVE I!IsAdmin(p) \in BOOLEAN
  BY DEF I!IsAdmin, RowsOK

LEMMA ServeStep ==
  ASSUME I!IdentityAssumption, CookieInv, NEW t \in Tabs, I!Serve(t)
  PROVE  CookieInv'
<1>1. flow \in [Tabs -> Logging] /\ b2c \in People \cup {Nil} BY DEF CookieInv, FlowsOK
<1>2. I!At(t, "check") \/ I!At(t, "write") => flow[t].who \in People BY DEF CookieInv, FlowsOK, Known, I!At
<1>3. CASE I!Check(t)
  <2>1. UNCHANGED <<sess, first, b2c, db, out, latest>> /\ flow[t].who \in People BY <1>2, <1>3 DEF I!Check
  <2>2. SessOK' /\ I!SignedOut' /\ Newest' BY <2>1, CookiesKept DEF CookieInv
  <2>3. RowsOK' BY <2>1 DEF CookieInv, RowsOK
  <2>4. CASE I!End(t) BY <2>1, <2>2, <2>3, <2>4, FlowEnds DEF CookieInv
  <2> DEFINE admin == flow[t].who \in Claimed \/ I!IsAdmin(flow[t].who)
  <2>5. CASE flow' = [flow EXCEPT ![t].pc = "write", ![t].admin = admin]
    <3> DEFINE r == [flow[t] EXCEPT !.pc = "write", !.admin = admin]
    <3>1. flow' = [flow EXCEPT ![t] = r] BY <2>5, <1>1
    <3>2. admin \in BOOLEAN OBVIOUS
    <3> HIDE DEF admin
    <3>3. r \in Logging /\ r.who = flow[t].who BY <1>1, <3>2 DEF Logging
    <3>4. FlowsOK' BY <1>1, <2>1, <3>1, <3>3, OneFlow DEF CookieInv
    <3> QED BY <2>2, <2>3, <3>4 DEF CookieInv
  <2> QED BY <1>3, <2>4, <2>5 DEF I!Check
<1>4. CASE I!ChainFsLogin(t)
  <2> DEFINE p == flow[t].who  admin == flow[t].admin \/ I!IsAdmin(p)
  <2>1. /\ I!End(t) /\ UNCHANGED b2c /\ I!SetSessionCookie(p) /\ p \in People
        /\ db' = [db EXCEPT ![p] = [method |-> "chainfs", admin |-> admin]]
    BY <1>2, <1>4 DEF I!ChainFsLogin
  <2>2. admin \in BOOLEAN BY <2>1, AdminIs DEF CookieInv
  <2> HIDE DEF admin, p
  <2>3. RowsOK' BY <2>1, <2>2 DEF CookieInv, RowsOK
  <2>4. SessOK' /\ I!SignedOut' /\ Newest' BY <2>1, SessionSet DEF CookieInv
  <2>5. FlowsOK' BY <2>1, FlowEnds DEF CookieInv
  <2> QED BY <2>3, <2>4, <2>5 DEF CookieInv
<1>5. CASE I!OidcLogin(t)
  <2> DEFINE p == flow[t].who
             now1 == IF db[p] = Nil THEN [method |-> "oidc", admin |-> flow[t].admin]
                     ELSE [db[p] EXCEPT !.admin = flow[t].admin]
  <2>1. /\ I!End(t) /\ UNCHANGED b2c /\ p \in People
        /\ db' = [db EXCEPT ![p] = now1]
        /\ I!SetOidcCookie(p) \/ UNCHANGED <<sess, first, out, latest>>
    BY <1>2, <1>5 DEF I!OidcLogin
  <2>2. flow[t].admin \in BOOLEAN BY <1>1 DEF Logging
  <2>3. now1 \in Rows BY <2>1, <2>2 DEF CookieInv, RowsOK
  <2> HIDE DEF now1, p
  <2>4. RowsOK' BY <2>1, <2>3 DEF CookieInv, RowsOK
  <2>5. SessOK' /\ I!SignedOut' /\ Newest' BY <2>1, OidcSet, CookiesKept DEF CookieInv
  <2>6. FlowsOK' BY <2>1, FlowEnds DEF CookieInv
  <2> QED BY <2>4, <2>5, <2>6 DEF CookieInv
<1>6. CASE I!LoginFails(t)
  <2>1. I!End(t) /\ UNCHANGED <<sess, first, b2c, db, out, latest>> BY <1>6 DEF I!LoginFails
  <2>2. SessOK' /\ I!SignedOut' /\ Newest' BY <2>1, CookiesKept DEF CookieInv
  <2>3. RowsOK' BY <2>1 DEF CookieInv, RowsOK
  <2>4. FlowsOK' BY <2>1, FlowEnds DEF CookieInv
  <2> QED BY <2>2, <2>3, <2>4 DEF CookieInv
<1> QED BY <1>3, <1>4, <1>5, <1>6 DEF I!Serve

LEMMA TabStep ==
  ASSUME I!IdentityAssumption, CookieInv, NEW t \in Tabs,
         \/ \E kind \in I!Redirecting, silent \in BOOLEAN : I!Start(t, kind, silent)
         \/ I!AnswersSilently(t) \/ \E p \in People : I!Answers(t, p)
         \/ I!Arrive(t)
  PROVE  CookieInv'
<1>1. UNCHANGED <<sess, first, db, out, latest>>
  BY DEF I!Start, I!AnswersSilently, I!Answers, I!Arrive, I!CallbackError, I!Callback, I!OidcCallback
<1>2. SessOK' /\ I!SignedOut' /\ Newest' BY <1>1, CookiesKept DEF CookieInv
<1>3. RowsOK' BY <1>1 DEF CookieInv, RowsOK
<1>4. FlowsOK'
  <2>1. ASSUME NEW kind \in I!Redirecting, NEW silent \in BOOLEAN, I!Start(t, kind, silent) PROVE FlowsOK'
    <3>1. I!Leaves(t, kind, silent) /\ UNCHANGED b2c BY <2>1 DEF I!Start
    <3> QED BY <3>1, FlowLeaves DEF CookieInv
  <2>2. CASE I!AnswersSilently(t) \/ \E p \in People : I!Answers(t, p)
    BY <2>2, AnswersFlow DEF CookieInv
  <2>3. CASE I!Arrive(t) BY <2>3, ArriveFlow DEF CookieInv
  <2> QED BY <2>1, <2>2, <2>3
<1> QED BY <1>2, <1>3, <1>4 DEF CookieInv

LEMMA PersonStep ==
  ASSUME I!IdentityAssumption, CookieInv, NEW p \in People,
         I!PasswordLogin(p) \/ I!ProxyRequest(p) \/ I!Administer(p)
  PROVE  CookieInv'
<1>1. FlowsOK'
  <2>1. UNCHANGED <<flow, b2c>> BY DEF I!PasswordLogin, I!ProxyRequest, I!Administer
  <2> QED BY <2>1, FlowsSame DEF CookieInv
<1>2. CASE I!PasswordLogin(p)
  <2>1. I!SetSessionCookie(p) /\ UNCHANGED db BY <1>2 DEF I!PasswordLogin
  <2>2. SessOK' /\ I!SignedOut' /\ Newest' BY <2>1, SessionSet DEF CookieInv
  <2> QED BY <1>1, <2>1, <2>2 DEF CookieInv, RowsOK
<1>3. CASE I!ProxyRequest(p) \/ I!Administer(p)
  <2>1. UNCHANGED <<sess, first, out, latest>> BY <1>3 DEF I!ProxyRequest, I!Administer
  <2>2. SessOK' /\ I!SignedOut' /\ Newest' BY <2>1, CookiesKept DEF CookieInv
  <2>3. RowsOK'
    <3>1. db \in [People -> Rows \cup {Nil}] BY DEF CookieInv, RowsOK
    <3>2. CASE I!ProxyRequest(p)
      <4> DEFINE admin == I!IsAdmin(p) \/ p \in Claimed
      <4>1. db' = [db EXCEPT ![p] = [method |-> "proxy", admin |-> admin]] BY <3>2 DEF I!ProxyRequest
      <4>2. admin \in BOOLEAN OBVIOUS
      <4> HIDE DEF admin
      <4> QED BY <3>1, <4>1, <4>2 DEF RowsOK
    <3>3. CASE I!Administer(p)
      <4>1. db[p] # Nil /\ db' \in {[db EXCEPT ![p] = Nil], [db EXCEPT ![p].admin = ~@]}
        BY <3>3 DEF I!Administer
      <4>2. db[p] \in Rows /\ [db[p] EXCEPT !.admin = ~@] \in Rows BY <3>1, <4>1
      <4>3. CASE db' = [db EXCEPT ![p] = Nil] BY <3>1, <4>3 DEF RowsOK
      <4>4. CASE db' = [db EXCEPT ![p].admin = ~@]
        <5>1. db' = [db EXCEPT ![p] = [db[p] EXCEPT !.admin = ~@]] BY <4>4
        <5> QED BY <3>1, <4>2, <5>1 DEF RowsOK
      <4> QED BY <4>1, <4>3, <4>4
    <3> QED BY <1>3, <3>2, <3>3
  <2> QED BY <1>1, <2>2, <2>3 DEF CookieInv
<1> QED BY <1>2, <1>3

LEMMA BrowserStep ==
  ASSUME I!IdentityAssumption, CookieInv,
         (\E p \in {b2c, Nil} : I!Logout(p)) \/ I!Renew \/ I!CloseBrowser
  PROVE  CookieInv'
<1>1. RowsOK'
  <2>1. UNCHANGED db BY DEF I!Logout, I!Renew, I!CloseBrowser
  <2> QED BY <2>1 DEF CookieInv, RowsOK
<1>2. ASSUME NEW p \in {b2c, Nil}, I!Logout(p) PROVE CookieInv'
  <2>1. I!ClearSessionCookies /\ b2c' = p /\ UNCHANGED flow BY <1>2 DEF I!Logout
  <2>2. SessOK' /\ I!SignedOut' /\ Newest' BY <2>1, AllCleared
  <2>3. FlowsOK' BY <2>1 DEF CookieInv, FlowsOK, Known
  <2> QED BY <1>1, <2>2, <2>3 DEF CookieInv
<1>3. CASE I!Renew
  <2>1. first # Nil /\ I!SetSessionCookie(sess[first].who) /\ UNCHANGED <<flow, b2c>>
    BY <1>3 DEF I!Renew, I!Sent
  <2>2. sess[first].who \in People BY <2>1 DEF CookieInv, SessOK
  <2>3. SessOK' /\ I!SignedOut' /\ Newest' BY <2>1, <2>2, SessionSet DEF CookieInv
  <2>4. FlowsOK' BY <2>1, FlowsSame DEF CookieInv
  <2> QED BY <1>1, <2>3, <2>4 DEF CookieInv
<1>4. CASE I!CloseBrowser
  <2>1. I!DropHost /\ UNCHANGED <<out, latest>> /\ flow' = [t \in Tabs |-> I!Still] /\ b2c' = Nil
    BY <1>4 DEF I!CloseBrowser
  <2>2. SessOK' /\ I!SignedOut' /\ Newest' BY <2>1, HostDropped DEF CookieInv
  <2>3. FlowsOK' BY <2>1, StillOK DEF FlowsOK, Known
  <2> QED BY <1>1, <2>2, <2>3 DEF CookieInv
<1> QED BY <1>2, <1>3, <1>4

LEMMA CookieStep ==
  ASSUME I!IdentityAssumption, CookieInv, [I!Next]_I!ivars
  PROVE  CookieInv'
<1>1. CASE UNCHANGED I!ivars
  <2>1. UNCHANGED <<sess, first, db, out, latest, flow, b2c>> BY <1>1 DEF I!ivars
  <2>2. SessOK' /\ I!SignedOut' /\ Newest' BY <2>1, CookiesKept DEF CookieInv
  <2>3. FlowsOK' BY <2>1, FlowsSame DEF CookieInv
  <2> QED BY <2>1, <2>2, <2>3 DEF CookieInv, RowsOK
<1>2. CASE I!Next
  BY <1>2, TabStep, ServeStep, PersonStep, BrowserStep DEF I!Next
<1> QED BY <1>1, <1>2

LEMMA CookieTells == ASSUME CookieInv PROVE I!IdentityTyped /\ I!CookiesTell
<1>1. I!IdentityTyped
  BY DEF CookieInv, SessOK, RowsOK, FlowsOK, Known, I!IdentityTyped
<1>2. I!NewestCounts BY DEF CookieInv, SessOK, Newest, I!NewestCounts, I!Sent
<1> QED BY <1>1, <1>2 DEF CookieInv, I!CookiesTell

(* The variables of the logins keep their types: who a callback lets in is a person *)
(* of the provider, and the cookie the server reads is one the browser has; after a  *)
(* sign-out the browser holds no session in any form, whichever way of logging in    *)
(* had put it there; and after setSessionCookie the server reads what it set,        *)
(* whatever there was before (setSessionCookie, clearSessionCookies).                *)
THEOREM CookiesTellAlways == ASSUME I!IdentityAssumption PROVE BrowserSpec => []CookiesTell
<1>1. BrowserInit => (part = "logins" => CookieInv) BY CookieInit DEF BrowserInit
<1>2. (part = "logins" => CookieInv) /\ [BrowserNext]_browserVars => (part = "logins" => CookieInv)'
  <2> SUFFICES ASSUME part = "logins" => CookieInv, [BrowserNext]_browserVars, part' = "logins"
               PROVE  CookieInv'
    OBVIOUS
  <2>1. part = "logins" /\ [I!Next]_I!ivars BY DEF BrowserNext, browserVars, ivars, I!ivars
  <2> QED BY <2>1, CookieStep
<1>3. (part = "logins" => CookieInv) => CookiesTell BY CookieTells DEF CookiesTell
<1> QED BY <1>1, <1>2, <1>3, PTL DEF BrowserSpec
===============================================================================
