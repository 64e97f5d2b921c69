------------------------- MODULE StdioTransportProofs -------------------------
(***************************************************************************)
(* Theorems about StdioTransport, alone or over a child process, for any   *)
(* size of its channels and any number of messages: what Inv and           *)
(* ProcessInv say, and that the four ways through the transport implement  *)
(* OrderedStream.                                                          *)
(*                                                                         *)
(* A way is a row of goroutines with a channel before each.  Going         *)
(* upstream from what has been delivered, hands and channels hold the      *)
(* messages that follow in the stream, one after the other, up to the      *)
(* first goroutine that has exited: it may have dropped one, and nothing   *)
(* from behind it moves again.  Requests, notifications and responses      *)
(* share the way from the reader to the router; there, R counts the lines  *)
(* that have been routed and separates in each of their streams what is    *)
(* beyond the router from what is not.                                     *)
(***************************************************************************)
EXTENDS ProcessTransport, TLAPS

(***************************************************************************)
(* A section of a stream                                                   *)
(***************************************************************************)

\* s holds the messages of stream S that follow the first n.
Carries(s, S, n) ==
    /\ n + Len(s) <= Len(S)
    /\ \A i \in 1 .. Len(s) : s[i] = S[n + i]

\* If there is a message in hand h, it is the one that follows the first n.
Holds(h, S, n) == h # Empty => n + 1 <= Len(S) /\ h = S[n + 1]

Hand == Nat \cup {Exited}

Count(h) == IF h = Empty THEN 0 ELSE 1

\* A goroutine with h in its hands and the channel s before it, behind the
\* first n messages; and how many messages are before the end of that channel.
Behind(h, s, S, n) == Holds(h, S, n) /\ Carries(s, S, n + Count(h))
End(h, s, n) == n + Count(h) + Len(s)

\* The messages as they are numbered.
Numbers(n) == [i \in 1 .. n |-> i]

\* The first n messages of S are those up to number R.
Cut(S, n, R) == \A i \in 1 .. Len(S) : S[i] <= R <=> i <= n

\* An end of a stream may be moved, message by message.
LEMMA CarriesTail ==
    ASSUME NEW s \in Seq(Nat), NEW S \in Seq(Nat), NEW n \in Nat,
           Carries(s, S, n), s # <<>>
    PROVE  /\ n + 1 <= Len(S) /\ Head(s) = S[n + 1]
           /\ Carries(Tail(s), S, n + 1)
           /\ Len(Tail(s)) = Len(s) - 1
  <1>1. /\ Len(s) >= 1 /\ Head(s) = s[1] /\ Len(Tail(s)) = Len(s) - 1
        /\ \A i \in 1 .. Len(Tail(s)) : Tail(s)[i] = s[i + 1]
    OBVIOUS
  <1>2. \A i \in 1 .. Len(Tail(s)) : s[i + 1] = S[(n + 1) + i]
    BY <1>1 DEF Carries
  <1> QED BY <1>1, <1>2 DEF Carries

LEMMA CarriesAppend ==
    ASSUME NEW s \in Seq(Nat), NEW S \in Seq(Nat), NEW n \in Nat, NEW m \in Nat,
           Carries(s, S, n),
           n + Len(s) + 1 <= Len(S), m = S[n + Len(s) + 1]
    PROVE  Carries(Append(s, m), S, n) /\ Len(Append(s, m)) = Len(s) + 1
  <1>1. /\ Len(Append(s, m)) = Len(s) + 1
        /\ \A i \in 1 .. Len(s) : Append(s, m)[i] = s[i]
        /\ Append(s, m)[Len(s) + 1] = m
    OBVIOUS
  <1>2. ASSUME NEW i \in 1 .. Len(s) + 1
        PROVE  Append(s, m)[i] = S[n + i]
    <2>1. CASE i \in 1 .. Len(s)
      BY <1>1, <2>1 DEF Carries
    <2>2. CASE i = Len(s) + 1
      BY <1>1, <2>2
    <2> QED BY <2>1, <2>2
  <1>3. n + Len(Append(s, m)) <= Len(S)
    BY <1>1
  <1> QED BY <1>1, <1>2, <1>3 DEF Carries

\* More messages may come at the end of the stream.
LEMMA CarriesLonger ==
    ASSUME NEW s \in Seq(Nat), NEW S \in Seq(Nat), NEW n \in Nat, NEW m \in Nat,
           Carries(s, S, n)
    PROVE  Carries(s, Append(S, m), n)
  <1>1. /\ Len(Append(S, m)) = Len(S) + 1
        /\ \A i \in 1 .. Len(S) : Append(S, m)[i] = S[i]
    OBVIOUS
  <1> QED BY <1>1 DEF Carries

LEMMA BehindLonger ==
    ASSUME NEW h \in Nat, NEW s \in Seq(Nat), NEW S \in Seq(Nat), NEW n \in Nat,
           NEW m \in Nat, Behind(h, s, S, n)
    PROVE  Behind(h, s, Append(S, m), n)
  <1>1. /\ Len(Append(S, m)) = Len(S) + 1
        /\ \A i \in 1 .. Len(S) : Append(S, m)[i] = S[i]
    OBVIOUS
  <1>2. Holds(h, Append(S, m), n)
    BY <1>1 DEF Holds, Behind
  <1> QED BY <1>2, CarriesLonger DEF Behind, Count

\* A goroutine takes a message from its channel.
LEMMA BehindTakes ==
    ASSUME NEW s \in Seq(Nat \ {0}), NEW S \in Seq(Nat), NEW n \in Nat,
           s # <<>>, Behind(Empty, s, S, n)
    PROVE  /\ Behind(Head(s), Tail(s), S, n)
           /\ End(Head(s), Tail(s), n) = End(Empty, s, n)
  <1>1. s \in Seq(Nat) /\ Head(s) \in Nat \ {0}
    OBVIOUS
  <1>2. Carries(s, S, n)
    BY DEF Behind, Count
  <1>3. /\ n + 1 <= Len(S) /\ Head(s) = S[n + 1]
        /\ Carries(Tail(s), S, n + 1)
        /\ Len(Tail(s)) = Len(s) - 1
    BY <1>1, <1>2, CarriesTail
  <1> QED BY <1>1, <1>3 DEF Behind, Holds, Count, Empty, End

\* A goroutine passes its message on.
LEMMA BehindPuts ==
    ASSUME NEW h \in Nat \ {0}, NEW s \in Seq(Nat), NEW S \in Seq(Nat),
           NEW n \in Nat, Behind(h, s, S, n)
    PROVE  /\ n + 1 <= Len(S) /\ h = S[n + 1]
           /\ Behind(Empty, s, S, n + 1)
           /\ End(Empty, s, n + 1) = End(h, s, n)
  BY DEF Behind, Holds, Count, Empty, End

\* A message is put in the channel of a goroutine.
LEMMA BehindGets ==
    ASSUME NEW h \in Nat, NEW s \in Seq(Nat), NEW S \in Seq(Nat), NEW n \in Nat,
           NEW m \in Nat, Behind(h, s, S, n),
           End(h, s, n) + 1 <= Len(S), m = S[End(h, s, n) + 1]
    PROVE  /\ Behind(h, Append(s, m), S, n)
           /\ End(h, Append(s, m), n) = End(h, s, n) + 1
  <1>1. n + Count(h) \in Nat
    BY DEF Count
  <1>2. Carries(s, S, n + Count(h))
    BY DEF Behind
  <1>3. /\ Carries(Append(s, m), S, n + Count(h))
        /\ Len(Append(s, m)) = Len(s) + 1
    BY <1>1, <1>2, CarriesAppend DEF End
  <1> QED BY <1>1, <1>3 DEF Behind, End

\* What is before the end of a channel is in the stream.
LEMMA EndInStream ==
    ASSUME NEW h \in Nat, NEW s \in Seq(Nat), NEW S \in Seq(Nat), NEW n \in Nat,
           Behind(h, s, S, n)
    PROVE  End(h, s, n) \in Nat /\ End(h, s, n) <= Len(S)
  BY DEF Behind, Carries, Count, End

\* A numbered stream.
LEMMA NumbersType ==
    ASSUME NEW n \in Nat
    PROVE  /\ Numbers(n) \in Seq(Nat) /\ Len(Numbers(n)) = n
           /\ \A i \in 1 .. n : Numbers(n)[i] = i
  BY DEF Numbers

\* One more message in it.
LEMMA NumbersLonger ==
    ASSUME NEW n \in Nat, NEW m \in Nat, m = n + 1
    PROVE  Numbers(m) = Append(Numbers(n), m)
  <1>1. /\ Len(Numbers(n)) = n /\ Numbers(n) \in Seq(Nat)
        /\ Len(Numbers(m)) = m /\ Numbers(m) \in Seq(Nat)
        /\ \A i \in 1 .. n : Numbers(n)[i] = i
        /\ \A i \in 1 .. m : Numbers(m)[i] = i
    BY NumbersType
  <1>2. \A i \in 1 .. m : Numbers(m)[i] = Append(Numbers(n), m)[i]
    BY <1>1
  <1>3. Len(Numbers(m)) = Len(Append(Numbers(n), m))
    BY <1>1
  <1> QED BY <1>1, <1>2, <1>3

(***************************************************************************)
(* The inductive invariant of the transport                                *)
(***************************************************************************)

\* From the senders to the peer: W has been written, writeLoop has h in its
\* hands and c before it, bridgeOutgoing i and d; n messages have been accepted.
OutPath(W, h, c, i, d, failed, n) ==
    /\ Carries(W, Numbers(n), 0)
    /\ ~failed /\ h # Exited =>
         /\ Behind(h, c, Numbers(n), Len(W))
         /\ i # Exited => /\ Behind(i, d, Numbers(n), End(h, c, Len(W)))
                          /\ End(i, d, End(h, c, Len(W))) = n

Outbound == OutPath(written, hand["writeLoop"], chan["outgoing"],
                    hand["bridgeOutgoing"], chan["mhOutgoing"], broken, sends)

\* The streams of the three kinds of messages consist of the lines of the kind;
\* and a line on offer has the number of a message.
LinesSorted ==
    /\ \A k \in Kinds :
          /\ \A i \in 1 .. Len(accepted[k]) : /\ accepted[k][i] \in 1 .. Len(lines)
                                              /\ lines[accepted[k][i]] = k
          /\ \A i, j \in 1 .. Len(accepted[k]) :
                 i < j => accepted[k][i] < accepted[k][j]
          /\ \A m \in 1 .. Len(lines) :
                 lines[m] = k => \E i \in 1 .. Len(accepted[k]) : accepted[k][i] = m
    /\ scanner = "offering" => Len(lines) \in Messages

\* From the router, which holds r and has routed R lines, to the application:
\* G has been delivered, c is in the channel before it, the bridge holds h and
\* has d before it.
AppPath(G, c, h, d, S, r, R) ==
    /\ Carries(G, S, 0)
    /\ Carries(c, S, Len(G))
    /\ h # Exited => /\ Behind(h, d, S, Len(G) + Len(c))
                     /\ r # Exited => Cut(S, End(h, d, Len(G) + Len(c)), R)

ToApp(k, b, R) == AppPath(got[k], chan[To[b]], hand[b], chan[From[b]],
                          accepted[k], hand["router"], R)

\* From the router to the correlation of responses.
CallerPath(G, S, r, R) ==
    /\ Carries(G, S, 0)
    /\ r # Exited => Cut(S, Len(G), R)

ToCallers(R) == CallerPath(got["response"], accepted["response"],
                           hand["router"], R)

\* From the reader to the router: n lines have come in, the router holds r and
\* has c before it, bridgeIncoming i and d, readLoop holds l, and sc is the
\* scanner.
LinePath(r, c, i, d, l, sc, n, R) ==
    r # Exited =>
      /\ Behind(r, c, Numbers(n), R)
      /\ i # Exited =>
           /\ Behind(i, d, Numbers(n), End(r, c, R))
           /\ l # Exited =>
                /\ Holds(l, Numbers(n), End(i, d, End(r, c, R)))
                /\ sc = "scanning" => End(i, d, End(r, c, R)) + Count(l) = n
                /\ sc = "offering" => End(i, d, End(r, c, R)) + Count(l) + 1 = n

ToRouter(R) == LinePath(hand["router"], chan["mhIncoming"],
                        hand["bridgeIncoming"], chan["incoming"],
                        hand["readLoop"], scanner, Len(lines), R)

Inbound ==
    \E R \in Nat : /\ ToRouter(R)
                   /\ ToCallers(R)
                   /\ ToApp("request", "bridgeRequests", R)
                   /\ ToApp("notification", "bridgeNotifications", R)

IInv == Inv /\ Outbound /\ LinesSorted /\ Inbound

(***************************************************************************)
(* Types and frames                                                        *)
(***************************************************************************)
AllChannels == HandlerChannels \cup TransportChannels

\* Messages have numbers, which are neither Empty nor Exited.
LEMMA MessageNumbers == Messages \subseteq Nat \ {0}
  BY DEF Messages

LEMMA NumberSequences == \A s : s \in Seq(Messages) => s \in Seq(Nat \ {0}) /\ s \in Seq(Nat)
  <1> SUFFICES ASSUME NEW s \in Seq(Messages)
               PROVE  s \in Seq(Nat \ {0}) /\ s \in Seq(Nat)
    OBVIOUS
  <1>1. Len(s) \in Nat /\ s \in [1 .. Len(s) -> Messages]
    OBVIOUS
  <1>2. s \in [1 .. Len(s) -> Nat \ {0}] /\ s \in [1 .. Len(s) -> Nat]
    BY <1>1, MessageNumbers
  <1> QED BY <1>1, <1>2

\* The types that the lemmas about sections ask for.
LEMMA Typed ==
    ASSUME TypeOK
    PROVE  /\ \A c \in AllChannels : /\ chan[c] \in Seq(Messages)
                                     /\ chan[c] \in Seq(Nat \ {0})
                                     /\ chan[c] \in Seq(Nat)
           /\ \A g \in Goroutines : /\ hand[g] \in Messages \cup {Empty, Exited}
                                    /\ hand[g] \in Hand
                                    /\ hand[g] # Exited => hand[g] \in Nat
                                    /\ hand[g] \notin {Empty, Exited} =>
                                          hand[g] \in Messages /\ hand[g] \in Nat \ {0}
           /\ \A k \in Kinds : accepted[k] \in Seq(Nat) /\ got[k] \in Seq(Nat)
           /\ written \in Seq(Nat)
           /\ Len(lines) \in Nat /\ sends \in Nat
  <1>1. \A c \in AllChannels : chan[c] \in Seq(Messages)
    BY DEF TypeOK, AllChannels
  <1>2. \A k \in Kinds : accepted[k] \in Seq(Messages) /\ got[k] \in Seq(Messages)
    BY DEF TypeOK
  <1>3. \A g \in Goroutines : hand[g] \in Messages \cup {Empty, Exited}
    BY DEF TypeOK
  <1>4. \A g \in Goroutines : /\ hand[g] # Exited => hand[g] \in Nat
                              /\ hand[g] \notin {Empty, Exited} =>
                                    hand[g] \in Messages /\ hand[g] \in Nat \ {0}
    <2> SUFFICES ASSUME NEW g \in Goroutines, hand[g] # Exited
                 PROVE  /\ hand[g] \in Nat
                        /\ hand[g] # Empty => hand[g] \in Messages /\ hand[g] # 0
      OBVIOUS
    <2>1. hand[g] \in Messages \/ hand[g] = Empty
      BY <1>3
    <2>2. CASE hand[g] = Empty
      BY <2>2 DEF Empty
    <2>3. CASE hand[g] \in Messages
      <3>1. hand[g] \in Nat \ {0}
        BY <2>3, MessageNumbers
      <3> QED BY <2>3, <3>1
    <2> QED BY <2>1, <2>2, <2>3
  <1>5. written \in Seq(Messages) /\ Len(lines) \in Nat /\ sends \in Nat
    BY DEF TypeOK
  <1>6. \A g \in Goroutines : hand[g] \in Hand
    BY <1>4 DEF Hand
  <1> QED BY <1>1, <1>2, <1>3, <1>4, <1>5, <1>6, NumberSequences

\* A part stays in order when nothing of it changes, or a goroutine of it exits.
LEMMA OutboundSame ==
    ASSUME Outbound, UNCHANGED <<sends, written, broken>>,
           chan'["outgoing"] = chan["outgoing"],
           chan'["mhOutgoing"] = chan["mhOutgoing"],
           hand'["writeLoop"] \in {hand["writeLoop"], Exited},
           hand'["bridgeOutgoing"] \in {hand["bridgeOutgoing"], Exited}
    PROVE  Outbound'
  BY DEF Outbound, OutPath

LEMMA LinesSortedSame ==
    ASSUME LinesSorted, UNCHANGED <<lines, accepted>>,
           scanner' = "offering" => scanner = "offering"
    PROVE  LinesSorted'
  BY DEF LinesSorted

LEMMA ToAppSame ==
    ASSUME NEW k \in Kinds, NEW b \in Bridges, NEW R \in Nat, ToApp(k, b, R),
           accepted'[k] = accepted[k], got'[k] = got[k],
           chan'[To[b]] = chan[To[b]], chan'[From[b]] = chan[From[b]],
           hand'[b] \in {hand[b], Exited},
           hand'["router"] # Exited => hand["router"] # Exited
    PROVE  ToApp(k, b, R)'
  BY DEF ToApp, AppPath

LEMMA ToCallersSame ==
    ASSUME NEW R \in Nat, ToCallers(R), UNCHANGED <<accepted, got>>,
           hand'["router"] # Exited => hand["router"] # Exited
    PROVE  ToCallers(R)'
  BY DEF ToCallers, CallerPath

LEMMA ToRouterSame ==
    ASSUME NEW R \in Nat, ToRouter(R), UNCHANGED lines,
           scanner' \in {scanner, "ended"},
           chan'["mhIncoming"] = chan["mhIncoming"],
           chan'["incoming"] = chan["incoming"],
           hand'["router"] \in {hand["router"], Exited},
           hand'["bridgeIncoming"] \in {hand["bridgeIncoming"], Exited},
           hand'["readLoop"] \in {hand["readLoop"], Exited}
    PROVE  ToRouter(R)'
  BY DEF ToRouter, LinePath

LEMMA InboundSame ==
    ASSUME Inbound, LinesSorted, UNCHANGED <<lines, accepted, got>>,
           scanner' \in {scanner, "ended"},
           \A c \in AllChannels \ {"outgoing", "mhOutgoing"} : chan'[c] = chan[c],
           \A g \in Goroutines \ {"writeLoop", "bridgeOutgoing"} :
               hand'[g] \in {hand[g], Exited}
    PROVE  Inbound' /\ LinesSorted'
  <1>1. PICK R \in Nat : /\ ToRouter(R)
                         /\ ToCallers(R)
                         /\ ToApp("request", "bridgeRequests", R)
                         /\ ToApp("notification", "bridgeNotifications", R)
    BY DEF Inbound
  <1>2. ToRouter(R)'
    BY <1>1, ToRouterSame
       DEF AllChannels, HandlerChannels, TransportChannels, Goroutines, Waited, Bridges
  <1>3. ToCallers(R)'
    BY <1>1, ToCallersSame DEF Goroutines
  <1>4. \A k \in Kinds, b \in {"bridgeRequests", "bridgeNotifications"} :
            ToApp(k, b, R) => ToApp(k, b, R)'
    BY ToAppSame DEF AllChannels, HandlerChannels, TransportChannels, Goroutines,
                     Waited, Bridges, To, From
  <1>5. /\ ToApp("request", "bridgeRequests", R)'
        /\ ToApp("notification", "bridgeNotifications", R)'
    BY <1>1, <1>4 DEF Kinds
  <1> QED BY <1>2, <1>3, <1>5, LinesSortedSame DEF Inbound

(***************************************************************************)
(* The router's cut                                                        *)
(***************************************************************************)

\* The next line is not of the stream.
LEMMA CutPassed ==
    ASSUME TypeOK, LinesSorted, NEW k \in Kinds, NEW n \in Nat, NEW R \in Nat,
           R + 1 <= Len(lines), lines[R + 1] # k, Cut(accepted[k], n, R)
    PROVE  Cut(accepted[k], n, R + 1)
  <1> SUFFICES ASSUME NEW i \in 1 .. Len(accepted[k])
               PROVE  accepted[k][i] <= R + 1 <=> i <= n
    BY DEF Cut
  <1>1. accepted[k][i] # R + 1 /\ accepted[k][i] \in Nat
    BY Typed DEF LinesSorted
  <1> QED BY <1>1 DEF Cut

\* The next line is of the stream: it is its next message.
LEMMA CutRouted ==
    ASSUME TypeOK, LinesSorted, NEW k \in Kinds, NEW n \in Nat, NEW R \in Nat,
           R + 1 <= Len(lines), lines[R + 1] = k, Cut(accepted[k], n, R),
           n <= Len(accepted[k])
    PROVE  /\ n + 1 <= Len(accepted[k]) /\ accepted[k][n + 1] = R + 1
           /\ Cut(accepted[k], n + 1, R + 1)
  <1> DEFINE S == accepted[k]
  <1>1. /\ S \in Seq(Nat) /\ Len(S) \in Nat
        /\ \A i \in 1 .. Len(S) : S[i] \in Nat
        /\ \A i, j \in 1 .. Len(S) : i < j => S[i] < S[j]
        /\ \A i \in 1 .. Len(S) : S[i] <= R <=> i <= n
    <2>1. S \in Seq(Nat)
      BY Typed
    <2>2. \A i, j \in 1 .. Len(S) : i < j => S[i] < S[j]
      BY DEF LinesSorted
    <2>3. \A i \in 1 .. Len(S) : S[i] <= R <=> i <= n
      BY DEF Cut
    <2> HIDE DEF S
    <2> QED BY <2>1, <2>2, <2>3
  <1>2. PICK j \in 1 .. Len(S) : S[j] = R + 1
    <2>1. R + 1 \in 1 .. Len(lines)
      BY Typed
    <2> QED BY <2>1 DEF LinesSorted
  <1> HIDE DEF S
  <1>3. j > n
    BY <1>1, <1>2
  <1>4. n + 1 \in 1 .. Len(S)
    BY <1>1, <1>2, <1>3
  <1>5. S[n + 1] > R
    BY <1>1, <1>4
  <1>6. j = n + 1
    BY <1>1, <1>2, <1>3, <1>4, <1>5
  <1>7. \A i \in 1 .. Len(S) : S[i] <= R + 1 <=> i <= n + 1
    BY <1>1, <1>2, <1>6
  <1> QED BY <1>2, <1>4, <1>6, <1>7 DEF Cut, S

\* A line that has just come in is beyond any cut.
LEMMA CutLonger ==
    ASSUME NEW S \in Seq(Nat), NEW n \in Nat, NEW R \in Nat, NEW m \in Nat,
           n <= Len(S), R < m, Cut(S, n, R)
    PROVE  Cut(Append(S, m), n, R)
  <1>1. /\ Len(Append(S, m)) = Len(S) + 1
        /\ \A i \in 1 .. Len(S) : Append(S, m)[i] = S[i]
        /\ Append(S, m)[Len(S) + 1] = m
    OBVIOUS
  <1> QED BY <1>1 DEF Cut

(***************************************************************************)
(* The ways, step by step                                                  *)
(***************************************************************************)
\* A bridge to the application takes a message.
LEMMA AppPathTakes ==
    ASSUME NEW G \in Seq(Nat), NEW c \in Seq(Nat), NEW d \in Seq(Nat \ {0}),
           NEW S \in Seq(Nat), NEW r, NEW R \in Nat,
           d # <<>>, AppPath(G, c, Empty, d, S, r, R)
    PROVE  AppPath(G, c, Head(d), Tail(d), S, r, R)
  <1> DEFINE n == Len(G) + Len(c)
  <1>1. n \in Nat
    OBVIOUS
  <1>2. Behind(Empty, d, S, n) /\ (r # Exited => Cut(S, End(Empty, d, n), R))
    BY DEF AppPath, Empty, Exited
  <1> HIDE DEF n
  <1>3. Behind(Head(d), Tail(d), S, n) /\ End(Head(d), Tail(d), n) = End(Empty, d, n)
    BY <1>1, <1>2, BehindTakes
  <1> QED BY <1>2, <1>3 DEF AppPath, n

\* It passes its message on.
LEMMA AppPathPuts ==
    ASSUME NEW G \in Seq(Nat), NEW c \in Seq(Nat), NEW d \in Seq(Nat),
           NEW S \in Seq(Nat), NEW r, NEW R \in Nat,
           NEW h \in Nat \ {0}, AppPath(G, c, h, d, S, r, R)
    PROVE  AppPath(G, Append(c, h), Empty, d, S, r, R)
  <1> DEFINE n == Len(G) + Len(c)
  <1>1. n \in Nat /\ Len(G) \in Nat /\ Len(c) \in Nat /\ h \in Nat
    OBVIOUS
  <1>2. Behind(h, d, S, n) /\ (r # Exited => Cut(S, End(h, d, n), R))
    BY DEF AppPath, Exited
  <1>3. Carries(c, S, Len(G)) /\ Carries(G, S, 0)
    BY DEF AppPath
  <1>4. /\ n + 1 <= Len(S) /\ h = S[n + 1]
        /\ Behind(Empty, d, S, n + 1)
        /\ End(Empty, d, n + 1) = End(h, d, n)
    <2> HIDE DEF n
    <2> QED BY <1>1, <1>2, BehindPuts
  <1>5. Carries(Append(c, h), S, Len(G)) /\ Len(Append(c, h)) = Len(c) + 1
    BY <1>1, <1>3, <1>4, CarriesAppend
  <1>6. Len(G) + Len(Append(c, h)) = n + 1
    BY <1>1, <1>5
  <1> QED BY <1>2, <1>3, <1>4, <1>5, <1>6 DEF AppPath

\* The application receives the next message of the stream.
LEMMA AppPathReceives ==
    ASSUME NEW G \in Seq(Nat), NEW c \in Seq(Nat), NEW h, NEW d,
           NEW S \in Seq(Nat), NEW r, NEW R \in Nat,
           c # <<>>, AppPath(G, c, h, d, S, r, R)
    PROVE  /\ AppPath(Append(G, Head(c)), Tail(c), h, d, S, r, R)
           /\ Len(G) + 1 <= Len(S) /\ Head(c) = S[Len(G) + 1]
  <1>1. /\ Len(G) \in Nat /\ Len(c) \in Nat /\ Head(c) \in Nat
        /\ Carries(G, S, 0) /\ Carries(c, S, Len(G))
    BY DEF AppPath
  <1>2. /\ Len(G) + 1 <= Len(S) /\ Head(c) = S[Len(G) + 1]
        /\ Carries(Tail(c), S, Len(G) + 1)
        /\ Len(Tail(c)) = Len(c) - 1
    BY <1>1, CarriesTail
  <1>3. Carries(Append(G, Head(c)), S, 0) /\ Len(Append(G, Head(c))) = Len(G) + 1
    BY <1>1, <1>2, CarriesAppend
  <1>4. Len(Append(G, Head(c))) + Len(Tail(c)) = Len(G) + Len(c)
    BY <1>1, <1>2, <1>3
  <1> QED BY <1>1, <1>2, <1>3, <1>4 DEF AppPath

\* The router puts the next line in the channel: it is of the stream.
LEMMA AppPathGets ==
    ASSUME NEW G \in Seq(Nat), NEW c \in Seq(Nat), NEW h \in Hand, NEW d \in Seq(Nat),
           NEW S \in Seq(Nat), NEW r, NEW R \in Nat, r # Exited,
           AppPath(G, c, h, d, S, r, R),
           \A n \in Nat : Cut(S, n, R) /\ n <= Len(S) =>
               n + 1 <= Len(S) /\ S[n + 1] = R + 1 /\ Cut(S, n + 1, R + 1)
    PROVE  \A m : AppPath(G, c, h, Append(d, R + 1), S, m, R + 1)
  <1> DEFINE n == Len(G) + Len(c)
  <1>1. n \in Nat
    OBVIOUS
  <1>2. CASE h = Exited
    BY <1>2 DEF AppPath
  <1>3. CASE h # Exited
    <2>1. h \in Nat
      BY <1>3 DEF Hand
    <2>2. Behind(h, d, S, n) /\ Cut(S, End(h, d, n), R)
      BY <1>3 DEF AppPath
    <2> HIDE DEF n
    <2>3. End(h, d, n) \in Nat /\ End(h, d, n) <= Len(S)
      BY <1>1, <2>1, <2>2, EndInStream
    <2>4. /\ End(h, d, n) + 1 <= Len(S) /\ S[End(h, d, n) + 1] = R + 1
          /\ Cut(S, End(h, d, n) + 1, R + 1)
      BY <2>2, <2>3
    <2>5. /\ Behind(h, Append(d, R + 1), S, n)
          /\ End(h, Append(d, R + 1), n) = End(h, d, n) + 1
      BY <1>1, <2>1, <2>2, <2>4, BehindGets
    <2> QED BY <2>4, <2>5 DEF AppPath, n
  <1> QED BY <1>2, <1>3

\* The router has taken the next line elsewhere: it is not of the stream.
LEMMA AppPathPassed ==
    ASSUME NEW G \in Seq(Nat), NEW c \in Seq(Nat), NEW h \in Hand, NEW d \in Seq(Nat),
           NEW S \in Seq(Nat), NEW r, NEW R \in Nat, r # Exited,
           AppPath(G, c, h, d, S, r, R),
           \A n \in Nat : Cut(S, n, R) => Cut(S, n, R + 1)
    PROVE  \A m : AppPath(G, c, h, d, S, m, R + 1)
  <1> DEFINE n == Len(G) + Len(c)
  <1>1. h # Exited => End(h, d, n) \in Nat
    BY DEF Hand, End, Count
  <1> QED BY <1>1 DEF AppPath

\* A line comes in at the end of the stream.
LEMMA AppPathLonger ==
    ASSUME NEW G \in Seq(Nat), NEW c \in Seq(Nat), NEW h \in Hand, NEW d \in Seq(Nat),
           NEW S \in Seq(Nat), NEW r, NEW R \in Nat, NEW m \in Nat,
           AppPath(G, c, h, d, S, r, R), r # Exited => R < m
    PROVE  AppPath(G, c, h, d, Append(S, m), r, R)
  <1> DEFINE n == Len(G) + Len(c)
  <1>1. n \in Nat /\ Len(G) \in Nat
    OBVIOUS
  <1>2. Carries(G, Append(S, m), 0) /\ Carries(c, Append(S, m), Len(G))
    BY <1>1, CarriesLonger DEF AppPath
  <1>3. ASSUME h # Exited
        PROVE  /\ Behind(h, d, Append(S, m), n)
               /\ r # Exited => Cut(Append(S, m), End(h, d, n), R)
    <2>1. h \in Nat
      BY <1>3 DEF Hand
    <2>2. Behind(h, d, S, n) /\ (r # Exited => Cut(S, End(h, d, n), R))
      BY <1>3 DEF AppPath
    <2> HIDE DEF n
    <2>3. End(h, d, n) \in Nat /\ End(h, d, n) <= Len(S)
      BY <1>1, <2>1, <2>2, EndInStream
    <2>4. Behind(h, d, Append(S, m), n)
      BY <1>1, <2>1, <2>2, BehindLonger
    <2>5. r # Exited => Cut(Append(S, m), End(h, d, n), R)
      BY <2>2, <2>3, CutLonger
    <2> QED BY <2>4, <2>5
  <1> QED BY <1>2, <1>3 DEF AppPath

\* The same for the responses, which have no bridge.
LEMMA CallerPathGets ==
    ASSUME NEW G \in Seq(Nat), NEW S \in Seq(Nat), NEW r, NEW R \in Nat, r # Exited,
           CallerPath(G, S, r, R),
           \A n \in Nat : Cut(S, n, R) /\ n <= Len(S) =>
               n + 1 <= Len(S) /\ S[n + 1] = R + 1 /\ Cut(S, n + 1, R + 1)
    PROVE  /\ \A m : CallerPath(Append(G, R + 1), S, m, R + 1)
           /\ Len(G) + 1 <= Len(S) /\ R + 1 = S[Len(G) + 1]
  <1>1. Len(G) \in Nat /\ Len(G) <= Len(S) /\ Carries(G, S, 0)
    BY DEF CallerPath, Carries
  <1>2. /\ Len(G) + 1 <= Len(S) /\ S[Len(G) + 1] = R + 1
        /\ Cut(S, Len(G) + 1, R + 1)
    BY <1>1 DEF CallerPath
  <1>3. Carries(Append(G, R + 1), S, 0) /\ Len(Append(G, R + 1)) = Len(G) + 1
    BY <1>1, <1>2, CarriesAppend
  <1> QED BY <1>2, <1>3 DEF CallerPath

LEMMA CallerPathPassed ==
    ASSUME NEW G \in Seq(Nat), NEW S \in Seq(Nat), NEW r, NEW R \in Nat, r # Exited,
           CallerPath(G, S, r, R),
           \A n \in Nat : Cut(S, n, R) => Cut(S, n, R + 1)
    PROVE  \A m : CallerPath(G, S, m, R + 1)
  BY DEF CallerPath

LEMMA CallerPathLonger ==
    ASSUME NEW G \in Seq(Nat), NEW S \in Seq(Nat), NEW r, NEW R \in Nat, NEW m \in Nat,
           CallerPath(G, S, r, R), r # Exited => R < m
    PROVE  CallerPath(G, Append(S, m), r, R)
  <1>1. Len(G) \in Nat /\ Len(G) <= Len(S) /\ Carries(G, S, 0)
    BY DEF CallerPath, Carries
  <1>2. Carries(G, Append(S, m), 0)
    BY <1>1, CarriesLonger
  <1>3. r # Exited => Cut(Append(S, m), Len(G), R)
    BY <1>1, CutLonger DEF CallerPath
  <1> QED BY <1>2, <1>3 DEF CallerPath

\* The router takes a line.
LEMMA LinePathRouterTakes ==
    ASSUME NEW c \in Seq(Nat \ {0}), NEW i, NEW d, NEW l, NEW sc, NEW n \in Nat,
           NEW R \in Nat, c # <<>>, LinePath(Empty, c, i, d, l, sc, n, R)
    PROVE  LinePath(Head(c), Tail(c), i, d, l, sc, n, R)
  <1>1. Numbers(n) \in Seq(Nat) /\ Empty # Exited
    BY NumbersType DEF Empty, Exited
  <1>2. Behind(Empty, c, Numbers(n), R)
    BY <1>1 DEF LinePath
  <1>3. /\ Behind(Head(c), Tail(c), Numbers(n), R)
        /\ End(Head(c), Tail(c), R) = End(Empty, c, R)
    BY <1>1, <1>2, BehindTakes
  <1> QED BY <1>1, <1>3 DEF LinePath

\* The router has routed its line.
LEMMA LinePathRouted ==
    ASSUME NEW r \in Nat \ {0}, NEW c \in Seq(Nat), NEW i, NEW d, NEW l, NEW sc,
           NEW n \in Nat, NEW R \in Nat, LinePath(r, c, i, d, l, sc, n, R)
    PROVE  /\ R + 1 <= n /\ r = R + 1
           /\ LinePath(Empty, c, i, d, l, sc, n, R + 1)
  <1>1. /\ Numbers(n) \in Seq(Nat) /\ Len(Numbers(n)) = n
        /\ \A j \in 1 .. n : Numbers(n)[j] = j
    BY NumbersType
  <1>2. r # Exited
    BY DEF Exited
  <1>3. Behind(r, c, Numbers(n), R)
    BY <1>2 DEF LinePath
  <1>4. /\ R + 1 <= Len(Numbers(n)) /\ r = Numbers(n)[R + 1]
        /\ Behind(Empty, c, Numbers(n), R + 1)
        /\ End(Empty, c, R + 1) = End(r, c, R)
    BY <1>1, <1>3, BehindPuts
  <1>5. R + 1 \in 1 .. n
    BY <1>1, <1>4
  <1> QED BY <1>1, <1>2, <1>4, <1>5 DEF LinePath

\* bridgeIncoming takes a line, and puts it before the router.
LEMMA LinePathBridgeTakes ==
    ASSUME NEW r \in Hand, NEW c \in Seq(Nat), NEW d \in Seq(Nat \ {0}), NEW l,
           NEW sc, NEW n \in Nat, NEW R \in Nat,
           d # <<>>, LinePath(r, c, Empty, d, l, sc, n, R)
    PROVE  LinePath(r, c, Head(d), Tail(d), l, sc, n, R)
  <1> SUFFICES ASSUME r # Exited
               PROVE  LinePath(r, c, Head(d), Tail(d), l, sc, n, R)
    BY DEF LinePath
  <1> DEFINE e == End(r, c, R)
  <1>1. Numbers(n) \in Seq(Nat) /\ Empty # Exited /\ r \in Nat
    BY NumbersType DEF Empty, Exited, Hand
  <1>2. Behind(r, c, Numbers(n), R) /\ Behind(Empty, d, Numbers(n), e)
    BY <1>1 DEF LinePath
  <1>3. e \in Nat
    BY <1>1, <1>2, EndInStream
  <1> HIDE DEF e
  <1>4. /\ Behind(Head(d), Tail(d), Numbers(n), e)
        /\ End(Head(d), Tail(d), e) = End(Empty, d, e)
    BY <1>1, <1>2, <1>3, BehindTakes
  <1> QED BY <1>1, <1>4 DEF LinePath, e

LEMMA LinePathBridgePuts ==
    ASSUME NEW r \in Hand, NEW c \in Seq(Nat), NEW i \in Nat \ {0}, NEW d \in Seq(Nat),
           NEW l, NEW sc, NEW n \in Nat, NEW R \in Nat,
           LinePath(r, c, i, d, l, sc, n, R)
    PROVE  LinePath(r, Append(c, i), Empty, d, l, sc, n, R)
  <1> SUFFICES ASSUME r # Exited
               PROVE  LinePath(r, Append(c, i), Empty, d, l, sc, n, R)
    BY DEF LinePath
  <1> DEFINE e == End(r, c, R)
  <1>1. Numbers(n) \in Seq(Nat) /\ i # Exited /\ r \in Nat /\ i \in Nat
    BY NumbersType DEF Exited, Hand
  <1>2. Behind(r, c, Numbers(n), R) /\ Behind(i, d, Numbers(n), e)
    BY <1>1 DEF LinePath
  <1>3. e \in Nat
    BY <1>1, <1>2, EndInStream
  <1> HIDE DEF e
  <1>4. /\ e + 1 <= Len(Numbers(n)) /\ i = Numbers(n)[e + 1]
        /\ Behind(Empty, d, Numbers(n), e + 1)
        /\ End(Empty, d, e + 1) = End(i, d, e)
    BY <1>1, <1>2, <1>3, BehindPuts
  <1>5. Behind(r, Append(c, i), Numbers(n), R) /\ End(r, Append(c, i), R) = e + 1
    BY <1>1, <1>2, <1>4, BehindGets DEF e
  <1> QED BY <1>1, <1>4, <1>5 DEF LinePath, e

\* readLoop takes the line that is offered, and puts it before bridgeIncoming.
LEMMA LinePathReadLoopTakes ==
    ASSUME NEW r \in Hand, NEW c \in Seq(Nat), NEW i \in Hand, NEW d \in Seq(Nat),
           NEW n \in Nat, NEW R \in Nat,
           LinePath(r, c, i, d, Empty, "offering", n, R)
    PROVE  LinePath(r, c, i, d, n, "scanning", n, R)
  <1> SUFFICES ASSUME r # Exited, i # Exited
               PROVE  LinePath(r, c, i, d, n, "scanning", n, R)
    BY DEF LinePath
  <1> DEFINE f == End(i, d, End(r, c, R))
  <1>1. /\ \A j \in 1 .. n : Numbers(n)[j] = j
        /\ Numbers(n) \in Seq(Nat) /\ Len(Numbers(n)) = n
        /\ Empty # Exited /\ r \in Nat /\ i \in Nat
    BY NumbersType DEF Empty, Exited, Hand
  <1>2. /\ Behind(r, c, Numbers(n), R) /\ Behind(i, d, Numbers(n), End(r, c, R))
        /\ f + Count(Empty) + 1 = n
    BY <1>1 DEF LinePath
  <1>3. End(r, c, R) \in Nat
    BY <1>1, <1>2, EndInStream
  <1>4. f \in Nat
    BY <1>1, <1>2, <1>3, EndInStream
  <1> HIDE DEF f
  <1>5. f + 1 = n
    BY <1>2, <1>4 DEF Count
  <1>6. n # Empty
    BY <1>4, <1>5 DEF Empty
  <1>7. Holds(n, Numbers(n), f) /\ f + Count(n) = n
    BY <1>1, <1>4, <1>5, <1>6 DEF Holds, Count
  <1> QED BY <1>2, <1>7 DEF LinePath, f

LEMMA LinePathReadLoopPuts ==
    ASSUME NEW r \in Hand, NEW c \in Seq(Nat), NEW i \in Hand, NEW d \in Seq(Nat),
           NEW l \in Nat \ {0}, NEW sc, NEW n \in Nat, NEW R \in Nat,
           LinePath(r, c, i, d, l, sc, n, R)
    PROVE  LinePath(r, c, i, Append(d, l), Empty, sc, n, R)
  <1> SUFFICES ASSUME r # Exited, i # Exited
               PROVE  LinePath(r, c, i, Append(d, l), Empty, sc, n, R)
    BY DEF LinePath
  <1> DEFINE e == End(r, c, R)
             f == End(i, d, e)
  <1>1. /\ Numbers(n) \in Seq(Nat) /\ l # Exited /\ l # Empty
        /\ l \in Nat /\ r \in Nat /\ i \in Nat
    BY NumbersType DEF Empty, Exited, Hand
  <1>2. /\ Behind(r, c, Numbers(n), R) /\ Behind(i, d, Numbers(n), e)
        /\ f + 1 <= Len(Numbers(n)) /\ l = Numbers(n)[f + 1]
        /\ sc = "scanning" => f + Count(l) = n
        /\ sc = "offering" => f + Count(l) + 1 = n
    BY <1>1 DEF LinePath, Holds
  <1>3. e \in Nat
    BY <1>1, <1>2, EndInStream
  <1> HIDE DEF e
  <1>4. f \in Nat
    BY <1>1, <1>2, <1>3, EndInStream
  <1>5. Behind(i, Append(d, l), Numbers(n), e) /\ End(i, Append(d, l), e) = f + 1
    BY <1>1, <1>2, <1>3, BehindGets
  <1> HIDE DEF f
  <1>6. f + Count(l) = f + 1 + Count(Empty)
    BY <1>1, <1>4 DEF Count
  <1>7. /\ Holds(Empty, Numbers(n), f + 1)
        /\ sc = "scanning" => f + 1 + Count(Empty) = n
        /\ sc = "offering" => f + 1 + Count(Empty) + 1 = n
    BY <1>2, <1>6 DEF Holds
  <1> QED BY <1>2, <1>5, <1>7 DEF LinePath, e

\* The scanner finds a line, to offer it or to fail on it.
LEMMA LinePathLonger ==
    ASSUME NEW r \in Hand, NEW c \in Seq(Nat), NEW i \in Hand, NEW d \in Seq(Nat),
           NEW l \in Hand, NEW n \in Nat, NEW R \in Nat,
           LinePath(r, c, i, d, l, "scanning", n, R)
    PROVE  /\ \A sc \in {"offering", "failed"} :
                  LinePath(r, c, i, d, l, sc, n + 1, R)
           /\ r # Exited => R < n + 1
  <1> SUFFICES ASSUME r # Exited
               PROVE  /\ \A sc \in {"offering", "failed"} :
                             LinePath(r, c, i, d, l, sc, n + 1, R)
                      /\ R < n + 1
    BY DEF LinePath
  <1> DEFINE e == End(r, c, R)
             f == End(i, d, e)
  <1>1. /\ Numbers(n) \in Seq(Nat) /\ Len(Numbers(n)) = n
        /\ Numbers(n + 1) = Append(Numbers(n), n + 1)
        /\ r \in Nat
    <2>1. Numbers(n) \in Seq(Nat) /\ Len(Numbers(n)) = n
      BY NumbersType
    <2>2. n + 1 \in Nat
      OBVIOUS
    <2>3. Numbers(n + 1) = Append(Numbers(n), n + 1)
      BY <2>2, NumbersLonger
    <2>4. r \in Nat
      BY DEF Hand
    <2> QED BY <2>1, <2>3, <2>4
  <1>2. Behind(r, c, Numbers(n), R)
    BY DEF LinePath
  <1>3. e \in Nat /\ e <= n
    BY <1>1, <1>2, EndInStream
  <1>4. R <= n
    BY <1>1, <1>2 DEF Behind, Carries, Count
  <1>5. Behind(r, c, Numbers(n + 1), R)
    <2>1. n + 1 \in Nat
      OBVIOUS
    <2>2. Behind(r, c, Append(Numbers(n), n + 1), R)
      BY <1>1, <1>2, <2>1, BehindLonger
    <2> QED BY <1>1, <2>2
  <1> HIDE DEF e
  <1>6. ASSUME i # Exited
        PROVE  /\ Behind(i, d, Numbers(n + 1), e)
               /\ l # Exited => Holds(l, Numbers(n + 1), f) /\ f + Count(l) + 1 = n + 1
    <2>1. /\ i \in Nat /\ Behind(i, d, Numbers(n), e)
          /\ l # Exited => Holds(l, Numbers(n), f) /\ f + Count(l) = n
      BY <1>6 DEF LinePath, Hand, e
    <2>2. Behind(i, d, Numbers(n + 1), e)
      <3>1. n + 1 \in Nat
        OBVIOUS
      <3>2. Behind(i, d, Append(Numbers(n), n + 1), e)
        BY <1>1, <1>3, <2>1, <3>1, BehindLonger
      <3> QED BY <1>1, <3>2
    <2>3. f \in Nat
      BY <1>1, <1>3, <2>1, EndInStream
    <2> HIDE DEF f
    <2>4. ASSUME l # Exited
          PROVE  Holds(l, Numbers(n + 1), f)
      <3>1. /\ Len(Append(Numbers(n), n + 1)) = n + 1
            /\ \A j \in 1 .. n : Append(Numbers(n), n + 1)[j] = Numbers(n)[j]
        BY <1>1
      <3>2. ASSUME l # Empty
            PROVE  f + 1 \in 1 .. n /\ l = Numbers(n)[f + 1]
        BY <1>1, <2>1, <2>3, <2>4, <3>2 DEF Holds
      <3> QED BY <1>1, <3>1, <3>2 DEF Holds
    <2> QED BY <2>1, <2>2, <2>3, <2>4
  <1> QED BY <1>4, <1>5, <1>6 DEF LinePath, e

\* writeLoop takes a message, and writes it.
LEMMA OutPathWriteLoopTakes ==
    ASSUME NEW W \in Seq(Nat), NEW c \in Seq(Nat \ {0}), NEW i, NEW d, NEW failed,
           NEW n \in Nat, c # <<>>, OutPath(W, Empty, c, i, d, failed, n)
    PROVE  OutPath(W, Head(c), Tail(c), i, d, failed, n)
  <1> SUFFICES ASSUME ~failed
               PROVE  OutPath(W, Head(c), Tail(c), i, d, failed, n)
    BY DEF OutPath
  <1>1. Numbers(n) \in Seq(Nat) /\ Empty # Exited /\ Len(W) \in Nat
    BY NumbersType DEF Empty, Exited
  <1>2. Behind(Empty, c, Numbers(n), Len(W))
    BY <1>1 DEF OutPath
  <1>3. /\ Behind(Head(c), Tail(c), Numbers(n), Len(W))
        /\ End(Head(c), Tail(c), Len(W)) = End(Empty, c, Len(W))
    BY <1>1, <1>2, BehindTakes
  <1> QED BY <1>1, <1>3 DEF OutPath

LEMMA OutPathWrites ==
    ASSUME NEW W \in Seq(Nat), NEW h \in Nat \ {0}, NEW c \in Seq(Nat), NEW i, NEW d,
           NEW failed, NEW n \in Nat, ~failed, OutPath(W, h, c, i, d, failed, n)
    PROVE  /\ OutPath(Append(W, h), Empty, c, i, d, failed, n)
           /\ Len(W) + 1 <= n /\ h = Numbers(n)[Len(W) + 1]
  <1>1. /\ Numbers(n) \in Seq(Nat) /\ Len(Numbers(n)) = n
        /\ h # Exited /\ Len(W) \in Nat /\ h \in Nat
    <2>1. h # Exited
      BY DEF Exited
    <2> QED BY <2>1, NumbersType
  <1>2. Behind(h, c, Numbers(n), Len(W)) /\ Carries(W, Numbers(n), 0)
    BY <1>1 DEF OutPath
  <1>3. /\ Len(W) + 1 <= n /\ h = Numbers(n)[Len(W) + 1]
        /\ Behind(Empty, c, Numbers(n), Len(W) + 1)
        /\ End(Empty, c, Len(W) + 1) = End(h, c, Len(W))
    BY <1>1, <1>2, BehindPuts
  <1>4. /\ Carries(Append(W, h), Numbers(n), 0)
        /\ Len(Append(W, h)) = Len(W) + 1
    BY <1>1, <1>2, <1>3, CarriesAppend
  <1> QED BY <1>1, <1>3, <1>4 DEF OutPath

\* bridgeOutgoing takes a message, and puts it before writeLoop.
LEMMA OutPathBridgeTakes ==
    ASSUME NEW W \in Seq(Nat), NEW h \in Hand, NEW c \in Seq(Nat),
           NEW d \in Seq(Nat \ {0}), NEW failed, NEW n \in Nat, d # <<>>,
           OutPath(W, h, c, Empty, d, failed, n)
    PROVE  OutPath(W, h, c, Head(d), Tail(d), failed, n)
  <1> SUFFICES ASSUME ~failed, h # Exited
               PROVE  OutPath(W, h, c, Head(d), Tail(d), failed, n)
    BY DEF OutPath
  <1> DEFINE e == End(h, c, Len(W))
  <1>1. Numbers(n) \in Seq(Nat) /\ Empty # Exited /\ Len(W) \in Nat /\ h \in Nat
    BY NumbersType DEF Empty, Exited, Hand
  <1>2. Behind(h, c, Numbers(n), Len(W)) /\ Behind(Empty, d, Numbers(n), e)
    BY <1>1 DEF OutPath
  <1>3. e \in Nat
    BY <1>1, <1>2, EndInStream
  <1> HIDE DEF e
  <1>4. /\ Behind(Head(d), Tail(d), Numbers(n), e)
        /\ End(Head(d), Tail(d), e) = End(Empty, d, e)
    BY <1>1, <1>2, <1>3, BehindTakes
  <1> QED BY <1>1, <1>4 DEF OutPath, e

LEMMA OutPathBridgePuts ==
    ASSUME NEW W \in Seq(Nat), NEW h \in Hand, NEW c \in Seq(Nat), NEW i \in Nat \ {0},
           NEW d \in Seq(Nat), NEW failed, NEW n \in Nat,
           OutPath(W, h, c, i, d, failed, n)
    PROVE  OutPath(W, h, Append(c, i), Empty, d, failed, n)
  <1> SUFFICES ASSUME ~failed, h # Exited
               PROVE  OutPath(W, h, Append(c, i), Empty, d, failed, n)
    BY DEF OutPath
  <1> DEFINE e == End(h, c, Len(W))
  <1>1. /\ Numbers(n) \in Seq(Nat) /\ i # Exited /\ Len(W) \in Nat
        /\ h \in Nat /\ i \in Nat
    <2>1. i # Exited /\ h \in Nat
      BY DEF Exited, Hand
    <2> QED BY <2>1, NumbersType
  <1>2. Behind(h, c, Numbers(n), Len(W)) /\ Behind(i, d, Numbers(n), e)
    BY <1>1 DEF OutPath
  <1>3. e \in Nat
    BY <1>1, <1>2, EndInStream
  <1> HIDE DEF e
  <1>4. /\ e + 1 <= Len(Numbers(n)) /\ i = Numbers(n)[e + 1]
        /\ Behind(Empty, d, Numbers(n), e + 1)
        /\ End(Empty, d, e + 1) = End(i, d, e)
    BY <1>1, <1>2, <1>3, BehindPuts
  <1>5. /\ Behind(h, Append(c, i), Numbers(n), Len(W))
        /\ End(h, Append(c, i), Len(W)) = e + 1
    BY <1>1, <1>2, <1>4, BehindGets DEF e
  <1> QED BY <1>1, <1>4, <1>5 DEF OutPath, e

\* The message that is accepted next is put at the end of the first channel.
LEMMA BehindGetsNext ==
    ASSUME NEW h \in Nat, NEW s \in Seq(Nat), NEW n \in Nat, NEW e \in Nat,
           Behind(h, s, Numbers(n), e), End(h, s, e) = n
    PROVE  /\ Behind(h, Append(s, n + 1), Numbers(n + 1), e)
           /\ End(h, Append(s, n + 1), e) = n + 1
  <1>1. PICK m \in Nat : m = n + 1
    OBVIOUS
  <1>2. PICK S \in Seq(Nat) : S = Numbers(m)
    BY NumbersType
  <1>3. Len(S) = m /\ S[m] = m
    BY <1>1, <1>2, NumbersType
  <1>4. Behind(h, s, S, e)
    <2>1. S = Append(Numbers(n), m) /\ Numbers(n) \in Seq(Nat)
      BY <1>1, <1>2, NumbersLonger, NumbersType
    <2> QED BY <2>1, BehindLonger
  <1>5. End(h, s, e) + 1 <= Len(S) /\ m = S[End(h, s, e) + 1]
    BY <1>1, <1>3
  <1>6. /\ Behind(h, Append(s, m), S, e)
        /\ End(h, Append(s, m), e) = End(h, s, e) + 1
    BY <1>4, <1>5, BehindGets
  <1> QED BY <1>1, <1>2, <1>6

\* A message is accepted.
LEMMA OutPathAccepts ==
    ASSUME NEW W \in Seq(Nat), NEW h \in Hand, NEW c \in Seq(Nat), NEW i \in Hand,
           NEW d \in Seq(Nat), NEW failed, NEW n \in Nat,
           OutPath(W, h, c, i, d, failed, n)
    PROVE  OutPath(W, h, c, i, Append(d, n + 1), failed, n + 1)
  <1> DEFINE e == End(h, c, Len(W))
             S == Append(Numbers(n), n + 1)
  <1>1. /\ Numbers(n) \in Seq(Nat) /\ Len(Numbers(n)) = n
        /\ Numbers(n + 1) = S
        /\ Len(W) \in Nat /\ n + 1 \in Nat
    <2>1. Len(W) \in Nat /\ n + 1 \in Nat
      OBVIOUS
    <2> QED BY <2>1, NumbersType, NumbersLonger
  <1>2. S \in Seq(Nat) /\ Len(S) = n + 1 /\ S[n + 1] = n + 1
    BY <1>1
  <1>3. Carries(W, S, 0)
    BY <1>1, CarriesLonger DEF OutPath
  <1>4. ASSUME ~failed, h # Exited
        PROVE  /\ Behind(h, c, S, Len(W))
               /\ i # Exited => /\ Behind(i, Append(d, n + 1), S, e)
                                /\ End(i, Append(d, n + 1), e) = n + 1
    <2>1. /\ h \in Nat /\ Behind(h, c, Numbers(n), Len(W))
          /\ i # Exited => Behind(i, d, Numbers(n), e) /\ End(i, d, e) = n
      BY <1>4 DEF OutPath, Hand
    <2>2. e \in Nat
      BY <1>1, <2>1, EndInStream
    <2>3. Behind(h, c, S, Len(W))
      BY <1>1, <2>1, BehindLonger
    <2> HIDE DEF e
    <2>4. ASSUME i # Exited
          PROVE  /\ Behind(i, Append(d, n + 1), S, e)
                 /\ End(i, Append(d, n + 1), e) = n + 1
      <3>1. i \in Nat
        BY <2>4 DEF Hand
      <3> HIDE DEF S
      <3> QED BY <1>1, <2>1, <2>2, <2>4, <3>1, BehindGetsNext
    <2> QED BY <2>3, <2>4
  <1> QED BY <1>1, <1>3, <1>4 DEF OutPath

(***************************************************************************)
(* What takes and puts do                                                  *)
(***************************************************************************)
AppBridges == {"bridgeRequests", "bridgeNotifications"}

\* Where the bridges take from and put to.
LEMMA AppBridgeEnds ==
    ASSUME NEW b \in AppBridges
    PROVE  /\ b \in Bridges /\ b \in Goroutines /\ b # "router"
           /\ From[b] \in AllChannels /\ To[b] \in AllChannels
           /\ From[b] # To[b]
  BY DEF AppBridges, Bridges, Goroutines, Waited, From, To, AllChannels,
         HandlerChannels, TransportChannels

\* What a goroutine that takes or puts changes.
LEMMA TakesEffect ==
    ASSUME TypeOK, NEW g \in Goroutines, From[g] \in AllChannels, Takes(g)
    PROVE  /\ hand[g] = Empty /\ chan[From[g]] # <<>>
           /\ hand'[g] = Head(chan[From[g]])
           /\ hand'[g] \in Messages
           /\ chan'[From[g]] = Tail(chan[From[g]])
           /\ \A h \in Goroutines \ {g} : hand'[h] = hand[h]
           /\ \A c \in AllChannels \ {From[g]} : chan'[c] = chan[c]
           /\ hand' \in [Goroutines -> Messages \cup {Empty, Exited}]
           /\ chan' \in [AllChannels -> Seq(Messages)]
           /\ \A c \in AllChannels : Len(chan'[c]) <= MessageBuffer
  <1>1. /\ chan \in [AllChannels -> Seq(Messages)]
        /\ hand \in [Goroutines -> Messages \cup {Empty, Exited}]
        /\ \A c \in AllChannels : Len(chan[c]) <= MessageBuffer
        /\ hand[g] = Empty /\ chan[From[g]] # <<>>
        /\ hand' = [hand EXCEPT ![g] = Head(chan[From[g]])]
        /\ chan' = [chan EXCEPT ![From[g]] = Tail(@)]
    BY DEF TypeOK, AllChannels, Takes
  <1>2. /\ Head(chan[From[g]]) \in Messages
        /\ Tail(chan[From[g]]) \in Seq(Messages)
        /\ Len(Tail(chan[From[g]])) <= Len(chan[From[g]])
    BY <1>1
  <1>3. Len(Tail(chan[From[g]])) <= MessageBuffer
    BY <1>1, <1>2, ConstantsAssumption
  <1>4. chan' \in [AllChannels -> Seq(Messages)]
    BY <1>1, <1>2
  <1> QED BY <1>1, <1>2, <1>3, <1>4

LEMMA PutsEffect ==
    ASSUME TypeOK, NEW g \in Goroutines, NEW c \in AllChannels, Puts(g, c)
    PROVE  /\ hand[g] \in Messages /\ hand[g] \in Nat \ {0}
           /\ hand[g] # Exited /\ hand[g] # Empty
           /\ hand'[g] = Empty
           /\ chan'[c] = Append(chan[c], hand[g])
           /\ \A h \in Goroutines \ {g} : hand'[h] = hand[h]
           /\ \A d \in AllChannels \ {c} : chan'[d] = chan[d]
           /\ hand' \in [Goroutines -> Messages \cup {Empty, Exited}]
           /\ chan' \in [AllChannels -> Seq(Messages)]
           /\ \A d \in AllChannels : Len(chan'[d]) <= MessageBuffer
  <1>1. /\ chan \in [AllChannels -> Seq(Messages)]
        /\ hand \in [Goroutines -> Messages \cup {Empty, Exited}]
        /\ \A d \in AllChannels : Len(chan[d]) <= MessageBuffer
        /\ hand[g] \notin {Empty, Exited}
        /\ Len(chan[c]) < MessageBuffer
        /\ hand' = [hand EXCEPT ![g] = Empty]
        /\ chan' = [chan EXCEPT ![c] = Append(@, hand[g])]
    BY DEF TypeOK, AllChannels, Puts
  <1>2. hand[g] \in Messages /\ hand[g] \in Nat \ {0}
    BY <1>1, MessageNumbers
  <1>3. /\ Append(chan[c], hand[g]) \in Seq(Messages)
        /\ Len(Append(chan[c], hand[g])) = Len(chan[c]) + 1
    BY <1>1, <1>2
  <1>4. Len(Append(chan[c], hand[g])) <= MessageBuffer
    BY <1>1, <1>3, ConstantsAssumption
  <1>5. chan' \in [AllChannels -> Seq(Messages)]
    BY <1>1, <1>3
  <1> QED BY <1>1, <1>2, <1>3, <1>4, <1>5

\* The goroutines and channels by their names.
LEMMA Names ==
    /\ Goroutines = {"bridgeIncoming", "bridgeOutgoing", "bridgeRequests",
                     "bridgeNotifications", "readLoop", "writeLoop", "router"}
    /\ AllChannels = {"mhIncoming", "mhOutgoing", "mhRequests", "mhNotifications",
                      "incoming", "outgoing", "requests", "notifications"}
    /\ Empty # Exited
  BY DEF Goroutines, Waited, Bridges, AllChannels, HandlerChannels,
         TransportChannels, Empty, Exited

LEMMA Ways ==
    /\ From["bridgeIncoming"] = "incoming" /\ To["bridgeIncoming"] = "mhIncoming"
    /\ From["bridgeOutgoing"] = "mhOutgoing" /\ To["bridgeOutgoing"] = "outgoing"
    /\ From["bridgeRequests"] = "mhRequests" /\ To["bridgeRequests"] = "requests"
    /\ From["bridgeNotifications"] = "mhNotifications"
    /\ To["bridgeNotifications"] = "notifications"
    /\ From["router"] = "mhIncoming" /\ From["writeLoop"] = "outgoing"
    /\ To["readLoop"] = "incoming"
  BY DEF From, To

\* The type invariant and the safety of Close survive a move of messages: no
\* goroutine that has exited comes back.
LEMMA MoveKeepsInv ==
    ASSUME Inv,
           UNCHANGED <<lines, sends, accepted, broken, ctxDone, closer>>,
           hand' \in [Goroutines -> Messages \cup {Empty, Exited}],
           chan' \in [AllChannels -> Seq(Messages)],
           \A c \in AllChannels : Len(chan'[c]) <= MessageBuffer,
           scanner' \in {"scanning", "offering", "failed", "ended"},
           got' \in [Kinds -> Seq(Messages)],
           written' \in Seq(Messages),
           \A g \in Waited : hand[g] = Exited => hand'[g] = Exited
    PROVE  Inv'
  <1>1. DOMAIN chan' = AllChannels
    OBVIOUS
  <1>2. TypeOK'
    BY <1>1 DEF Inv, TypeOK, AllChannels
  <1>3. NoSendOnClosedChannel'
    BY DEF Inv, NoSendOnClosedChannel
  <1> QED BY <1>2, <1>3 DEF Inv

\* As above, where nothing else changes.
LEMMA TakeKeepsInv ==
    ASSUME Inv, NEW g \in Goroutines, From[g] \in AllChannels, Takes(g),
           UNCHANGED <<scanner, lines, sends, accepted, got, written, broken,
                       ctxDone, closer>>
    PROVE  Inv'
  <1>1. TypeOK
    BY DEF Inv
  <1>2. \A h \in Waited : hand[h] = Exited => hand'[h] = Exited
    BY <1>1, TakesEffect, Names DEF Goroutines
  <1>3. /\ scanner' \in {"scanning", "offering", "failed", "ended"}
        /\ got' \in [Kinds -> Seq(Messages)]
        /\ written' \in Seq(Messages)
    BY <1>1 DEF TypeOK
  <1> QED BY <1>1, <1>2, <1>3, TakesEffect, MoveKeepsInv

LEMMA PutKeepsInv ==
    ASSUME Inv, NEW g \in Goroutines, NEW c \in AllChannels, Puts(g, c),
           UNCHANGED <<scanner, lines, sends, accepted, got, written, broken,
                       ctxDone, closer>>
    PROVE  Inv'
  <1>1. TypeOK
    BY DEF Inv
  <1>2. \A h \in Waited : hand[h] = Exited => hand'[h] = Exited
    BY <1>1, PutsEffect DEF Goroutines
  <1>3. /\ scanner' \in {"scanning", "offering", "failed", "ended"}
        /\ got' \in [Kinds -> Seq(Messages)]
        /\ written' \in Seq(Messages)
    BY <1>1 DEF TypeOK
  <1> QED BY <1>1, <1>2, <1>3, PutsEffect, MoveKeepsInv

(***************************************************************************)
(* The steps of the outgoing way                                           *)
(***************************************************************************)

\* Nothing of the inbound way changes.
LEMMA InboundApart ==
    ASSUME IInv, UNCHANGED <<scanner, lines, accepted, got>>,
           \A c \in AllChannels \ {"outgoing", "mhOutgoing"} : chan'[c] = chan[c],
           \A g \in Goroutines \ {"writeLoop", "bridgeOutgoing"} : hand'[g] = hand[g]
    PROVE  Inbound' /\ LinesSorted'
  BY InboundSame DEF IInv

LEMMA WriteLoopTakesStep ==
    ASSUME IInv, WriteLoopTakes
    PROVE  IInv'
  <1>1. /\ Takes("writeLoop") /\ Inv /\ TypeOK
        /\ UNCHANGED <<scanner, lines, sends, accepted, got, written, broken,
                       ctxDone, closer>>
    BY DEF IInv, Inv, WriteLoopTakes
  <1>2. /\ "writeLoop" \in Goroutines /\ From["writeLoop"] \in AllChannels
        /\ From["writeLoop"] = "outgoing"
    BY Names, Ways
  <1>3. /\ hand["writeLoop"] = Empty /\ chan["outgoing"] # <<>>
        /\ hand'["writeLoop"] = Head(chan["outgoing"])
        /\ chan'["outgoing"] = Tail(chan["outgoing"])
        /\ \A h \in Goroutines \ {"writeLoop"} : hand'[h] = hand[h]
        /\ \A c \in AllChannels \ {"outgoing"} : chan'[c] = chan[c]
    BY <1>1, <1>2, TakesEffect
  <1>4. Inv'
    BY <1>1, <1>2, TakeKeepsInv
  <1>5. Inbound' /\ LinesSorted'
    BY <1>1, <1>3, InboundApart
  <1>6. /\ hand'["bridgeOutgoing"] = hand["bridgeOutgoing"]
        /\ chan'["mhOutgoing"] = chan["mhOutgoing"]
    BY <1>3, Names
  <1>7. /\ written \in Seq(Nat) /\ chan["outgoing"] \in Seq(Nat \ {0})
        /\ sends \in Nat
    BY <1>1, Typed, Names
  <1>8. OutPath(written, Empty, chan["outgoing"], hand["bridgeOutgoing"],
                chan["mhOutgoing"], broken, sends)
    BY <1>3 DEF IInv, Outbound
  <1>9. OutPath(written, Head(chan["outgoing"]), Tail(chan["outgoing"]),
                hand["bridgeOutgoing"], chan["mhOutgoing"], broken, sends)
    BY <1>3, <1>7, <1>8, OutPathWriteLoopTakes
  <1>10. Outbound'
    BY <1>1, <1>3, <1>6, <1>9 DEF Outbound
  <1> QED BY <1>4, <1>5, <1>10 DEF IInv

LEMMA WriteLoopWritesStep ==
    ASSUME IInv, WriteLoopWrites
    PROVE  /\ IInv'
           /\ Len(written) + 1 <= sends
           /\ written' = Append(written, Numbers(sends)[Len(written) + 1])
  <1>1. /\ Inv /\ TypeOK /\ ~broken
        /\ hand["writeLoop"] \notin {Empty, Exited}
        /\ written' = Append(written, hand["writeLoop"])
        /\ hand' = [hand EXCEPT !["writeLoop"] = Empty]
        /\ UNCHANGED <<scanner, lines, chan, sends, accepted, got, broken,
                       ctxDone, closer>>
    BY DEF IInv, Inv, WriteLoopWrites
  <1>2. "writeLoop" \in Goroutines
    BY Names
  <1>3. /\ hand["writeLoop"] \in Messages /\ hand["writeLoop"] \in Nat \ {0}
        /\ written \in Seq(Nat) /\ chan["outgoing"] \in Seq(Nat)
        /\ sends \in Nat
    BY <1>1, <1>2, Typed, Names
  <1>4. /\ hand'["writeLoop"] = Empty
        /\ \A h \in Goroutines \ {"writeLoop"} : hand'[h] = hand[h]
        /\ hand' \in [Goroutines -> Messages \cup {Empty, Exited}]
    BY <1>1, <1>2 DEF TypeOK
  <1>5. Inv'
    <2>1. \A h \in Waited : hand[h] = Exited => hand'[h] = Exited
      BY <1>1, <1>4 DEF Goroutines
    <2>2. /\ chan' \in [AllChannels -> Seq(Messages)]
          /\ \A c \in AllChannels : Len(chan'[c]) <= MessageBuffer
          /\ scanner' \in {"scanning", "offering", "failed", "ended"}
          /\ got' \in [Kinds -> Seq(Messages)]
          /\ written \in Seq(Messages)
      BY <1>1 DEF TypeOK, AllChannels
    <2>3. written' \in Seq(Messages)
      BY <1>1, <1>3, <2>2
    <2> QED BY <1>1, <1>4, <2>1, <2>2, <2>3, MoveKeepsInv
  <1>6. Inbound' /\ LinesSorted'
    BY <1>1, <1>4, InboundApart
  <1>7. OutPath(written, hand["writeLoop"], chan["outgoing"],
                hand["bridgeOutgoing"], chan["mhOutgoing"], broken, sends)
    BY DEF IInv, Outbound
  <1>8. /\ OutPath(Append(written, hand["writeLoop"]), Empty, chan["outgoing"],
                   hand["bridgeOutgoing"], chan["mhOutgoing"], broken, sends)
        /\ Len(written) + 1 <= sends
        /\ hand["writeLoop"] = Numbers(sends)[Len(written) + 1]
    BY <1>1, <1>3, <1>7, OutPathWrites
  <1>9. hand'["bridgeOutgoing"] = hand["bridgeOutgoing"]
    BY <1>4, Names
  <1>10. Outbound'
    BY <1>1, <1>4, <1>8, <1>9 DEF Outbound
  <1> QED BY <1>1, <1>5, <1>6, <1>8, <1>10 DEF IInv

\* After a failed write no message is written any more.
LEMMA WriteLoopFailsStep ==
    ASSUME IInv, WriteLoopFails
    PROVE  IInv'
  <1>1. /\ Inv /\ TypeOK /\ broken' = TRUE
        /\ hand["writeLoop"] \notin {Empty, Exited}
        /\ hand' = [hand EXCEPT !["writeLoop"] = Empty]
        /\ UNCHANGED <<scanner, lines, chan, sends, accepted, got, written,
                       ctxDone, closer>>
    BY DEF IInv, Inv, WriteLoopFails
  <1>2. /\ \A h \in Goroutines \ {"writeLoop"} : hand'[h] = hand[h]
        /\ hand' \in [Goroutines -> Messages \cup {Empty, Exited}]
    BY <1>1, Names DEF TypeOK
  <1>3. TypeOK'
    BY <1>1, <1>2 DEF TypeOK
  <1>4. NoSendOnClosedChannel'
    BY <1>1, <1>2 DEF Inv, NoSendOnClosedChannel, Goroutines
  <1>5. Inbound' /\ LinesSorted'
    BY <1>1, <1>2, InboundApart
  <1>6. Outbound'
    BY <1>1 DEF IInv, Outbound, OutPath
  <1> QED BY <1>3, <1>4, <1>5, <1>6 DEF IInv, Inv

LEMMA BridgeOutgoingTakesStep ==
    ASSUME IInv, BridgeTakes("bridgeOutgoing")
    PROVE  IInv'
  <1>1. /\ Takes("bridgeOutgoing") /\ Inv /\ TypeOK
        /\ UNCHANGED <<scanner, lines, sends, accepted, got, written, broken,
                       ctxDone, closer>>
    BY DEF IInv, Inv, BridgeTakes
  <1>2. /\ "bridgeOutgoing" \in Goroutines /\ From["bridgeOutgoing"] \in AllChannels
        /\ From["bridgeOutgoing"] = "mhOutgoing"
    BY Names, Ways
  <1>3. /\ hand["bridgeOutgoing"] = Empty /\ chan["mhOutgoing"] # <<>>
        /\ hand'["bridgeOutgoing"] = Head(chan["mhOutgoing"])
        /\ chan'["mhOutgoing"] = Tail(chan["mhOutgoing"])
        /\ \A h \in Goroutines \ {"bridgeOutgoing"} : hand'[h] = hand[h]
        /\ \A c \in AllChannels \ {"mhOutgoing"} : chan'[c] = chan[c]
    BY <1>1, <1>2, TakesEffect
  <1>4. Inv'
    BY <1>1, <1>2, TakeKeepsInv
  <1>5. Inbound' /\ LinesSorted'
    BY <1>1, <1>3, InboundApart
  <1>6. /\ hand'["writeLoop"] = hand["writeLoop"]
        /\ chan'["outgoing"] = chan["outgoing"]
    BY <1>3, Names
  <1>7. /\ written \in Seq(Nat) /\ chan["mhOutgoing"] \in Seq(Nat \ {0})
        /\ hand["writeLoop"] \in Hand /\ chan["outgoing"] \in Seq(Nat)
        /\ sends \in Nat
    BY <1>1, Typed, Names
  <1>8. OutPath(written, hand["writeLoop"], chan["outgoing"], Empty,
                chan["mhOutgoing"], broken, sends)
    BY <1>3 DEF IInv, Outbound
  <1>9. OutPath(written, hand["writeLoop"], chan["outgoing"],
                Head(chan["mhOutgoing"]), Tail(chan["mhOutgoing"]), broken, sends)
    BY <1>3, <1>7, <1>8, OutPathBridgeTakes
  <1>10. Outbound'
    BY <1>1, <1>3, <1>6, <1>9 DEF Outbound
  <1> QED BY <1>4, <1>5, <1>10 DEF IInv

LEMMA BridgeOutgoingPutsStep ==
    ASSUME IInv, BridgePuts("bridgeOutgoing")
    PROVE  IInv'
  <1>1. /\ Puts("bridgeOutgoing", "outgoing") /\ Inv /\ TypeOK
        /\ UNCHANGED <<scanner, lines, sends, accepted, got, written, broken,
                       ctxDone, closer>>
    BY Ways DEF IInv, Inv, BridgePuts
  <1>2. "bridgeOutgoing" \in Goroutines /\ "outgoing" \in AllChannels
    BY Names
  <1>3. /\ hand["bridgeOutgoing"] \in Nat \ {0}
        /\ hand'["bridgeOutgoing"] = Empty
        /\ chan'["outgoing"] = Append(chan["outgoing"], hand["bridgeOutgoing"])
        /\ \A h \in Goroutines \ {"bridgeOutgoing"} : hand'[h] = hand[h]
        /\ \A c \in AllChannels \ {"outgoing"} : chan'[c] = chan[c]
    BY <1>1, <1>2, PutsEffect
  <1>4. Inv'
    BY <1>1, <1>2, PutKeepsInv
  <1>5. Inbound' /\ LinesSorted'
    BY <1>1, <1>3, InboundApart
  <1>6. /\ hand'["writeLoop"] = hand["writeLoop"]
        /\ chan'["mhOutgoing"] = chan["mhOutgoing"]
    BY <1>3, Names
  <1>7. /\ written \in Seq(Nat) /\ chan["mhOutgoing"] \in Seq(Nat)
        /\ hand["writeLoop"] \in Hand /\ chan["outgoing"] \in Seq(Nat)
        /\ sends \in Nat
    BY <1>1, Typed, Names
  <1>8. OutPath(written, hand["writeLoop"], chan["outgoing"],
                hand["bridgeOutgoing"], chan["mhOutgoing"], broken, sends)
    BY DEF IInv, Outbound
  <1>9. OutPath(written, hand["writeLoop"],
                Append(chan["outgoing"], hand["bridgeOutgoing"]), Empty,
                chan["mhOutgoing"], broken, sends)
    BY <1>3, <1>7, <1>8, OutPathBridgePuts
  <1>10. Outbound'
    BY <1>1, <1>3, <1>6, <1>9 DEF Outbound
  <1> QED BY <1>4, <1>5, <1>10 DEF IInv

LEMMA AcceptsStep ==
    ASSUME IInv, Accepts, sends + 1 \in Messages
    PROVE  IInv' /\ Numbers(sends') = Append(Numbers(sends), sends + 1)
  <1>1. /\ Inv /\ TypeOK /\ sends \in Nat
        /\ Len(chan["mhOutgoing"]) < MessageBuffer
        /\ sends' = sends + 1
        /\ chan' = [chan EXCEPT !["mhOutgoing"] = Append(@, sends + 1)]
        /\ UNCHANGED <<scanner, lines, hand, accepted, got, written, broken,
                       ctxDone, closer>>
    BY DEF IInv, Inv, TypeOK, Accepts
  <1>2. /\ chan \in [AllChannels -> Seq(Messages)]
        /\ \A c \in AllChannels : Len(chan[c]) <= MessageBuffer
        /\ "mhOutgoing" \in AllChannels
    BY <1>1, Names DEF TypeOK, AllChannels
  <1>3. /\ Append(chan["mhOutgoing"], sends + 1) \in Seq(Messages)
        /\ Len(Append(chan["mhOutgoing"], sends + 1)) = Len(chan["mhOutgoing"]) + 1
        /\ Len(chan["mhOutgoing"]) \in Nat
    BY <1>2
  <1>4. Len(Append(chan["mhOutgoing"], sends + 1)) <= MessageBuffer
    BY <1>1, <1>3, ConstantsAssumption
  <1>5. /\ chan'["mhOutgoing"] = Append(chan["mhOutgoing"], sends + 1)
        /\ \A c \in AllChannels \ {"mhOutgoing"} : chan'[c] = chan[c]
        /\ chan' \in [AllChannels -> Seq(Messages)]
    BY <1>1, <1>2, <1>3
  <1>6. \A c \in AllChannels : Len(chan'[c]) <= MessageBuffer
    BY <1>2, <1>4, <1>5
  <1>7. DOMAIN chan' = AllChannels /\ sends' \in Nat
    BY <1>1, <1>5
  <1>8. TypeOK'
    BY <1>1, <1>5, <1>6, <1>7 DEF TypeOK, AllChannels
  <1>9. NoSendOnClosedChannel'
    BY <1>1 DEF Inv, NoSendOnClosedChannel
  <1>10. Inbound' /\ LinesSorted'
    BY <1>1, <1>5, InboundApart
  <1>11. /\ chan'["outgoing"] = chan["outgoing"]
         /\ written \in Seq(Nat) /\ chan["mhOutgoing"] \in Seq(Nat)
         /\ hand["writeLoop"] \in Hand /\ chan["outgoing"] \in Seq(Nat)
         /\ hand["bridgeOutgoing"] \in Hand
    BY <1>1, <1>5, Typed, Names
  <1>12. OutPath(written, hand["writeLoop"], chan["outgoing"],
                 hand["bridgeOutgoing"], chan["mhOutgoing"], broken, sends)
    BY DEF IInv, Outbound
  <1>13. OutPath(written, hand["writeLoop"], chan["outgoing"],
                 hand["bridgeOutgoing"], Append(chan["mhOutgoing"], sends + 1),
                 broken, sends + 1)
    BY <1>1, <1>11, <1>12, OutPathAccepts
  <1>14. Outbound'
    BY <1>1, <1>5, <1>11, <1>13 DEF Outbound
  <1> QED BY <1>1, <1>8, <1>9, <1>10, <1>14, NumbersType DEF IInv, Inv

(***************************************************************************)
(* The steps of the inbound way                                            *)
(***************************************************************************)

\* Nothing of the outgoing way changes.
LEMMA OutboundApart ==
    ASSUME IInv, UNCHANGED <<sends, written, broken>>,
           \A c \in {"outgoing", "mhOutgoing"} : chan'[c] = chan[c],
           \A g \in {"writeLoop", "bridgeOutgoing"} : hand'[g] = hand[g]
    PROVE  Outbound'
  BY OutboundSame DEF IInv

\* The router's count of the lines, which most steps leave alone.
LEMMA Counted ==
    ASSUME IInv
    PROVE  \E R \in Nat : /\ ToRouter(R)
                          /\ ToCallers(R)
                          /\ ToApp("request", "bridgeRequests", R)
                          /\ ToApp("notification", "bridgeNotifications", R)
  BY DEF IInv, Inbound

\* Nothing changes between the router and the ends of the streams.
LEMMA DeliverySame ==
    ASSUME NEW R \in Nat, UNCHANGED <<accepted, got>>,
           ToCallers(R),
           ToApp("request", "bridgeRequests", R),
           ToApp("notification", "bridgeNotifications", R),
           \A c \in {"requests", "notifications", "mhRequests", "mhNotifications"} :
               chan'[c] = chan[c],
           \A g \in AppBridges : hand'[g] = hand[g],
           hand'["router"] # Exited => hand["router"] # Exited
    PROVE  /\ ToCallers(R)'
           /\ ToApp("request", "bridgeRequests", R)'
           /\ ToApp("notification", "bridgeNotifications", R)'
  <1>1. ToCallers(R)'
    BY ToCallersSame
  <1>2. ToApp("request", "bridgeRequests", R)'
    BY ToAppSame, Ways DEF AppBridges, Kinds, Bridges
  <1>3. ToApp("notification", "bridgeNotifications", R)'
    BY ToAppSame, Ways DEF AppBridges, Kinds, Bridges
  <1> QED BY <1>1, <1>2, <1>3

\* A goroutine on the way to the router takes a line, or puts one.
LEMMA RouterTakesStep ==
    ASSUME IInv, RouterTakes
    PROVE  IInv'
  <1>1. /\ Takes("router") /\ Inv /\ TypeOK
        /\ UNCHANGED <<scanner, lines, sends, accepted, got, written, broken,
                       ctxDone, closer>>
    BY DEF IInv, Inv, RouterTakes
  <1>2. /\ "router" \in Goroutines /\ From["router"] \in AllChannels
        /\ From["router"] = "mhIncoming"
    BY Names, Ways
  <1>3. /\ hand["router"] = Empty /\ chan["mhIncoming"] # <<>>
        /\ hand'["router"] = Head(chan["mhIncoming"])
        /\ chan'["mhIncoming"] = Tail(chan["mhIncoming"])
        /\ \A h \in Goroutines \ {"router"} : hand'[h] = hand[h]
        /\ \A c \in AllChannels \ {"mhIncoming"} : chan'[c] = chan[c]
    BY <1>1, <1>2, TakesEffect
  <1>4. Inv'
    BY <1>1, <1>2, TakeKeepsInv
  <1>5. Outbound' /\ LinesSorted'
    BY <1>1, <1>3, OutboundApart, LinesSortedSame, Names DEF IInv
  <1>6. PICK R \in Nat : /\ ToRouter(R)
                         /\ ToCallers(R)
                         /\ ToApp("request", "bridgeRequests", R)
                         /\ ToApp("notification", "bridgeNotifications", R)
    BY Counted
  <1>7. chan["mhIncoming"] \in Seq(Nat \ {0}) /\ Len(lines) \in Nat
    BY <1>1, Typed, Names
  <1>8. LinePath(Empty, chan["mhIncoming"], hand["bridgeIncoming"], chan["incoming"],
                 hand["readLoop"], scanner, Len(lines), R)
    BY <1>3, <1>6 DEF ToRouter
  <1>9. LinePath(Head(chan["mhIncoming"]), Tail(chan["mhIncoming"]),
                 hand["bridgeIncoming"], chan["incoming"],
                 hand["readLoop"], scanner, Len(lines), R)
    BY <1>3, <1>7, <1>8, LinePathRouterTakes
  <1>10. /\ hand'["bridgeIncoming"] = hand["bridgeIncoming"]
         /\ hand'["readLoop"] = hand["readLoop"]
         /\ chan'["incoming"] = chan["incoming"]
    BY <1>3, Names
  <1>11. ToRouter(R)'
    BY <1>1, <1>3, <1>9, <1>10 DEF ToRouter
  <1>12. /\ ToCallers(R)'
         /\ ToApp("request", "bridgeRequests", R)'
         /\ ToApp("notification", "bridgeNotifications", R)'
    BY <1>1, <1>3, <1>6, DeliverySame, Names DEF AppBridges
  <1> QED BY <1>4, <1>5, <1>11, <1>12 DEF IInv, Inbound

LEMMA BridgeIncomingTakesStep ==
    ASSUME IInv, BridgeTakes("bridgeIncoming")
    PROVE  IInv'
  <1>1. /\ Takes("bridgeIncoming") /\ Inv /\ TypeOK
        /\ UNCHANGED <<scanner, lines, sends, accepted, got, written, broken,
                       ctxDone, closer>>
    BY DEF IInv, Inv, BridgeTakes
  <1>2. /\ "bridgeIncoming" \in Goroutines /\ From["bridgeIncoming"] \in AllChannels
        /\ From["bridgeIncoming"] = "incoming"
    BY Names, Ways
  <1>3. /\ hand["bridgeIncoming"] = Empty /\ chan["incoming"] # <<>>
        /\ hand'["bridgeIncoming"] = Head(chan["incoming"])
        /\ chan'["incoming"] = Tail(chan["incoming"])
        /\ \A h \in Goroutines \ {"bridgeIncoming"} : hand'[h] = hand[h]
        /\ \A c \in AllChannels \ {"incoming"} : chan'[c] = chan[c]
    BY <1>1, <1>2, TakesEffect
  <1>4. Inv'
    BY <1>1, <1>2, TakeKeepsInv
  <1>5. Outbound' /\ LinesSorted'
    BY <1>1, <1>3, OutboundApart, LinesSortedSame, Names DEF IInv
  <1>6. PICK R \in Nat : /\ ToRouter(R)
                         /\ ToCallers(R)
                         /\ ToApp("request", "bridgeRequests", R)
                         /\ ToApp("notification", "bridgeNotifications", R)
    BY Counted
  <1>7. /\ hand["router"] \in Hand /\ chan["mhIncoming"] \in Seq(Nat)
        /\ chan["incoming"] \in Seq(Nat \ {0}) /\ Len(lines) \in Nat
    BY <1>1, Typed, Names
  <1>8. LinePath(hand["router"], chan["mhIncoming"], Empty, chan["incoming"],
                 hand["readLoop"], scanner, Len(lines), R)
    BY <1>3, <1>6 DEF ToRouter
  <1>9. LinePath(hand["router"], chan["mhIncoming"], Head(chan["incoming"]),
                 Tail(chan["incoming"]), hand["readLoop"], scanner, Len(lines), R)
    BY <1>3, <1>7, <1>8, LinePathBridgeTakes
  <1>10. /\ hand'["router"] = hand["router"]
         /\ hand'["readLoop"] = hand["readLoop"]
         /\ chan'["mhIncoming"] = chan["mhIncoming"]
    BY <1>3, Names
  <1>11. ToRouter(R)'
    BY <1>1, <1>3, <1>9, <1>10 DEF ToRouter
  <1>12. /\ ToCallers(R)'
         /\ ToApp("request", "bridgeRequests", R)'
         /\ ToApp("notification", "bridgeNotifications", R)'
    BY <1>1, <1>3, <1>6, <1>10, DeliverySame, Names DEF AppBridges
  <1> QED BY <1>4, <1>5, <1>11, <1>12 DEF IInv, Inbound

LEMMA BridgeIncomingPutsStep ==
    ASSUME IInv, BridgePuts("bridgeIncoming")
    PROVE  IInv'
  <1>1. /\ Puts("bridgeIncoming", "mhIncoming") /\ Inv /\ TypeOK
        /\ UNCHANGED <<scanner, lines, sends, accepted, got, written, broken,
                       ctxDone, closer>>
    BY Ways DEF IInv, Inv, BridgePuts
  <1>2. "bridgeIncoming" \in Goroutines /\ "mhIncoming" \in AllChannels
    BY Names
  <1>3. /\ hand["bridgeIncoming"] \in Nat \ {0}
        /\ hand'["bridgeIncoming"] = Empty
        /\ chan'["mhIncoming"] = Append(chan["mhIncoming"], hand["bridgeIncoming"])
        /\ \A h \in Goroutines \ {"bridgeIncoming"} : hand'[h] = hand[h]
        /\ \A c \in AllChannels \ {"mhIncoming"} : chan'[c] = chan[c]
    BY <1>1, <1>2, PutsEffect
  <1>4. Inv'
    BY <1>1, <1>2, PutKeepsInv
  <1>5. Outbound' /\ LinesSorted'
    BY <1>1, <1>3, OutboundApart, LinesSortedSame, Names DEF IInv
  <1>6. PICK R \in Nat : /\ ToRouter(R)
                         /\ ToCallers(R)
                         /\ ToApp("request", "bridgeRequests", R)
                         /\ ToApp("notification", "bridgeNotifications", R)
    BY Counted
  <1>7. /\ hand["router"] \in Hand /\ chan["mhIncoming"] \in Seq(Nat)
        /\ chan["incoming"] \in Seq(Nat) /\ Len(lines) \in Nat
    BY <1>1, Typed, Names
  <1>8. LinePath(hand["router"], chan["mhIncoming"], hand["bridgeIncoming"],
                 chan["incoming"], hand["readLoop"], scanner, Len(lines), R)
    BY <1>6 DEF ToRouter
  <1>9. LinePath(hand["router"], Append(chan["mhIncoming"], hand["bridgeIncoming"]),
                 Empty, chan["incoming"], hand["readLoop"], scanner, Len(lines), R)
    BY <1>3, <1>7, <1>8, LinePathBridgePuts
  <1>10. /\ hand'["router"] = hand["router"]
         /\ hand'["readLoop"] = hand["readLoop"]
         /\ chan'["incoming"] = chan["incoming"]
    BY <1>3, Names
  <1>11. ToRouter(R)'
    BY <1>1, <1>3, <1>9, <1>10 DEF ToRouter
  <1>12. /\ ToCallers(R)'
         /\ ToApp("request", "bridgeRequests", R)'
         /\ ToApp("notification", "bridgeNotifications", R)'
    BY <1>1, <1>3, <1>6, <1>10, DeliverySame, Names DEF AppBridges
  <1> QED BY <1>4, <1>5, <1>11, <1>12 DEF IInv, Inbound

LEMMA ReadLoopTakesStep ==
    ASSUME IInv, ReadLoopTakes
    PROVE  IInv'
  <1>1. /\ Inv /\ TypeOK /\ scanner = "offering" /\ scanner' = "scanning"
        /\ hand["readLoop"] = Empty
        /\ hand' = [hand EXCEPT !["readLoop"] = Len(lines)]
        /\ UNCHANGED <<lines, chan, sends, accepted, got, written, broken,
                       ctxDone, closer>>
    BY DEF IInv, Inv, ReadLoopTakes
  <1>2. /\ hand'["readLoop"] = Len(lines)
        /\ \A h \in Goroutines \ {"readLoop"} : hand'[h] = hand[h]
        /\ hand' \in [Goroutines -> Messages \cup {Empty, Exited}]
    <2>1. Len(lines) \in Messages
      BY <1>1 DEF IInv, LinesSorted
    <2> QED BY <1>1, <2>1, Names DEF TypeOK
  <1>3. Inv'
    <2>1. \A h \in Waited : hand[h] = Exited => hand'[h] = Exited
      BY <1>1, <1>2, Names DEF Goroutines
    <2>2. /\ chan' \in [AllChannels -> Seq(Messages)]
          /\ \A c \in AllChannels : Len(chan'[c]) <= MessageBuffer
          /\ scanner' \in {"scanning", "offering", "failed", "ended"}
          /\ got' \in [Kinds -> Seq(Messages)]
          /\ written' \in Seq(Messages)
      BY <1>1 DEF TypeOK, AllChannels
    <2> QED BY <1>1, <1>2, <2>1, <2>2, MoveKeepsInv
  <1>4. Outbound' /\ LinesSorted'
    BY <1>1, <1>2, OutboundApart, LinesSortedSame, Names DEF IInv
  <1>5. PICK R \in Nat : /\ ToRouter(R)
                         /\ ToCallers(R)
                         /\ ToApp("request", "bridgeRequests", R)
                         /\ ToApp("notification", "bridgeNotifications", R)
    BY Counted
  <1>6. /\ hand["router"] \in Hand /\ chan["mhIncoming"] \in Seq(Nat)
        /\ hand["bridgeIncoming"] \in Hand
        /\ chan["incoming"] \in Seq(Nat) /\ Len(lines) \in Nat
    BY <1>1, Typed, Names
  <1>7. LinePath(hand["router"], chan["mhIncoming"], hand["bridgeIncoming"],
                 chan["incoming"], Empty, "offering", Len(lines), R)
    BY <1>1, <1>5 DEF ToRouter
  <1>8. LinePath(hand["router"], chan["mhIncoming"], hand["bridgeIncoming"],
                 chan["incoming"], Len(lines), "scanning", Len(lines), R)
    BY <1>6, <1>7, LinePathReadLoopTakes
  <1>9. /\ hand'["router"] = hand["router"]
        /\ hand'["bridgeIncoming"] = hand["bridgeIncoming"]
    BY <1>2, Names
  <1>10. ToRouter(R)'
    BY <1>1, <1>2, <1>8, <1>9 DEF ToRouter
  <1>11. /\ ToCallers(R)'
         /\ ToApp("request", "bridgeRequests", R)'
         /\ ToApp("notification", "bridgeNotifications", R)'
    BY <1>1, <1>2, <1>5, <1>9, DeliverySame, Names DEF AppBridges
  <1> QED BY <1>3, <1>4, <1>10, <1>11 DEF IInv, Inbound

LEMMA ReadLoopPutsStep ==
    ASSUME IInv, ReadLoopPuts
    PROVE  IInv'
  <1>1. /\ Puts("readLoop", "incoming") /\ Inv /\ TypeOK
        /\ UNCHANGED <<scanner, lines, sends, accepted, got, written, broken,
                       ctxDone, closer>>
    BY Ways DEF IInv, Inv, ReadLoopPuts
  <1>2. "readLoop" \in Goroutines /\ "incoming" \in AllChannels
    BY Names
  <1>3. /\ hand["readLoop"] \in Nat \ {0}
        /\ hand'["readLoop"] = Empty
        /\ chan'["incoming"] = Append(chan["incoming"], hand["readLoop"])
        /\ \A h \in Goroutines \ {"readLoop"} : hand'[h] = hand[h]
        /\ \A c \in AllChannels \ {"incoming"} : chan'[c] = chan[c]
    BY <1>1, <1>2, PutsEffect
  <1>4. Inv'
    BY <1>1, <1>2, PutKeepsInv
  <1>5. Outbound' /\ LinesSorted'
    BY <1>1, <1>3, OutboundApart, LinesSortedSame, Names DEF IInv
  <1>6. PICK R \in Nat : /\ ToRouter(R)
                         /\ ToCallers(R)
                         /\ ToApp("request", "bridgeRequests", R)
                         /\ ToApp("notification", "bridgeNotifications", R)
    BY Counted
  <1>7. /\ hand["router"] \in Hand /\ chan["mhIncoming"] \in Seq(Nat)
        /\ hand["bridgeIncoming"] \in Hand
        /\ chan["incoming"] \in Seq(Nat) /\ Len(lines) \in Nat
    BY <1>1, Typed, Names
  <1>8. LinePath(hand["router"], chan["mhIncoming"], hand["bridgeIncoming"],
                 chan["incoming"], hand["readLoop"], scanner, Len(lines), R)
    BY <1>6 DEF ToRouter
  <1>9. LinePath(hand["router"], chan["mhIncoming"], hand["bridgeIncoming"],
                 Append(chan["incoming"], hand["readLoop"]), Empty, scanner,
                 Len(lines), R)
    BY <1>3, <1>7, <1>8, LinePathReadLoopPuts
  <1>10. /\ hand'["router"] = hand["router"]
         /\ hand'["bridgeIncoming"] = hand["bridgeIncoming"]
         /\ chan'["mhIncoming"] = chan["mhIncoming"]
    BY <1>3, Names
  <1>11. ToRouter(R)'
    BY <1>1, <1>3, <1>9, <1>10 DEF ToRouter
  <1>12. /\ ToCallers(R)'
         /\ ToApp("request", "bridgeRequests", R)'
         /\ ToApp("notification", "bridgeNotifications", R)'
    BY <1>1, <1>3, <1>6, <1>10, DeliverySame, Names DEF AppBridges
  <1> QED BY <1>4, <1>5, <1>11, <1>12 DEF IInv, Inbound

\* The end of a goroutine, or of the scanner, and a change of the context or of
\* Close leave everything else where it is.
LEMMA EndingStep ==
    ASSUME IInv,
           UNCHANGED <<lines, chan, sends, accepted, got, written, broken>>,
           scanner' \in {scanner, "ended"},
           hand' \in [Goroutines -> Messages \cup {Empty, Exited}],
           \A g \in Goroutines : hand'[g] \in {hand[g], Exited},
           ctxDone' \in BOOLEAN,
           \/ closer' = closer
           \/ closer' = "waiting"
           \/ closer' = "closed" /\ \A g \in Waited : hand[g] = Exited
    PROVE  IInv'
  <1>1. Inv /\ TypeOK
    BY DEF IInv, Inv
  <1>2. TypeOK'
    BY <1>1 DEF TypeOK
  <1>3. NoSendOnClosedChannel'
    BY <1>1 DEF Inv, NoSendOnClosedChannel, Goroutines
  <1>4. Outbound'
    BY OutboundSame, Names DEF IInv
  <1>5. Inbound' /\ LinesSorted'
    BY InboundSame DEF IInv
  <1> QED BY <1>2, <1>3, <1>4, <1>5 DEF IInv, Inv

LEMMA SeesDoneStep ==
    ASSUME IInv, NEW g \in Goroutines, SeesDone(g)
    PROVE  IInv'
  <1>1. hand \in [Goroutines -> Messages \cup {Empty, Exited}] /\ ctxDone \in BOOLEAN
    BY DEF IInv, Inv, TypeOK
  <1>2. /\ hand' \in [Goroutines -> Messages \cup {Empty, Exited}]
        /\ \A h \in Goroutines : hand'[h] \in {hand[h], Exited}
    BY <1>1 DEF SeesDone
  <1>3. UNCHANGED <<scanner, lines, chan, sends, accepted, got, written,
                    broken, ctxDone, closer>>
    BY DEF SeesDone
  <1> QED BY <1>1, <1>2, <1>3, EndingStep

LEMMA ReadLoopEndsStep ==
    ASSUME IInv, ReadLoopEnds
    PROVE  IInv'
  <1>1. hand \in [Goroutines -> Messages \cup {Empty, Exited}] /\ ctxDone \in BOOLEAN
    BY DEF IInv, Inv, TypeOK
  <1>2. /\ hand' \in [Goroutines -> Messages \cup {Empty, Exited}]
        /\ \A h \in Goroutines : hand'[h] \in {hand[h], Exited}
    BY <1>1 DEF ReadLoopEnds
  <1>3. UNCHANGED <<scanner, lines, chan, sends, accepted, got, written,
                    broken, ctxDone, closer>>
    BY DEF ReadLoopEnds
  <1> QED BY <1>1, <1>2, <1>3, EndingStep

LEMMA ScannerEndsStep ==
    ASSUME IInv, ScannerEnds
    PROVE  IInv'
  <1>1. hand \in [Goroutines -> Messages \cup {Empty, Exited}] /\ ctxDone \in BOOLEAN
    BY DEF IInv, Inv, TypeOK
  <1> QED BY <1>1, EndingStep DEF ScannerEnds

\* Close and the contexts: the channels are closed when all the goroutines that
\* send on them have exited.
LEMMA ClosingStep ==
    ASSUME IInv,
           \/ CloseCancels
           \/ CloseChannels
           \/ /\ ctxDone' = TRUE
              /\ UNCHANGED <<scanner, lines, hand, chan, sends, accepted, got,
                             written, broken, closer>>
    PROVE  IInv'
  <1>1. hand \in [Goroutines -> Messages \cup {Empty, Exited}] /\ ctxDone \in BOOLEAN
    BY DEF IInv, Inv, TypeOK
  <1> QED BY <1>1, EndingStep DEF CloseCancels, CloseChannels

\* A bridge to the application takes a message, or puts one.
LEMMA AppBridgeTakesStep ==
    ASSUME IInv, NEW b \in AppBridges, BridgeTakes(b)
    PROVE  IInv'
  <1>1. /\ Takes(b) /\ Inv /\ TypeOK
        /\ UNCHANGED <<scanner, lines, sends, accepted, got, written, broken,
                       ctxDone, closer>>
    BY DEF IInv, Inv, BridgeTakes
  <1>2. b \in Goroutines /\ From[b] \in AllChannels /\ To[b] \in AllChannels
    BY AppBridgeEnds
  <1>3. /\ hand[b] = Empty /\ chan[From[b]] # <<>>
        /\ hand'[b] = Head(chan[From[b]])
        /\ chan'[From[b]] = Tail(chan[From[b]])
        /\ \A h \in Goroutines \ {b} : hand'[h] = hand[h]
        /\ \A c \in AllChannels \ {From[b]} : chan'[c] = chan[c]
    BY <1>1, <1>2, TakesEffect
  <1>4. Inv'
    BY <1>1, <1>2, TakeKeepsInv
  <1>5. From[b] \in {"mhRequests", "mhNotifications"}
    BY Ways DEF AppBridges
  <1>6. /\ \A h \in {"writeLoop", "bridgeOutgoing", "router", "bridgeIncoming",
                     "readLoop"} : hand'[h] = hand[h]
        /\ \A c \in {"outgoing", "mhOutgoing", "mhIncoming", "incoming"} :
               chan'[c] = chan[c]
    BY <1>3, <1>5, Names DEF AppBridges
  <1>7. Outbound' /\ LinesSorted'
    BY <1>1, <1>6, OutboundApart, LinesSortedSame DEF IInv
  <1>8. PICK R \in Nat : /\ ToRouter(R)
                         /\ ToCallers(R)
                         /\ ToApp("request", "bridgeRequests", R)
                         /\ ToApp("notification", "bridgeNotifications", R)
    BY Counted
  <1>9. ToRouter(R)'
    BY <1>1, <1>6, <1>8, ToRouterSame
  <1>10. ToCallers(R)'
    BY <1>1, <1>6, <1>8, ToCallersSame
  <1>11. ASSUME NEW k \in Kinds, ToApp(k, b, R)
         PROVE  ToApp(k, b, R)'
    <2>1. /\ chan[From[b]] \in Seq(Nat \ {0}) /\ chan[To[b]] \in Seq(Nat)
          /\ accepted[k] \in Seq(Nat) /\ got[k] \in Seq(Nat)
      BY <1>1, <1>2, Typed
    <2>2. AppPath(got[k], chan[To[b]], Empty, chan[From[b]], accepted[k],
                  hand["router"], R)
      BY <1>3, <1>11 DEF ToApp
    <2>3. AppPath(got[k], chan[To[b]], Head(chan[From[b]]), Tail(chan[From[b]]),
                  accepted[k], hand["router"], R)
      BY <1>3, <2>1, <2>2, AppPathTakes
    <2>4. chan'[To[b]] = chan[To[b]]
      BY <1>2, <1>3, AppBridgeEnds
    <2> QED BY <1>1, <1>3, <1>6, <2>3, <2>4 DEF ToApp
  <1>12. ASSUME NEW k \in Kinds, NEW a \in AppBridges, a # b, ToApp(k, a, R)
         PROVE  ToApp(k, a, R)'
    <2>1. /\ hand'[a] = hand[a] /\ a \in Bridges
          /\ chan'[From[a]] = chan[From[a]] /\ chan'[To[a]] = chan[To[a]]
      BY <1>3, <1>12, Ways, Names, AppBridgeEnds DEF AppBridges
    <2> QED BY <1>1, <1>6, <1>12, <2>1, ToAppSame
  <1>13. /\ ToApp("request", "bridgeRequests", R)'
         /\ ToApp("notification", "bridgeNotifications", R)'
    BY <1>8, <1>11, <1>12 DEF AppBridges, Kinds
  <1> QED BY <1>4, <1>7, <1>9, <1>10, <1>13 DEF IInv, Inbound

LEMMA AppBridgePutsStep ==
    ASSUME IInv, NEW b \in AppBridges, BridgePuts(b)
    PROVE  IInv'
  <1>1. /\ Puts(b, To[b]) /\ Inv /\ TypeOK
        /\ UNCHANGED <<scanner, lines, sends, accepted, got, written, broken,
                       ctxDone, closer>>
    BY DEF IInv, Inv, BridgePuts
  <1>2. b \in Goroutines /\ From[b] \in AllChannels /\ To[b] \in AllChannels
    BY AppBridgeEnds
  <1>3. /\ hand[b] \in Nat \ {0}
        /\ hand'[b] = Empty
        /\ chan'[To[b]] = Append(chan[To[b]], hand[b])
        /\ \A h \in Goroutines \ {b} : hand'[h] = hand[h]
        /\ \A c \in AllChannels \ {To[b]} : chan'[c] = chan[c]
    BY <1>1, <1>2, PutsEffect
  <1>4. Inv'
    BY <1>1, <1>2, PutKeepsInv
  <1>5. To[b] \in {"requests", "notifications"}
    BY Ways DEF AppBridges
  <1>6. /\ \A h \in {"writeLoop", "bridgeOutgoing", "router", "bridgeIncoming",
                     "readLoop"} : hand'[h] = hand[h]
        /\ \A c \in {"outgoing", "mhOutgoing", "mhIncoming", "incoming"} :
               chan'[c] = chan[c]
    BY <1>3, <1>5, Names DEF AppBridges
  <1>7. Outbound' /\ LinesSorted'
    BY <1>1, <1>6, OutboundApart, LinesSortedSame DEF IInv
  <1>8. PICK R \in Nat : /\ ToRouter(R)
                         /\ ToCallers(R)
                         /\ ToApp("request", "bridgeRequests", R)
                         /\ ToApp("notification", "bridgeNotifications", R)
    BY Counted
  <1>9. ToRouter(R)'
    BY <1>1, <1>6, <1>8, ToRouterSame
  <1>10. ToCallers(R)'
    BY <1>1, <1>6, <1>8, ToCallersSame
  <1>11. ASSUME NEW k \in Kinds, ToApp(k, b, R)
         PROVE  ToApp(k, b, R)'
    <2>1. /\ chan[From[b]] \in Seq(Nat) /\ chan[To[b]] \in Seq(Nat)
          /\ accepted[k] \in Seq(Nat) /\ got[k] \in Seq(Nat)
      BY <1>1, <1>2, Typed
    <2>2. AppPath(got[k], chan[To[b]], hand[b], chan[From[b]], accepted[k],
                  hand["router"], R)
      BY <1>11 DEF ToApp
    <2>3. AppPath(got[k], Append(chan[To[b]], hand[b]), Empty, chan[From[b]],
                  accepted[k], hand["router"], R)
      BY <1>3, <2>1, <2>2, AppPathPuts
    <2>4. chan'[From[b]] = chan[From[b]]
      BY <1>2, <1>3, AppBridgeEnds
    <2> QED BY <1>1, <1>3, <1>6, <2>3, <2>4 DEF ToApp
  <1>12. ASSUME NEW k \in Kinds, NEW a \in AppBridges, a # b, ToApp(k, a, R)
         PROVE  ToApp(k, a, R)'
    <2>1. /\ hand'[a] = hand[a] /\ a \in Bridges
          /\ chan'[From[a]] = chan[From[a]] /\ chan'[To[a]] = chan[To[a]]
      BY <1>3, <1>12, Ways, Names, AppBridgeEnds DEF AppBridges
    <2> QED BY <1>1, <1>6, <1>12, <2>1, ToAppSame
  <1>13. /\ ToApp("request", "bridgeRequests", R)'
         /\ ToApp("notification", "bridgeNotifications", R)'
    BY <1>8, <1>11, <1>12 DEF AppBridges, Kinds
  <1> QED BY <1>4, <1>7, <1>9, <1>10, <1>13 DEF IInv, Inbound

\* The application takes what the stream has next for it.
LEMMA AppReceivesStep ==
    ASSUME IInv, NEW k \in {"request", "notification"}, AppReceives(k)
    PROVE  /\ IInv'
           /\ Len(got[k]) + 1 <= Len(accepted[k])
           /\ got' = [got EXCEPT ![k] = Append(@, accepted[k][Len(got[k]) + 1])]
  <1> DEFINE b == IF k = "request" THEN "bridgeRequests" ELSE "bridgeNotifications"
             c == To[b]
  <1>1. /\ Inv /\ TypeOK /\ k \in Kinds /\ b \in AppBridges /\ c \in AllChannels
        /\ c \in {"requests", "notifications"}
        /\ chan[c] # <<>>
        /\ got' = [got EXCEPT ![k] = Append(@, Head(chan[c]))]
        /\ chan' = [chan EXCEPT ![c] = Tail(@)]
        /\ UNCHANGED <<scanner, lines, hand, sends, accepted, written, broken,
                       ctxDone, closer>>
    BY Ways, Names DEF IInv, Inv, Kinds, AppBridges, AppReceives
  <1>2. /\ chan \in [AllChannels -> Seq(Messages)]
        /\ \A d \in AllChannels : Len(chan[d]) <= MessageBuffer
        /\ got \in [Kinds -> Seq(Messages)]
        /\ hand \in [Goroutines -> Messages \cup {Empty, Exited}]
        /\ scanner \in {"scanning", "offering", "failed", "ended"}
        /\ written \in Seq(Messages)
    BY <1>1 DEF TypeOK, AllChannels
  <1> HIDE DEF c
  <1>3. /\ Head(chan[c]) \in Messages /\ Tail(chan[c]) \in Seq(Messages)
        /\ Len(Tail(chan[c])) <= Len(chan[c])
        /\ Len(Tail(chan[c])) \in Nat /\ Len(chan[c]) \in Nat
    BY <1>1, <1>2
  <1>4. Len(Tail(chan[c])) <= MessageBuffer
    BY <1>1, <1>2, <1>3, ConstantsAssumption
  <1>5. /\ chan'[c] = Tail(chan[c])
        /\ \A d \in AllChannels \ {c} : chan'[d] = chan[d]
        /\ chan' \in [AllChannels -> Seq(Messages)]
    BY <1>1, <1>2, <1>3
  <1>6. \A d \in AllChannels : Len(chan'[d]) <= MessageBuffer
    BY <1>2, <1>4, <1>5
  <1>7. /\ got'[k] = Append(got[k], Head(chan[c]))
        /\ \A j \in Kinds : j # k => got'[j] = got[j]
        /\ got' \in [Kinds -> Seq(Messages)]
    BY <1>1, <1>2, <1>3
  <1>8. Inv'
    BY <1>1, <1>2, <1>5, <1>6, <1>7, MoveKeepsInv
  <1>9. \A d \in {"outgoing", "mhOutgoing", "mhIncoming", "incoming", "mhRequests",
                  "mhNotifications"} : chan'[d] = chan[d]
    BY <1>1, <1>5, Names
  <1>10. Outbound' /\ LinesSorted'
    BY <1>1, <1>9, OutboundApart, LinesSortedSame DEF IInv
  <1>11. PICK R \in Nat : /\ ToRouter(R)
                          /\ ToCallers(R)
                          /\ ToApp("request", "bridgeRequests", R)
                          /\ ToApp("notification", "bridgeNotifications", R)
    BY Counted
  <1>12. ToRouter(R)'
    BY <1>1, <1>9, <1>11, ToRouterSame
  <1>13. ToCallers(R)'
    <2>1. got'["response"] = got["response"]
      BY <1>7 DEF Kinds
    <2> QED BY <1>1, <1>11, <2>1 DEF ToCallers
  <1>14. ToApp(k, b, R)
    BY <1>11
  <1>15. /\ ToApp(k, b, R)'
         /\ Len(got[k]) + 1 <= Len(accepted[k])
         /\ Head(chan[c]) = accepted[k][Len(got[k]) + 1]
    <2>1. /\ chan[c] \in Seq(Nat)
          /\ accepted[k] \in Seq(Nat) /\ got[k] \in Seq(Nat)
      BY <1>1, Typed
    <2>2. AppPath(got[k], chan[c], hand[b], chan[From[b]], accepted[k],
                  hand["router"], R)
      BY <1>14 DEF ToApp, c
    <2>3. /\ AppPath(Append(got[k], Head(chan[c])), Tail(chan[c]), hand[b],
                     chan[From[b]], accepted[k], hand["router"], R)
          /\ Len(got[k]) + 1 <= Len(accepted[k])
          /\ Head(chan[c]) = accepted[k][Len(got[k]) + 1]
      <3>1. chan[c] # <<>>
        BY <1>1
      <3> HIDE DEF c
      <3> QED BY <2>1, <2>2, <3>1, AppPathReceives
    <2>4. chan'[From[b]] = chan[From[b]]
      BY <1>1, <1>9, Ways DEF AppBridges
    <2>5. AppPath(got'[k], chan'[c], hand'[b], chan'[From[b]], accepted'[k],
                  hand'["router"], R)
      BY <1>1, <1>5, <1>7, <2>3, <2>4
    <2> QED BY <2>3, <2>5 DEF ToApp, c
  <1>16. ASSUME NEW j \in Kinds, NEW a \in AppBridges, j # k, a # b, ToApp(j, a, R)
         PROVE  ToApp(j, a, R)'
    <2>1. /\ a \in Bridges /\ got'[j] = got[j]
          /\ chan'[From[a]] = chan[From[a]] /\ chan'[To[a]] = chan[To[a]]
      BY <1>1, <1>5, <1>7, <1>9, <1>16, Ways, Names, AppBridgeEnds DEF AppBridges, c
    <2> QED BY <1>1, <1>16, <2>1, ToAppSame
  <1>17. /\ ToApp("request", "bridgeRequests", R)'
         /\ ToApp("notification", "bridgeNotifications", R)'
    BY <1>11, <1>15, <1>16 DEF AppBridges, Kinds
  <1>18. IInv'
    BY <1>8, <1>10, <1>12, <1>13, <1>17 DEF IInv, Inbound
  <1> QED BY <1>1, <1>15, <1>18

\* What the router's next line is to the streams of the three kinds.
LEMMA NextLine ==
    ASSUME IInv, NEW R \in Nat, ToRouter(R), hand["router"] \notin {Empty, Exited}
    PROVE  /\ hand["router"] = R + 1 /\ R + 1 <= Len(lines)
           /\ LinePath(Empty, chan["mhIncoming"], hand["bridgeIncoming"],
                       chan["incoming"], hand["readLoop"], scanner, Len(lines), R + 1)
           /\ \A k \in Kinds : lines[R + 1] = k =>
                 \A n \in Nat : Cut(accepted[k], n, R) /\ n <= Len(accepted[k]) =>
                     /\ n + 1 <= Len(accepted[k]) /\ accepted[k][n + 1] = R + 1
                     /\ Cut(accepted[k], n + 1, R + 1)
           /\ \A k \in Kinds : lines[R + 1] # k =>
                 \A n \in Nat : Cut(accepted[k], n, R) => Cut(accepted[k], n, R + 1)
  <1>1. TypeOK /\ LinesSorted
    BY DEF IInv, Inv
  <1>2. /\ hand["router"] \in Nat \ {0} /\ chan["mhIncoming"] \in Seq(Nat)
        /\ Len(lines) \in Nat
    BY <1>1, Typed, Names
  <1>3. LinePath(hand["router"], chan["mhIncoming"], hand["bridgeIncoming"],
                 chan["incoming"], hand["readLoop"], scanner, Len(lines), R)
    BY DEF ToRouter
  <1>4. /\ hand["router"] = R + 1 /\ R + 1 <= Len(lines)
        /\ LinePath(Empty, chan["mhIncoming"], hand["bridgeIncoming"],
                    chan["incoming"], hand["readLoop"], scanner, Len(lines), R + 1)
    BY <1>2, <1>3, LinePathRouted
  <1> QED BY <1>1, <1>4, CutRouted, CutPassed

\* The router puts a request or a notification before its bridge.
LEMMA RouterPuts ==
    ASSUME IInv, NEW k \in Kinds, NEW b \in AppBridges, NEW R \in Nat,
           ToApp(k, b, R), ToRouter(R), Puts("router", From[b]),
           UNCHANGED <<lines, accepted, got>>
    PROVE  /\ lines[R + 1] = k => ToApp(k, b, R + 1)'
           /\ \A j \in Kinds, a \in AppBridges :
                  a # b /\ ToApp(j, a, R) /\ lines[R + 1] # j => ToApp(j, a, R + 1)'
  <1>1. TypeOK /\ "router" \in Goroutines
    BY Names DEF IInv, Inv
  <1>2. From[b] \in AllChannels /\ To[b] \in AllChannels /\ b \in Goroutines
    BY AppBridgeEnds
  <1>3. /\ hand["router"] \notin {Empty, Exited} /\ hand'["router"] = Empty
        /\ chan'[From[b]] = Append(chan[From[b]], hand["router"])
        /\ \A h \in Goroutines \ {"router"} : hand'[h] = hand[h]
        /\ \A d \in AllChannels \ {From[b]} : chan'[d] = chan[d]
    BY <1>1, <1>2, PutsEffect
  <1>4. hand["router"] = R + 1
    BY <1>3, NextLine
  <1>5. ASSUME lines[R + 1] = k
        PROVE  ToApp(k, b, R + 1)'
    <2>1. /\ chan[From[b]] \in Seq(Nat) /\ chan[To[b]] \in Seq(Nat)
          /\ accepted[k] \in Seq(Nat) /\ got[k] \in Seq(Nat) /\ hand[b] \in Hand
      BY <1>1, <1>2, Typed
    <2>2. AppPath(got[k], chan[To[b]], hand[b], chan[From[b]], accepted[k],
                  hand["router"], R)
      BY DEF ToApp
    <2>3. \A n \in Nat : Cut(accepted[k], n, R) /\ n <= Len(accepted[k]) =>
              /\ n + 1 <= Len(accepted[k]) /\ accepted[k][n + 1] = R + 1
              /\ Cut(accepted[k], n + 1, R + 1)
      BY <1>3, <1>5, NextLine
    <2>4. hand["router"] # Exited
      BY <1>3
    <2>5. \A m : AppPath(got[k], chan[To[b]], hand[b], Append(chan[From[b]], R + 1),
                         accepted[k], m, R + 1)
      BY <2>1, <2>2, <2>3, <2>4, AppPathGets
    <2>6. chan'[To[b]] = chan[To[b]] /\ hand'[b] = hand[b]
      BY <1>2, <1>3, AppBridgeEnds
    <2> QED BY <1>3, <1>4, <2>5, <2>6 DEF ToApp
  <1>6. ASSUME NEW j \in Kinds, NEW a \in AppBridges, a # b, ToApp(j, a, R),
               lines[R + 1] # j
        PROVE  ToApp(j, a, R + 1)'
    <2>1. /\ chan[From[a]] \in Seq(Nat) /\ chan[To[a]] \in Seq(Nat)
          /\ accepted[j] \in Seq(Nat) /\ got[j] \in Seq(Nat) /\ hand[a] \in Hand
      BY <1>1, Typed, AppBridgeEnds
    <2>2. AppPath(got[j], chan[To[a]], hand[a], chan[From[a]], accepted[j],
                  hand["router"], R)
      BY <1>6 DEF ToApp
    <2>3. \A n \in Nat : Cut(accepted[j], n, R) => Cut(accepted[j], n, R + 1)
      BY <1>3, <1>6, NextLine
    <2>4. hand["router"] # Exited
      BY <1>3
    <2>5. \A m : AppPath(got[j], chan[To[a]], hand[a], chan[From[a]],
                         accepted[j], m, R + 1)
      BY <2>1, <2>2, <2>3, <2>4, AppPathPassed
    <2>6. /\ chan'[From[a]] = chan[From[a]] /\ chan'[To[a]] = chan[To[a]]
          /\ hand'[a] = hand[a]
      BY <1>3, <1>6, Ways, Names, AppBridgeEnds DEF AppBridges
    <2> QED BY <2>5, <2>6 DEF ToApp
  <1> QED BY <1>5, <1>6

\* The line is a request or a notification.
LEMMA RouterForwardsStep ==
    ASSUME IInv, NEW k \in Kinds, NEW b \in AppBridges,
           <<k, b>> \in {<<"request", "bridgeRequests">>,
                         <<"notification", "bridgeNotifications">>},
           hand["router"] \notin {Empty, Exited},
           lines[hand["router"]] = k, Puts("router", From[b]),
           UNCHANGED <<scanner, lines, sends, accepted, got, written, broken,
                       ctxDone, closer>>
    PROVE  IInv'
  <1>1. Inv /\ TypeOK /\ "router" \in Goroutines /\ From[b] \in AllChannels
    BY Names, AppBridgeEnds DEF IInv, Inv
  <1>2. /\ hand'["router"] = Empty
        /\ \A h \in Goroutines \ {"router"} : hand'[h] = hand[h]
        /\ \A d \in AllChannels \ {From[b]} : chan'[d] = chan[d]
    BY <1>1, PutsEffect
  <1>3. Inv'
    BY <1>1, PutKeepsInv
  <1>4. /\ \A d \in {"outgoing", "mhOutgoing", "mhIncoming", "incoming"} :
               chan'[d] = chan[d]
        /\ \A h \in {"writeLoop", "bridgeOutgoing", "bridgeIncoming", "readLoop"} :
               hand'[h] = hand[h]
    BY <1>2, Names, Ways DEF AppBridges
  <1>5. Outbound' /\ LinesSorted'
    BY <1>4, OutboundApart, LinesSortedSame DEF IInv
  <1>6. PICK R \in Nat : /\ ToRouter(R)
                         /\ ToCallers(R)
                         /\ ToApp("request", "bridgeRequests", R)
                         /\ ToApp("notification", "bridgeNotifications", R)
    BY Counted
  <1>7. R + 1 \in Nat /\ lines[R + 1] = k
    BY <1>6, NextLine
  <1>8. ToRouter(R + 1)'
    BY <1>2, <1>4, <1>6, NextLine DEF ToRouter
  <1>9. ToCallers(R + 1)'
    <2>1. accepted["response"] \in Seq(Nat) /\ got["response"] \in Seq(Nat)
      BY <1>1, Typed DEF Kinds
    <2>2. \A n \in Nat : Cut(accepted["response"], n, R)
                             => Cut(accepted["response"], n, R + 1)
      BY <1>6, <1>7, NextLine DEF Kinds
    <2>3. CallerPath(got["response"], accepted["response"], hand["router"], R)
      BY <1>6 DEF ToCallers
    <2>4. hand["router"] # Exited
      OBVIOUS
    <2>5. \A m : CallerPath(got["response"], accepted["response"], m, R + 1)
      BY <2>1, <2>2, <2>3, <2>4, CallerPathPassed
    <2> QED BY <2>5 DEF ToCallers
  <1>10. /\ ToApp("request", "bridgeRequests", R + 1)'
         /\ ToApp("notification", "bridgeNotifications", R + 1)'
    BY <1>6, <1>7, RouterPuts DEF AppBridges, Kinds
  <1> QED BY <1>3, <1>5, <1>7, <1>8, <1>9, <1>10 DEF IInv, Inbound

\* The line is a response, the next one of its stream.
LEMMA RouterCorrelatesStep ==
    ASSUME IInv, hand["router"] \notin {Empty, Exited},
           lines[hand["router"]] = "response",
           got' = [got EXCEPT !["response"] = Append(@, hand["router"])],
           hand' = [hand EXCEPT !["router"] = Empty],
           UNCHANGED <<chan, scanner, lines, sends, accepted, written, broken,
                       ctxDone, closer>>
    PROVE  /\ IInv'
           /\ Len(got["response"]) + 1 <= Len(accepted["response"])
           /\ hand["router"] = accepted["response"][Len(got["response"]) + 1]
  <1>1. Inv /\ TypeOK /\ "router" \in Goroutines
    BY Names DEF IInv, Inv
  <1>2. hand["router"] \in Messages
    BY <1>1, Typed
  <1>3. /\ hand'["router"] = Empty
        /\ \A h \in Goroutines \ {"router"} : hand'[h] = hand[h]
        /\ hand' \in [Goroutines -> Messages \cup {Empty, Exited}]
    BY <1>1 DEF TypeOK
  <1>4. /\ got'["response"] = Append(got["response"], hand["router"])
        /\ \A k \in Kinds : k # "response" => got'[k] = got[k]
        /\ got' \in [Kinds -> Seq(Messages)]
    BY <1>1, <1>2 DEF TypeOK, Kinds
  <1>5. Inv'
    <2>1. /\ chan \in [AllChannels -> Seq(Messages)]
          /\ \A d \in AllChannels : Len(chan[d]) <= MessageBuffer
          /\ scanner \in {"scanning", "offering", "failed", "ended"}
          /\ written \in Seq(Messages)
      BY <1>1 DEF TypeOK, AllChannels
    <2>2. \A h \in Waited : hand[h] = Exited => hand'[h] = Exited
      BY <1>3 DEF Goroutines
    <2> QED BY <1>1, <1>3, <1>4, <2>1, <2>2, MoveKeepsInv
  <1>6. \A h \in {"writeLoop", "bridgeOutgoing", "bridgeIncoming", "readLoop"} :
            hand'[h] = hand[h]
    BY <1>3, Names
  <1>7. Outbound' /\ LinesSorted'
    BY <1>6, OutboundApart, LinesSortedSame DEF IInv
  <1>8. PICK R \in Nat : /\ ToRouter(R)
                         /\ ToCallers(R)
                         /\ ToApp("request", "bridgeRequests", R)
                         /\ ToApp("notification", "bridgeNotifications", R)
    BY Counted
  <1>9. /\ R + 1 \in Nat /\ lines[R + 1] = "response" /\ hand["router"] = R + 1
        /\ hand["router"] # Exited
    BY <1>8, NextLine
  <1>10. ToRouter(R + 1)'
    BY <1>3, <1>6, <1>8, NextLine DEF ToRouter
  <1>11. /\ ToCallers(R + 1)'
         /\ Len(got["response"]) + 1 <= Len(accepted["response"])
         /\ hand["router"] = accepted["response"][Len(got["response"]) + 1]
    <2> DEFINE G == got["response"]
               S == accepted["response"]
               r == hand["router"]
    <2>1. S \in Seq(Nat) /\ G \in Seq(Nat)
      BY <1>1, Typed DEF Kinds
    <2>2. \A n \in Nat : Cut(S, n, R) /\ n <= Len(S) =>
              n + 1 <= Len(S) /\ S[n + 1] = R + 1 /\ Cut(S, n + 1, R + 1)
      BY <1>8, <1>9, NextLine DEF Kinds
    <2>3. CallerPath(G, S, r, R) /\ r # Exited
      BY <1>8, <1>9 DEF ToCallers
    <2>4. /\ \A m : CallerPath(Append(G, R + 1), S, m, R + 1)
          /\ Len(G) + 1 <= Len(S) /\ R + 1 = S[Len(G) + 1]
      <3> HIDE DEF G, S, r
      <3> QED BY <2>1, <2>2, <2>3, CallerPathGets
    <2> QED BY <1>4, <1>9, <2>4 DEF ToCallers
  <1>12. ASSUME NEW j \in Kinds, NEW a \in AppBridges, j # "response", ToApp(j, a, R)
         PROVE  ToApp(j, a, R + 1)'
    <2>1. /\ chan[From[a]] \in Seq(Nat) /\ chan[To[a]] \in Seq(Nat)
          /\ accepted[j] \in Seq(Nat) /\ got[j] \in Seq(Nat) /\ hand[a] \in Hand
      BY <1>1, Typed, AppBridgeEnds
    <2>2. AppPath(got[j], chan[To[a]], hand[a], chan[From[a]], accepted[j],
                  hand["router"], R)
      BY <1>12 DEF ToApp
    <2>3. \A n \in Nat : Cut(accepted[j], n, R) => Cut(accepted[j], n, R + 1)
      BY <1>8, <1>9, <1>12, NextLine
    <2>4. \A m : AppPath(got[j], chan[To[a]], hand[a], chan[From[a]],
                         accepted[j], m, R + 1)
      BY <1>9, <2>1, <2>2, <2>3, AppPathPassed
    <2>5. got'[j] = got[j] /\ hand'[a] = hand[a]
      BY <1>3, <1>4, <1>12, AppBridgeEnds
    <2> QED BY <2>4, <2>5 DEF ToApp
  <1>13. /\ ToApp("request", "bridgeRequests", R + 1)'
         /\ ToApp("notification", "bridgeNotifications", R + 1)'
    BY <1>8, <1>12 DEF AppBridges, Kinds
  <1> QED BY <1>5, <1>7, <1>9, <1>10, <1>11, <1>13 DEF IInv, Inbound

\* A line comes in.  One that is too long is in none of the streams.
LEMMA ScansStep ==
    ASSUME IInv, NEW k \in LineKinds, Scans(k), Len(lines) + 1 \in Messages
    PROVE  /\ IInv'
           /\ \A j \in Kinds : \/ accepted'[j] = accepted[j]
                               \/ accepted'[j] = Append(accepted[j], Len(lines) + 1)
  <1> DEFINE m == Len(lines) + 1
  <1>1. /\ Inv /\ TypeOK /\ LinesSorted /\ scanner = "scanning"
        /\ lines \in Seq(LineKinds) /\ lines' = Append(lines, k)
        /\ UNCHANGED <<hand, chan, sends, got, written, broken, ctxDone, closer>>
    BY DEF IInv, Inv, TypeOK, Scans
  <1>2. /\ Len(lines) \in Nat /\ m \in Nat /\ Len(lines') = m
        /\ lines' \in Seq(LineKinds)
        /\ \A i \in 1 .. Len(lines) : lines'[i] = lines[i]
        /\ lines'[m] = k
    BY <1>1
  <1>3. /\ k = "long" => scanner' = "failed" /\ UNCHANGED accepted
        /\ k # "long" => /\ scanner' = "offering" /\ k \in Kinds
                         /\ accepted' = [accepted EXCEPT ![k] = Append(@, m)]
    BY <1>2 DEF Scans, LineKinds
  <1>4. scanner' \in {"offering", "failed"}
    BY <1>3
  <1>5. accepted \in [Kinds -> Seq(Messages)]
    BY <1>1 DEF TypeOK
  <1>6. /\ accepted' \in [Kinds -> Seq(Messages)]
        /\ \A j \in Kinds : j # k => accepted'[j] = accepted[j]
        /\ k \in Kinds => accepted'[k] = Append(accepted[k], m)
    <2>1. CASE k = "long"
      BY <1>3, <1>5, <2>1 DEF Kinds
    <2>2. CASE k # "long"
      <3>1. Append(accepted[k], m) \in Seq(Messages)
        BY <1>3, <1>5, <2>2
      <3> QED BY <1>3, <1>5, <2>2, <3>1
    <2> QED BY <2>1, <2>2
  <1>7. \A j \in Kinds : /\ accepted[j] \in Seq(Nat) /\ Len(accepted[j]) \in Nat
                         /\ got[j] \in Seq(Nat)
    <2> SUFFICES ASSUME NEW j \in Kinds
                 PROVE  accepted[j] \in Seq(Nat) /\ Len(accepted[j]) \in Nat
                        /\ got[j] \in Seq(Nat)
      OBVIOUS
    <2>1. accepted[j] \in Seq(Nat) /\ got[j] \in Seq(Nat)
      BY <1>1, Typed
    <2> QED BY <2>1
  <1>8. Inv'
    <2>1. TypeOK'
      BY <1>1, <1>2, <1>4, <1>6 DEF TypeOK
    <2>2. NoSendOnClosedChannel'
      BY <1>1 DEF Inv, NoSendOnClosedChannel
    <2> QED BY <2>1, <2>2 DEF Inv
  <1>9. Outbound'
    BY <1>1, OutboundApart
  <1>10. LinesSorted'
    <2>1. ASSUME NEW j \in Kinds, j # k
          PROVE  /\ \A i \in 1 .. Len(accepted'[j]) :
                        /\ accepted'[j][i] \in 1 .. m
                        /\ lines'[accepted'[j][i]] = j
                 /\ \A h, i \in 1 .. Len(accepted'[j]) :
                        h < i => accepted'[j][h] < accepted'[j][i]
                 /\ \A l \in 1 .. m : lines'[l] = j =>
                        \E i \in 1 .. Len(accepted'[j]) : accepted'[j][i] = l
      <3>1. /\ \A i \in 1 .. Len(accepted[j]) : /\ accepted[j][i] \in 1 .. Len(lines)
                                                /\ lines[accepted[j][i]] = j
            /\ \A h, i \in 1 .. Len(accepted[j]) :
                   h < i => accepted[j][h] < accepted[j][i]
            /\ \A l \in 1 .. Len(lines) : lines[l] = j =>
                   \E i \in 1 .. Len(accepted[j]) : accepted[j][i] = l
        BY <1>1 DEF LinesSorted
      <3>2. accepted'[j] = accepted[j]
        BY <1>6, <2>1
      <3>3. \A l \in 1 .. m : l \in 1 .. Len(lines) \/ l = m
        BY <1>2
      <3> QED BY <1>2, <2>1, <3>1, <3>2, <3>3
    <2>2. ASSUME k \in Kinds
          PROVE  /\ \A i \in 1 .. Len(accepted'[k]) :
                        /\ accepted'[k][i] \in 1 .. m
                        /\ lines'[accepted'[k][i]] = k
                 /\ \A h, i \in 1 .. Len(accepted'[k]) :
                        h < i => accepted'[k][h] < accepted'[k][i]
                 /\ \A l \in 1 .. m : lines'[l] = k =>
                        \E i \in 1 .. Len(accepted'[k]) : accepted'[k][i] = l
      <3> DEFINE S == accepted[k]
                 T == accepted'[k]
      <3>1. /\ \A i \in 1 .. Len(S) : S[i] \in 1 .. Len(lines) /\ lines[S[i]] = k
            /\ \A h, i \in 1 .. Len(S) : h < i => S[h] < S[i]
            /\ \A l \in 1 .. Len(lines) : lines[l] = k =>
                   \E i \in 1 .. Len(S) : S[i] = l
        BY <1>1, <2>2 DEF LinesSorted
      <3>2. S \in Seq(Nat) /\ T = Append(S, m)
        BY <1>6, <1>7, <2>2
      <3> HIDE DEF S, T
      <3>3. /\ Len(T) = Len(S) + 1 /\ Len(S) \in Nat
            /\ \A i \in 1 .. Len(S) : T[i] = S[i]
            /\ T[Len(S) + 1] = m
        BY <1>2, <3>2
      <3>4. \A i \in 1 .. Len(T) : i \in 1 .. Len(S) \/ i = Len(S) + 1
        BY <3>3
      <3>5. \A i \in 1 .. Len(T) : T[i] \in 1 .. m /\ lines'[T[i]] = k
        BY <1>2, <3>1, <3>3, <3>4
      <3>6. \A h, i \in 1 .. Len(T) : h < i => T[h] < T[i]
        <4> SUFFICES ASSUME NEW h \in 1 .. Len(T), NEW i \in 1 .. Len(T), h < i
                     PROVE  T[h] < T[i]
          OBVIOUS
        <4>1. h \in 1 .. Len(S)
          BY <3>3
        <4>2. CASE i \in 1 .. Len(S)
          BY <3>1, <3>3, <4>1, <4>2
        <4>3. CASE i = Len(S) + 1
          <5>1. T[h] \in 1 .. Len(lines) /\ T[i] = m
            BY <3>1, <3>3, <4>1, <4>3
          <5> QED BY <1>2, <5>1
        <4> QED BY <3>4, <4>2, <4>3
      <3>7. \A l \in 1 .. m : lines'[l] = k => \E i \in 1 .. Len(T) : T[i] = l
        <4> SUFFICES ASSUME NEW l \in 1 .. m, lines'[l] = k
                     PROVE  \E i \in 1 .. Len(T) : T[i] = l
          OBVIOUS
        <4>1. CASE l = m
          <5>1. Len(S) + 1 \in 1 .. Len(T)
            BY <3>3
          <5> QED BY <3>3, <4>1, <5>1
        <4>2. CASE l # m
          <5>1. l \in 1 .. Len(lines)
            BY <1>2, <4>2
          <5>2. PICK i \in 1 .. Len(S) : S[i] = l
            BY <1>2, <3>1, <5>1
          <5>3. i \in 1 .. Len(T)
            BY <3>3
          <5> QED BY <3>3, <5>2, <5>3
        <4> QED BY <4>1, <4>2
      <3> QED BY <3>5, <3>6, <3>7 DEF S, T
    <2>3. ASSUME NEW j \in Kinds
          PROVE  /\ \A i \in 1 .. Len(accepted'[j]) :
                        /\ accepted'[j][i] \in 1 .. m
                        /\ lines'[accepted'[j][i]] = j
                 /\ \A h, i \in 1 .. Len(accepted'[j]) :
                        h < i => accepted'[j][h] < accepted'[j][i]
                 /\ \A l \in 1 .. m : lines'[l] = j =>
                        \E i \in 1 .. Len(accepted'[j]) : accepted'[j][i] = l
      <3>1. CASE j = k
        BY <2>2, <2>3, <3>1
      <3>2. CASE j # k
        BY <2>1, <3>2
      <3> QED BY <3>1, <3>2
    <2>4. Len(lines') = m /\ m \in Messages
      BY <1>2
    <2> HIDE DEF m
    <2> QED BY <2>3, <2>4 DEF LinesSorted
  <1>11. PICK R \in Nat : /\ ToRouter(R)
                          /\ ToCallers(R)
                          /\ ToApp("request", "bridgeRequests", R)
                          /\ ToApp("notification", "bridgeNotifications", R)
    BY Counted
  <1>12. ToRouter(R)' /\ (hand["router"] # Exited => R < m)
    <2>1. /\ hand["router"] \in Hand /\ chan["mhIncoming"] \in Seq(Nat)
          /\ hand["bridgeIncoming"] \in Hand /\ chan["incoming"] \in Seq(Nat)
          /\ hand["readLoop"] \in Hand
      BY <1>1, Typed, Names
    <2>2. LinePath(hand["router"], chan["mhIncoming"], hand["bridgeIncoming"],
                   chan["incoming"], hand["readLoop"], "scanning", Len(lines), R)
      BY <1>1, <1>11 DEF ToRouter
    <2>3. /\ \A sc \in {"offering", "failed"} :
                 LinePath(hand["router"], chan["mhIncoming"], hand["bridgeIncoming"],
                          chan["incoming"], hand["readLoop"], sc, m, R)
          /\ hand["router"] # Exited => R < m
      BY <1>2, <2>1, <2>2, LinePathLonger
    <2> QED BY <1>1, <1>2, <1>4, <2>3 DEF ToRouter
  <1>13. ToCallers(R)'
    <2> DEFINE j == "response"
    <2>1. CallerPath(got[j], accepted[j], hand["router"], R)
      BY <1>11 DEF ToCallers
    <2>2. accepted[j] \in Seq(Nat) /\ got[j] \in Seq(Nat)
      BY <1>7 DEF Kinds
    <2>3. CallerPath(got[j], Append(accepted[j], m), hand["router"], R)
      BY <1>2, <1>12, <2>1, <2>2, CallerPathLonger
    <2>4. accepted'[j] = accepted[j] \/ accepted'[j] = Append(accepted[j], m)
      BY <1>6 DEF Kinds
    <2> QED BY <1>1, <2>1, <2>3, <2>4 DEF ToCallers
  <1>14. ASSUME NEW j \in Kinds, NEW b \in AppBridges, ToApp(j, b, R)
         PROVE  ToApp(j, b, R)'
    <2>1. AppPath(got[j], chan[To[b]], hand[b], chan[From[b]], accepted[j],
                  hand["router"], R)
      BY <1>14 DEF ToApp
    <2>2. /\ chan[From[b]] \in Seq(Nat) /\ chan[To[b]] \in Seq(Nat)
          /\ accepted[j] \in Seq(Nat) /\ got[j] \in Seq(Nat) /\ hand[b] \in Hand
      BY <1>1, Typed, AppBridgeEnds
    <2>3. AppPath(got[j], chan[To[b]], hand[b], chan[From[b]],
                  Append(accepted[j], m), hand["router"], R)
      BY <1>2, <1>12, <2>1, <2>2, AppPathLonger
    <2>4. accepted'[j] = accepted[j] \/ accepted'[j] = Append(accepted[j], m)
      BY <1>6
    <2> QED BY <1>1, <2>1, <2>3, <2>4 DEF ToApp
  <1>15. /\ ToApp("request", "bridgeRequests", R)'
         /\ ToApp("notification", "bridgeNotifications", R)'
    BY <1>11, <1>14 DEF AppBridges, Kinds
  <1>16. IInv'
    BY <1>8, <1>9, <1>10, <1>12, <1>13, <1>15 DEF IInv, Inbound
  <1> QED BY <1>6, <1>16

(***************************************************************************)
(* Every step                                                              *)
(***************************************************************************)

\* What a transport may do, alone or over a child process.
TransportStep ==
    \/ \E k \in LineKinds : Len(lines) + 1 \in Messages /\ Scans(k)
    \/ ReadLoop
    \/ Router
    \/ \E g \in Bridges : Bridge(g)
    \/ \E g \in Goroutines : SeesDone(g)
    \/ \E k \in {"request", "notification"} : AppReceives(k)
    \/ sends + 1 \in Messages /\ Accepts
    \/ WriteLoopTakes
    \/ WriteLoopWrites
    \/ WriteLoopFails
    \/ CloseCancels
    \/ CloseChannels
    \/ /\ ctxDone' = TRUE
       /\ UNCHANGED <<scanner, lines, hand, chan, sends, accepted, got, written,
                      broken, closer>>

\* A step of OrderedStream from stream S, of which T is delivered, to S2 and T2.
Moves(S, T, S2, T2) ==
    \/ S2 = S /\ T2 = T
    \/ (\E m \in Messages : S2 = Append(S, m)) /\ T2 = T
    \/ Len(T) < Len(S) /\ T2 = Append(T, S[Len(T) + 1]) /\ S2 = S

StreamsMove ==
    /\ \A k \in Kinds : Moves(accepted[k], got[k], accepted'[k], got'[k])
    /\ Moves(Numbers(sends), written, Numbers(sends'), written')

\* The numbers of messages have no gaps.
LEMMA MessagesDown ==
    ASSUME NEW m \in Messages, NEW j \in Nat \ {0}, j <= m
    PROVE  j \in Messages
  <1>1. PICK w \in Workloads : m \in 1 .. (w.sends + Len(w.lines))
    BY DEF Messages
  <1>2. w.sends + Len(w.lines) \in Nat
    BY ConstantsAssumption
  <1>3. j \in 1 .. (w.sends + Len(w.lines))
    BY <1>1, <1>2
  <1> QED BY <1>3 DEF Messages

LEMMA InitHolds == Init => IInv
  <1> SUFFICES ASSUME Init PROVE IInv
    OBVIOUS
  <1>1. /\ \A g \in Goroutines : hand[g] = Empty
        /\ \A c \in AllChannels : chan[c] = <<>>
        /\ \A k \in Kinds : accepted[k] = <<>> /\ got[k] = <<>>
        /\ lines = <<>> /\ sends = 0 /\ written = <<>> /\ scanner = "scanning"
    BY DEF Init, AllChannels
  <1>2. Inv
    <2>1. TypeOK
      <3>1. /\ <<>> \in Seq(LineKinds) /\ <<>> \in Seq(Messages)
            /\ Len(<<>>) <= MessageBuffer
        BY ConstantsAssumption
      <3>2. /\ hand \in [Goroutines -> Messages \cup {Empty, Exited}]
            /\ chan \in [HandlerChannels \cup TransportChannels -> Seq(Messages)]
            /\ accepted \in [Kinds -> Seq(Messages)]
            /\ got \in [Kinds -> Seq(Messages)]
        BY <3>1 DEF Init
      <3>3. \A c \in DOMAIN chan : Len(chan[c]) <= MessageBuffer
        BY <3>1 DEF Init
      <3> QED BY <3>1, <3>2, <3>3 DEF Init, TypeOK
    <2> QED BY <2>1 DEF Inv, NoSendOnClosedChannel, Init
  <1>3. /\ hand["router"] = Empty /\ hand["readLoop"] = Empty
        /\ hand["writeLoop"] = Empty /\ hand["bridgeIncoming"] = Empty
        /\ hand["bridgeOutgoing"] = Empty /\ hand["bridgeRequests"] = Empty
        /\ hand["bridgeNotifications"] = Empty
        /\ chan["incoming"] = <<>> /\ chan["outgoing"] = <<>>
        /\ chan["mhIncoming"] = <<>> /\ chan["mhOutgoing"] = <<>>
    BY <1>1, Names
  <1>4. /\ Carries(<<>>, <<>>, 0) /\ Behind(Empty, <<>>, <<>>, 0)
        /\ End(Empty, <<>>, 0) = 0 /\ Cut(<<>>, 0, 0) /\ Holds(Empty, <<>>, 0)
        /\ Numbers(0) = <<>>
    BY DEF Carries, Behind, End, Cut, Holds, Count, Empty, Numbers
  <1>5. Outbound
    BY <1>1, <1>3, <1>4 DEF Outbound, OutPath
  <1>6. LinesSorted
    BY <1>1 DEF LinesSorted
  <1>7. ToRouter(0)
    BY <1>1, <1>3, <1>4 DEF ToRouter, LinePath, Count
  <1>8. ToCallers(0)
    BY <1>1, <1>4 DEF ToCallers, CallerPath, Kinds
  <1>9. /\ ToApp("request", "bridgeRequests", 0)
        /\ ToApp("notification", "bridgeNotifications", 0)
    <2>1. ASSUME NEW k \in Kinds, NEW b \in AppBridges
          PROVE  ToApp(k, b, 0)
      <3>1. /\ b \in Goroutines /\ From[b] \in AllChannels /\ To[b] \in AllChannels
        BY AppBridgeEnds
      <3>2. /\ hand[b] = Empty /\ chan[To[b]] = <<>> /\ chan[From[b]] = <<>>
            /\ accepted[k] = <<>> /\ got[k] = <<>>
        BY <1>1, <3>1
      <3> QED BY <1>4, <3>2 DEF ToApp, AppPath
    <2> QED BY <2>1 DEF Kinds, AppBridges
  <1> QED BY <1>2, <1>5, <1>6, <1>7, <1>8, <1>9 DEF IInv, Inbound

\* A step that changes neither end of a stream.
LEMMA Quiet ==
    ASSUME UNCHANGED <<accepted, got, sends, written>>
    PROVE  StreamsMove
  BY DEF StreamsMove, Moves

\* The router forwards a line, or hands it to the correlation of responses.
LEMMA RouterRoutesStep ==
    ASSUME IInv, RouterRoutes
    PROVE  IInv' /\ StreamsMove
  <1> DEFINE m == hand["router"]
  <1>1. /\ TypeOK /\ m \notin {Empty, Exited}
        /\ UNCHANGED <<scanner, lines, sends, accepted, written, broken,
                       ctxDone, closer>>
    BY DEF IInv, Inv, RouterRoutes
  <1>2. /\ From["bridgeRequests"] = "mhRequests"
        /\ From["bridgeNotifications"] = "mhNotifications"
    BY DEF From
  <1>3. CASE lines[m] = "request" /\ Puts("router", "mhRequests") /\ UNCHANGED got
    <2>1. IInv'
      BY <1>1, <1>2, <1>3, RouterForwardsStep DEF Kinds, AppBridges
    <2> QED BY <1>1, <1>3, <2>1, Quiet
  <1>4. CASE /\ lines[m] = "notification" /\ Puts("router", "mhNotifications")
             /\ UNCHANGED got
    <2>1. IInv'
      BY <1>1, <1>2, <1>4, RouterForwardsStep DEF Kinds, AppBridges
    <2> QED BY <1>1, <1>4, <2>1, Quiet
  <1>5. CASE /\ lines[m] = "response"
             /\ got' = [got EXCEPT !["response"] = Append(@, m)]
             /\ hand' = [hand EXCEPT !["router"] = Empty]
             /\ UNCHANGED chan
    <2>1. /\ IInv'
          /\ Len(got["response"]) + 1 <= Len(accepted["response"])
          /\ m = accepted["response"][Len(got["response"]) + 1]
      BY <1>1, <1>5, RouterCorrelatesStep
    <2>2. \A k \in Kinds : Moves(accepted[k], got[k], accepted'[k], got'[k])
      <3> SUFFICES ASSUME NEW k \in Kinds
                   PROVE  Moves(accepted[k], got[k], accepted'[k], got'[k])
        OBVIOUS
      <3>1. got \in [Kinds -> Seq(Messages)] /\ accepted'[k] = accepted[k]
        BY <1>1 DEF TypeOK
      <3>2. CASE k = "response"
        <4>1. got'[k] = Append(got[k], m)
          BY <1>5, <3>1, <3>2
        <4>2. Len(got[k]) \in Nat /\ Len(accepted[k]) \in Nat
          BY <1>1 DEF TypeOK
        <4> QED BY <2>1, <3>1, <3>2, <4>1, <4>2 DEF Moves
      <3>3. CASE k # "response"
        BY <1>5, <3>1, <3>3 DEF Moves
      <3> QED BY <3>2, <3>3
    <2> QED BY <1>1, <2>1, <2>2 DEF StreamsMove, Moves
  <1> QED BY <1>3, <1>4, <1>5 DEF RouterRoutes

\* Whatever a transport does keeps it in order, and moves each of its streams as
\* OrderedStream allows.
LEMMA TransportStepHolds ==
    ASSUME IInv, TransportStep
    PROVE  IInv' /\ StreamsMove
  <1>0. TypeOK
    BY DEF IInv, Inv
  <1>1. ASSUME NEW k \in LineKinds, Len(lines) + 1 \in Messages, Scans(k)
        PROVE  IInv' /\ StreamsMove
    <2>1. /\ IInv'
          /\ \A j \in Kinds : \/ accepted'[j] = accepted[j]
                              \/ accepted'[j] = Append(accepted[j], Len(lines) + 1)
      BY <1>1, ScansStep
    <2>2. UNCHANGED <<got, sends, written>>
      BY <1>1 DEF Scans
    <2> QED BY <1>1, <2>1, <2>2 DEF StreamsMove, Moves
  <1>2. CASE ReadLoop
    <2>1. UNCHANGED <<accepted, got, sends, written>>
      BY <1>2 DEF ReadLoop, ScannerEnds, ReadLoopTakes, ReadLoopPuts, ReadLoopEnds
    <2> QED BY <1>2, <2>1, Quiet, ScannerEndsStep, ReadLoopTakesStep,
               ReadLoopPutsStep, ReadLoopEndsStep DEF ReadLoop
  <1>3. CASE Router
    <2>1. CASE RouterTakes
      <3>1. UNCHANGED <<accepted, got, sends, written>>
        BY <2>1 DEF RouterTakes
      <3> QED BY <2>1, <3>1, Quiet, RouterTakesStep
    <2> QED BY <1>3, <2>1, RouterRoutesStep DEF Router
  <1>4. ASSUME NEW g \in Bridges, Bridge(g)
        PROVE  IInv' /\ StreamsMove
    <2>1. UNCHANGED <<accepted, got, sends, written>>
      BY <1>4 DEF Bridge, BridgeTakes, BridgePuts
    <2>2. g \in AppBridges \/ g = "bridgeIncoming" \/ g = "bridgeOutgoing"
      BY DEF Bridges, AppBridges
    <2>3. ASSUME BridgeTakes(g)
          PROVE  IInv'
      <3>1. CASE g \in AppBridges
        BY <2>3, <3>1, AppBridgeTakesStep
      <3>2. CASE g = "bridgeIncoming"
        BY <2>3, <3>2, BridgeIncomingTakesStep
      <3>3. CASE g = "bridgeOutgoing"
        BY <2>3, <3>3, BridgeOutgoingTakesStep
      <3> QED BY <2>2, <3>1, <3>2, <3>3
    <2>4. ASSUME BridgePuts(g)
          PROVE  IInv'
      <3>1. CASE g \in AppBridges
        BY <2>4, <3>1, AppBridgePutsStep
      <3>2. CASE g = "bridgeIncoming"
        BY <2>4, <3>2, BridgeIncomingPutsStep
      <3>3. CASE g = "bridgeOutgoing"
        BY <2>4, <3>3, BridgeOutgoingPutsStep
      <3> QED BY <2>2, <3>1, <3>2, <3>3
    <2>5. IInv'
      BY <1>4, <2>3, <2>4 DEF Bridge
    <2> QED BY <2>1, <2>5, Quiet
  <1>5. ASSUME NEW g \in Goroutines, SeesDone(g)
        PROVE  IInv' /\ StreamsMove
    <2>1. UNCHANGED <<accepted, got, sends, written>>
      BY <1>5 DEF SeesDone
    <2> QED BY <1>5, <2>1, Quiet, SeesDoneStep
  <1>6. ASSUME NEW k \in {"request", "notification"}, AppReceives(k)
        PROVE  IInv' /\ StreamsMove
    <2>1. /\ IInv'
          /\ Len(got[k]) + 1 <= Len(accepted[k])
          /\ got' = [got EXCEPT ![k] = Append(@, accepted[k][Len(got[k]) + 1])]
      BY <1>6, AppReceivesStep
    <2>2. UNCHANGED <<accepted, sends, written>>
      BY <1>6 DEF AppReceives
    <2>3. \A j \in Kinds : Moves(accepted[j], got[j], accepted'[j], got'[j])
      <3> SUFFICES ASSUME NEW j \in Kinds
                   PROVE  Moves(accepted[j], got[j], accepted'[j], got'[j])
        OBVIOUS
      <3>1. got \in [Kinds -> Seq(Messages)] /\ accepted'[j] = accepted[j]
        BY <1>0, <2>2 DEF TypeOK
      <3>2. CASE j = k
        <4>1. got'[j] = Append(got[j], accepted[j][Len(got[j]) + 1])
          BY <2>1, <3>1, <3>2
        <4>2. Len(got[j]) \in Nat /\ Len(accepted[j]) \in Nat
          BY <1>0 DEF TypeOK
        <4> QED BY <2>1, <3>1, <3>2, <4>1, <4>2 DEF Moves
      <3>3. CASE j # k
        BY <2>1, <3>1, <3>3 DEF Moves
      <3> QED BY <3>2, <3>3
    <2> QED BY <2>1, <2>2, <2>3 DEF StreamsMove, Moves
  <1>7. CASE sends + 1 \in Messages /\ Accepts
    <2>1. IInv' /\ Numbers(sends') = Append(Numbers(sends), sends + 1)
      BY <1>7, AcceptsStep
    <2>2. UNCHANGED <<accepted, got, written>>
      BY <1>7 DEF Accepts
    <2> QED BY <1>7, <2>1, <2>2 DEF StreamsMove, Moves
  <1>8. CASE WriteLoopTakes
    <2>1. UNCHANGED <<accepted, got, sends, written>>
      BY <1>8 DEF WriteLoopTakes
    <2> QED BY <1>8, <2>1, Quiet, WriteLoopTakesStep
  <1>9. CASE WriteLoopWrites
    <2>1. /\ IInv' /\ Len(written) + 1 <= sends
          /\ written' = Append(written, Numbers(sends)[Len(written) + 1])
      BY <1>9, WriteLoopWritesStep
    <2>2. UNCHANGED <<accepted, got, sends>>
      BY <1>9 DEF WriteLoopWrites
    <2>3. sends \in Nat /\ Len(written) \in Nat
      BY <1>0 DEF TypeOK
    <2>4. Len(written) < Len(Numbers(sends))
      BY <2>1, <2>3, NumbersType
    <2> QED BY <2>1, <2>2, <2>4 DEF StreamsMove, Moves
  <1>10. CASE WriteLoopFails
    <2>1. UNCHANGED <<accepted, got, sends, written>>
      BY <1>10 DEF WriteLoopFails
    <2> QED BY <1>10, <2>1, Quiet, WriteLoopFailsStep
  <1>11. CASE \/ CloseCancels
              \/ CloseChannels
              \/ /\ ctxDone' = TRUE
                 /\ UNCHANGED <<scanner, lines, hand, chan, sends, accepted, got,
                                written, broken, closer>>
    <2>1. UNCHANGED <<accepted, got, sends, written>>
      BY <1>11 DEF CloseCancels, CloseChannels
    <2> QED BY <1>11, <2>1, Quiet, ClosingStep
  <1> QED BY <1>1, <1>2, <1>3, <1>4, <1>5, <1>6, <1>7, <1>8, <1>9, <1>10, <1>11
          DEF TransportStep

LEMMA StutterHolds ==
    ASSUME IInv, UNCHANGED vars
    PROVE  IInv' /\ StreamsMove
  <1>1. /\ UNCHANGED <<scanner, lines, chan, sends, accepted, got, written,
                       broken, hand, ctxDone, closer>>
    BY DEF vars
  <1>2. IInv'
    <2>1. /\ hand \in [Goroutines -> Messages \cup {Empty, Exited}]
          /\ ctxDone \in BOOLEAN
      BY DEF IInv, Inv, TypeOK
    <2> QED BY <1>1, <2>1, EndingStep
  <1> QED BY <1>1, <1>2, Quiet

(***************************************************************************)
(* The child process                                                       *)
(***************************************************************************)

\* What keeps NoOrphan and OneLeftWaiting: a child that has been reaped is gone,
\* by whichever Wait, cleanup's waits only when Close has come to it, and a result
\* that was sent went to a Wait that has returned.
WaitsSound ==
    /\ reaped => child = "exited"
    /\ \A w \in Waiters : wait[w] \in {"result", "returned"} => child = "exited"
    /\ stage \in {"none", "transport"} => wait["cleanup"] = "none"
    /\ watcher = "sent" => \E w \in Waiters : wait[w] = "returned"

\* With what the transport's steps need to know of the process.
ProcessIInv ==
    /\ ProcessTypeOK
    /\ NoOrphan
    /\ WaitsSound
    /\ printed # <<>> => Len(printed) \in Messages

ProcessStep == \/ TransportStep
               \/ UNCHANGED vars

\* What a process has its transport do is what a transport may do.
LEMMA ProcessNextIsTransportStep ==
    ASSUME IInv, ProcessIInv, ProcessNext
    PROVE  ProcessStep
  <1>1. /\ lines \in Seq(LineKinds) /\ sends \in Nat /\ printed \in Seq(LineKinds)
    BY DEF IInv, Inv, TypeOK, ProcessIInv, ProcessTypeOK
  <1>2. CASE Next
    <2>1. ASSUME NEW k \in LineKinds, InWorkload(Append(lines, k), sends), Scans(k)
          PROVE  Len(lines) + 1 \in Messages
      <3>1. PICK w \in Workloads : Len(Append(lines, k)) <= Len(w.lines)
        BY <2>1 DEF InWorkload
      <3>2. Len(w.lines) \in Nat /\ w.sends \in Nat
        BY ConstantsAssumption
      <3>3. Len(lines) + 1 \in 1 .. (w.sends + Len(w.lines))
        BY <1>1, <3>1, <3>2
      <3> QED BY <3>3 DEF Messages
    <2>2. ASSUME Sends
          PROVE  sends + 1 \in Messages
      <3>1. PICK w \in Workloads : sends + 1 <= w.sends
        BY <2>2 DEF Sends, InWorkload
      <3>2. Len(w.lines) \in Nat /\ w.sends \in Nat
        BY ConstantsAssumption
      <3>3. sends + 1 \in 1 .. (w.sends + Len(w.lines))
        BY <1>1, <3>1, <3>2
      <3> QED BY <3>3 DEF Messages
    <2> QED BY <1>2, <2>1, <2>2 DEF Next, ProcessStep, TransportStep, ScannerScans,
               Sends, ParentCancelled
  <1>3. CASE GoroutineSteps
    BY <1>3 DEF GoroutineSteps, ProcessStep, TransportStep
  <1>4. CASE ScansOutput
    <2>1. /\ Len(lines) < Len(printed) /\ Scans(printed[Len(lines) + 1])
      BY <1>4 DEF ScansOutput
    <2>2. /\ Len(lines) \in Nat /\ Len(printed) \in Nat /\ printed # <<>>
          /\ printed[Len(lines) + 1] \in LineKinds
      BY <1>1, <2>1
    <2>3. Len(printed) \in Messages
      BY <2>2 DEF ProcessIInv
    <2>4. Len(lines) + 1 \in Messages
      BY <2>1, <2>2, <2>3, MessagesDown
    <2> QED BY <2>1, <2>2, <2>4 DEF ProcessStep, TransportStep
  <1>5. CASE ReadsPipe
    BY <1>5 DEF ReadsPipe, ReadLoop, ProcessStep, TransportStep
  <1>6. CASE WritesPipe
    BY <1>6 DEF WritesPipe, ProcessStep, TransportStep
  <1>7. CASE SendsToChild
    <2>1. PICK w \in ChildWorkloads : sends + 1 <= w.sends
      BY <1>7 DEF SendsToChild, InChildWorkload
    <2>2. /\ Len(w.lines) \in Nat /\ w.sends \in Nat
          /\ 1 .. (w.sends + Len(w.lines)) \subseteq Messages
      BY ChildAssumption
    <2>3. sends + 1 \in 1 .. (w.sends + Len(w.lines))
      BY <1>1, <2>1, <2>2
    <2> QED BY <1>7, <2>2, <2>3 DEF SendsToChild, ProcessStep, TransportStep
  <1>8. CASE ContextCancelled
    BY <1>8 DEF ContextCancelled, ProcessStep, TransportStep
  <1>9. CASE CloseBegins
    BY <1>9 DEF CloseBegins, ProcessStep, TransportStep
  <1>10. CASE \/ ChildPrints \/ ChildExits \/ Start \/ WaitBegins \/ Cleanup
              \/ \E w \in Waiters : WaitStep(w)
    BY <1>10 DEF ChildPrints, ChildExits, Start, WaitBegins, Cleanup, CleanupSignals,
       CleanupKills, CleanupEnds, WaitStep, WaitChecks, WaitReaps, WaitReturns,
       ProcessStep
  <1> QED BY <1>2, <1>3, <1>4, <1>5, <1>6, <1>7, <1>8, <1>9, <1>10 DEF ProcessNext

\* What a child prints has the numbers of messages.
LEMMA PrintsNumbers ==
    ASSUME ProcessTypeOK, ChildPrints
    PROVE  printed' \in Seq(LineKinds) /\ Len(printed') \in Messages
  <1>1. PICK k \in LineKinds : /\ InChildWorkload(Append(printed, k), sends)
                               /\ printed' = Append(printed, k)
    BY DEF ChildPrints
  <1>2. printed \in Seq(LineKinds)
    BY DEF ProcessTypeOK
  <1>3. PICK w \in ChildWorkloads : Len(printed') <= Len(w.lines)
    BY <1>1 DEF InChildWorkload
  <1>4. /\ Len(w.lines) \in Nat /\ w.sends \in Nat
        /\ 1 .. (w.sends + Len(w.lines)) \subseteq Messages
    BY ChildAssumption
  <1>5. /\ printed' \in Seq(LineKinds) /\ Len(printed') = Len(printed) + 1
        /\ Len(printed) \in Nat
    BY <1>1, <1>2
  <1>6. Len(printed') \in 1 .. (w.sends + Len(w.lines))
    BY <1>3, <1>4, <1>5
  <1> QED BY <1>4, <1>5, <1>6

\* A call of cmd.Wait neither leaves a child behind nor takes two results.
LEMMA WaitStepHolds ==
    ASSUME ProcessIInv, NEW w \in Waiters, WaitStep(w)
    PROVE  ProcessIInv'
  <1>1. /\ ProcessTypeOK /\ NoOrphan /\ WaitsSound
        /\ printed # <<>> => Len(printed) \in Messages
        /\ UNCHANGED <<spawned, child, printed, cmd, stage, parentDone>>
    BY DEF ProcessIInv, WaitStep, WaitChecks, WaitReaps, WaitReturns
  <1>2. CASE WaitChecks(w)
    BY <1>1, <1>2 DEF WaitChecks, ProcessIInv, ProcessTypeOK, NoOrphan, IsRunning,
       WaitsSound
  <1>3. CASE WaitReaps(w)
    <2>1. /\ wait[w] = "reaping" /\ child = "exited" /\ reaped' \in BOOLEAN
          /\ UNCHANGED <<pipesOpen, watcher>>
      BY <1>3 DEF WaitReaps
    <2>2. /\ wait' \in [Waiters -> {"none", "called", "reaping", "result", "returned"}]
          /\ \A v \in Waiters : wait'[v] = IF v = w THEN "result" ELSE wait[v]
      BY <1>1, <1>3 DEF WaitReaps, ProcessTypeOK
    <2>3. ProcessTypeOK' /\ NoOrphan'
      BY <1>1, <2>1, <2>2 DEF ProcessTypeOK, NoOrphan
    <2>4. WaitsSound'
      BY <1>1, <2>1, <2>2 DEF WaitsSound, Waiters
    <2> QED BY <1>1, <2>3, <2>4 DEF ProcessIInv
  <1>4. CASE WaitReturns(w)
    <2>1. /\ wait[w] = "result" /\ child = "exited" /\ pipesOpen' = FALSE
          /\ watcher' \in {"none", "watching", "sent"} /\ reaped' = reaped
      BY <1>1, <1>4 DEF WaitReturns, WaitsSound
    <2>2. /\ wait' \in [Waiters -> {"none", "called", "reaping", "result", "returned"}]
          /\ \A v \in Waiters : wait'[v] = IF v = w THEN "returned" ELSE wait[v]
      BY <1>1, <1>4 DEF WaitReturns, ProcessTypeOK
    <2>3. ProcessTypeOK' /\ NoOrphan'
      BY <1>1, <2>1, <2>2 DEF ProcessTypeOK, NoOrphan
    <2>4. WaitsSound'
      BY <1>1, <2>1, <2>2 DEF WaitsSound, Waiters
    <2> QED BY <1>1, <2>3, <2>4 DEF ProcessIInv
  <1> QED BY <1>2, <1>3, <1>4 DEF WaitStep

\* No step leaves a child behind.
LEMMA ProcessStepHolds ==
    ASSUME ProcessIInv, [ProcessNext]_allVars
    PROVE  ProcessIInv'
  <1>1. /\ ProcessTypeOK /\ NoOrphan /\ WaitsSound
        /\ printed # <<>> => Len(printed) \in Messages
    BY DEF ProcessIInv
  <1>2. CASE UNCHANGED procVars
    BY <1>1, <1>2 DEF procVars, ProcessIInv, ProcessTypeOK, NoOrphan, IsRunning,
       WaitsSound
  <1>3. CASE ChildPrints
    <2>1. printed' \in Seq(LineKinds) /\ Len(printed') \in Messages
      BY <1>1, <1>3, PrintsNumbers
    <2>2. UNCHANGED <<spawned, child, pipesOpen, cmd, reaped, wait, watcher, stage,
                      parentDone>>
      BY <1>3 DEF ChildPrints
    <2> QED BY <1>1, <2>1, <2>2 DEF ProcessIInv, ProcessTypeOK, NoOrphan,
               IsRunning, WaitsSound
  <1>4. CASE \/ ChildExits \/ ContextCancelled \/ Start \/ WaitBegins
             \/ CloseBegins \/ Cleanup
    <2>1. printed' = printed
      BY <1>4 DEF ChildExits, ContextCancelled, Start, WaitBegins, CloseBegins,
         Cleanup, CleanupSignals, CleanupKills, CleanupEnds
    <2>2. ProcessTypeOK'
      <3>1. CASE ChildExits \/ ContextCancelled \/ Start \/ CloseBegins
        <4>1. /\ UNCHANGED <<spawned, printed, reaped, wait>>
              /\ child' \in {"none", "running", "exited"}
              /\ pipesOpen' \in BOOLEAN /\ cmd' \in BOOLEAN
          BY <1>1, <3>1 DEF ProcessTypeOK, ChildExits, ContextCancelled, Start,
             CloseBegins
        <4>2. /\ watcher' \in {"none", "watching", "sent"}
              /\ stage' \in {"none", "transport", "grace", "killed", "returned"}
              /\ parentDone' \in BOOLEAN
          BY <1>1, <3>1 DEF ProcessTypeOK, ChildExits, ContextCancelled, Start,
             CloseBegins
        <4> QED BY <1>1, <4>1, <4>2 DEF ProcessTypeOK
      <3>2. CASE WaitBegins \/ CleanupSignals
        BY <1>1, <3>2 DEF ProcessTypeOK, WaitBegins, CleanupSignals
      <3>3. CASE CleanupKills \/ CleanupEnds
        BY <1>1, <3>3 DEF ProcessTypeOK, CleanupKills, CleanupEnds
      <3> QED BY <1>4, <3>1, <3>2, <3>3 DEF Cleanup
    <2>3. NoOrphan'
      BY <1>1, <1>4 DEF ProcessTypeOK, NoOrphan, IsRunning, WaitsSound, Waiters,
         ChildExits, ContextCancelled, Start, WaitBegins, CloseBegins, Cleanup,
         CleanupSignals, CleanupKills, CleanupEnds
    <2>4. WaitsSound'
      <3>1. CASE ChildExits \/ ContextCancelled \/ Start \/ CloseBegins
        BY <1>1, <3>1 DEF ProcessTypeOK, WaitsSound, Waiters, ChildExits,
           ContextCancelled, Start, CloseBegins
      <3>2. CASE WaitBegins
        BY <1>1, <3>2 DEF ProcessTypeOK, WaitsSound, Waiters, WaitBegins
      <3>3. CASE CleanupSignals
        BY <1>1, <3>3 DEF ProcessTypeOK, WaitsSound, Waiters, CleanupSignals
      <3>4. CASE CleanupKills \/ CleanupEnds
        BY <1>1, <3>4 DEF ProcessTypeOK, WaitsSound, Waiters, CleanupKills,
           CleanupEnds
      <3> QED BY <1>4, <3>1, <3>2, <3>3, <3>4 DEF Cleanup
    <2> QED BY <1>1, <2>1, <2>2, <2>3, <2>4 DEF ProcessIInv
  <1>5. CASE \E w \in Waiters : WaitStep(w)
    BY <1>5, WaitStepHolds
  <1>6. UNCHANGED allVars => UNCHANGED procVars
    BY DEF allVars, procVars
  <1>7. ScansOutput \/ ReadsPipe \/ WritesPipe \/ SendsToChild => UNCHANGED procVars
    BY DEF ScansOutput, ReadsPipe, WritesPipe, SendsToChild
  <1> QED BY <1>2, <1>3, <1>4, <1>5, <1>6, <1>7 DEF ProcessNext

\* A Wait for which no result is left does not move, and nothing sends another.
LEMMA LeftWaitingStep ==
    ASSUME ProcessIInv, [ProcessNext]_allVars, NEW w \in Waiters, LeftWaiting(w)
    PROVE  LeftWaiting(w)'
  <1>1. /\ ProcessTypeOK /\ WaitsSound /\ child = "exited"
        /\ wait[w] = "result" /\ watcher = "sent"
    BY DEF ProcessIInv, WaitsSound, LeftWaiting
  <1>2. CASE UNCHANGED <<wait, watcher>>
    BY <1>1, <1>2 DEF LeftWaiting
  <1>3. CASE WaitBegins \/ Cleanup
    <2>1. wait'[w] = wait[w] /\ watcher' = watcher
      BY <1>1, <1>3 DEF WaitBegins, Cleanup, CleanupSignals, CleanupKills,
         CleanupEnds, ProcessTypeOK, WaitsSound, Waiters
    <2> QED BY <1>1, <2>1 DEF LeftWaiting
  <1>4. ASSUME NEW v \in Waiters, WaitStep(v)
        PROVE  LeftWaiting(w)'
    <2>1. v # w /\ wait'[w] = wait[w] /\ watcher' = watcher
      BY <1>1, <1>4 DEF WaitStep, WaitChecks, WaitReaps, WaitReturns,
         ProcessTypeOK
    <2> QED BY <1>1, <2>1 DEF LeftWaiting
  <1>5. CASE \/ UNCHANGED procVars \/ ChildPrints \/ ChildExits
             \/ ContextCancelled \/ Start \/ CloseBegins
    BY <1>1, <1>2, <1>5 DEF procVars, ChildPrints, ChildExits, ContextCancelled,
       Start, CloseBegins
  <1>6. UNCHANGED allVars => UNCHANGED procVars
    BY DEF allVars, procVars
  <1>7. ScansOutput \/ ReadsPipe \/ WritesPipe \/ SendsToChild => UNCHANGED procVars
    BY DEF ScansOutput, ReadsPipe, WritesPipe, SendsToChild
  <1> QED BY <1>3, <1>4, <1>5, <1>6, <1>7 DEF ProcessNext

(***************************************************************************)
(* The theorems                                                            *)
(***************************************************************************)
LEMMA ProcessInvariance == ProcessSpec => [](IInv /\ ProcessIInv)
  <1>1. ProcessInit => IInv /\ ProcessIInv
    <2>1. ProcessInit => IInv
      BY InitHolds DEF ProcessInit
    <2>2. ProcessInit => ProcessIInv
      <3>1. <<>> \in Seq(LineKinds)
        OBVIOUS
      <3> QED BY <3>1 DEF ProcessInit, ProcessIInv, ProcessTypeOK, NoOrphan,
              WaitsSound, Waiters
    <2> QED BY <2>1, <2>2
  <1>2. IInv /\ ProcessIInv /\ [ProcessNext]_allVars => (IInv /\ ProcessIInv)'
    <2>1. ASSUME IInv, ProcessIInv, [ProcessNext]_allVars
          PROVE  IInv'
      <3>1. ProcessStep
        BY <2>1, ProcessNextIsTransportStep DEF ProcessStep, allVars, vars
      <3> QED BY <2>1, <3>1, TransportStepHolds, StutterHolds DEF ProcessStep
    <2> QED BY <2>1, ProcessStepHolds
  <1> QED BY <1>1, <1>2, PTL DEF ProcessSpec

\* The channels of the transport never hold more than they may, and Close
\* (stdio.go) closes none while a goroutine can still send on it: over the
\* standard streams and over the pipes of a child (process.go).
THEOREM ChannelsSafe == ProcessSpec => []Inv
  <1>1. IInv => Inv
    BY DEF IInv
  <1> QED BY <1>1, ProcessInvariance, PTL

\* Whoever of Close, Wait and the context ends a process (process.go), no child
\* is left running that IsRunning does not report or whose pipes are closed; and
\* of two overlapping calls of cmd.Wait (process.go:277 and 313) one returns.
THEOREM NoChildLeftBehind == ProcessSpec => []ProcessInv
  <1>1. ProcessIInv => OneLeftWaiting
    BY DEF ProcessIInv, WaitsSound, OneLeftWaiting, LeftWaiting, Waiters
  <1>2. ProcessIInv => ProcessInv
    BY <1>1 DEF ProcessIInv, ProcessInv
  <1> QED BY <1>2, ProcessInvariance, PTL

\* The other one of two overlapping calls of cmd.Wait (process.go:277 and 313) has
\* no way out: an application's Wait or a Close, which holds mu (process.go:322),
\* that is left waiting stays so for ever.
THEOREM LeftWaitingForEver ==
    ProcessSpec => [][\A w \in Waiters : LeftWaiting(w) => LeftWaiting(w)']_allVars
  <1>1. ProcessIInv /\ [ProcessNext]_allVars
            => [\A w \in Waiters : LeftWaiting(w) => LeftWaiting(w)']_allVars
    BY LeftWaitingStep
  <1> QED BY <1>1, ProcessInvariance, PTL DEF ProcessSpec

\* readLoop, writeLoop, the bridges and the MessageHandler's router (stdio.go)
\* together implement OrderedStream for requests, notifications, responses and
\* what is sent: nothing is reordered, duplicated or skipped on the way.
THEOREM StreamsImplementOrderedStream == ProcessSpec => StreamsInOrder
  <1>1. ASSUME ProcessInit
        PROVE  /\ RequestStream!Init /\ NotificationStream!Init
               /\ ResponseStream!Init /\ OutgoingStream!Init
    BY <1>1 DEF ProcessInit, Init, Kinds, RequestStream!Init,
       NotificationStream!Init, ResponseStream!Init, OutgoingStream!Init
  <1>2. ASSUME IInv, ProcessIInv, [ProcessNext]_allVars
        PROVE  StreamsMove
    <2>1. ProcessStep
      BY <1>2, ProcessNextIsTransportStep DEF ProcessStep, allVars, vars
    <2> QED BY <1>2, <2>1, TransportStepHolds, StutterHolds DEF ProcessStep
  <1>3. ASSUME StreamsMove
        PROVE  /\ [RequestStream!Put \/ RequestStream!Deliver]_<<accepted["request"],
                                                                got["request"]>>
               /\ [NotificationStream!Put \/ NotificationStream!Deliver]_<<
                      accepted["notification"], got["notification"]>>
               /\ [ResponseStream!Put \/ ResponseStream!Deliver]_<<
                      accepted["response"], got["response"]>>
               /\ [OutgoingStream!Put \/ OutgoingStream!Deliver]_<<
                      [i \in 1 .. sends |-> i], written>>
    BY <1>3 DEF StreamsMove, Moves, Kinds, Numbers, RequestStream!Put,
       RequestStream!Deliver, NotificationStream!Put, NotificationStream!Deliver,
       ResponseStream!Put, ResponseStream!Deliver, OutgoingStream!Put,
       OutgoingStream!Deliver
  <1> QED BY <1>1, <1>2, <1>3, ProcessInvariance, PTL
          DEF ProcessSpec, StreamsInOrder, RequestStream!Spec,
              NotificationStream!Spec, ResponseStream!Spec, OutgoingStream!Spec

====
