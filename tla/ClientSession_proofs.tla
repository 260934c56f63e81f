------------------------ MODULE ClientSession_proofs ------------------------
(***************************************************************************)
(* The safety properties of ClientSession, for every set of clients, every *)
(* number of calls and every size of the table.  They follow from one      *)
(* inductive invariant, SessionInv.                                        *)
(***************************************************************************)
EXTENDS ClientSession, TLAPS

Unserved(k) == rlen[k] = 0 /\ resp[k] = 0 /\ served[k] = 0
Fresh(k)    == Unserved(k) /\ wire[k] = 0
Unused(k)   == Fresh(k) /\ k \notin Backlogged /\ k \notin held

(* A connection waits for accept once at most, and nothing was done for it. *)
BacklogInv ==
    /\ \A i, j \in 1..Len(backlog) : backlog[i] = backlog[j] => i = j
    /\ \A k \in Backlogged : Unserved(k)

(* A client in a call has a connection, fresh until the request is sent; what it
   received is of a request that was served; connections it has still to open are unused. *)
ClientInv ==
    /\ \A c \in Clients :
        /\ cpc[c] \in {"connecting", "sending", "waiting"} \/ ok[c] => Conn(c) \in Conns
        /\ cpc[c] \in {"connecting", "sending"} => Fresh(Conn(c))
        /\ cpc[c] = "waiting" /\ got[c] > 0 => served[Conn(c)] = 1
    /\ \A k \in Conns : k[2] > call[k[1]] => Unused(k)

(* One request is all a connection carries, and a response is of that request. *)
CarriesOne ==
    \A k \in Conns :
        /\ wire[k] + rlen[k] <= Frame
        /\ served[k] <= 1
        /\ resp[k] > 0 => served[k] = 1

Serving == spc \in {"top", "table", "serve", "stopped"}

(* While the server makes passes, nothing is left to receive of a request that
   was served, and only the one being served may be whole. *)
ServeInv ==
    /\ Serving => \A i \in Slots : table[i] # NoConn =>
          /\ served[table[i]] = 1 => wire[table[i]] = 0 /\ rlen[table[i]] = 0
          /\ rlen[table[i]] < Frame - 1 \/ (spc = "serve" /\ i = cur)
    /\ spc = "serve" => cur \in Slots /\ table[cur] # NoConn /\ rlen[table[cur]] > 0
    /\ spc = "stopped" => end

SessionInv ==
    /\ TypeOK
    /\ TableHasHeld
    /\ BacklogInv
    /\ ClientInv
    /\ CarriesOne
    /\ ServeInv
    /\ OkMeansServed
    /\ WholeRequestsAreSafe

-----------------------------------------------------------------------------
(* Connections and the backlog. *)

LEMMA ConnsFact ==
    /\ \A k \in Conns : k[1] \in Clients /\ k[2] \in 1..MaxCalls[k[1]] /\ k = <<k[1], k[2]>>
    /\ \A c \in Clients : \A n \in 1..MaxCalls[c] : <<c, n>> \in Conns
  BY DEF Conns

LEMMA AppendFact ==
    ASSUME TypeOK, NEW k \in Conns, backlog' = Append(backlog, k)
    PROVE  /\ backlog' \in Seq(Conns)
           /\ Backlogged' = Backlogged \cup {k}
           /\ BacklogInv /\ k \notin Backlogged =>
                \A i, j \in 1..Len(backlog') : backlog'[i] = backlog'[j] => i = j
  <1>1. /\ Len(backlog) \in Nat /\ Len(backlog') = Len(backlog) + 1
        /\ \A i \in 1..Len(backlog) : backlog'[i] = backlog[i]
        /\ backlog'[Len(backlog) + 1] = k
        /\ backlog' \in Seq(Conns)
    BY DEF TypeOK
  <1>2. Backlogged' = Backlogged \cup {k}
    <2>1. ASSUME NEW l \in Backlogged' PROVE l \in Backlogged \cup {k}
      BY <1>1, <2>1 DEF Backlogged
    <2>2. Backlogged \cup {k} \subseteq Backlogged'
      BY <1>1 DEF Backlogged
    <2> QED BY <2>1, <2>2
  <1>3. ASSUME BacklogInv, k \notin Backlogged,
               NEW i \in 1..Len(backlog'), NEW j \in 1..Len(backlog'),
               backlog'[i] = backlog'[j]
        PROVE  i = j
    BY <1>1, <1>3 DEF BacklogInv, Backlogged
  <1> QED BY <1>1, <1>2, <1>3

LEMMA TailFact ==
    ASSUME TypeOK, BacklogInv, backlog # <<>>, backlog' = Tail(backlog)
    PROVE  /\ backlog' \in Seq(Conns)
           /\ Head(backlog) \in Conns /\ Head(backlog) \in Backlogged
           /\ Backlogged' = Backlogged \ {Head(backlog)}
           /\ \A i, j \in 1..Len(backlog') : backlog'[i] = backlog'[j] => i = j
  <1>1. /\ Len(backlog) \in Nat \ {0} /\ Len(backlog') = Len(backlog) - 1
        /\ \A i \in 1..Len(backlog') : backlog'[i] = backlog[i + 1]
        /\ Head(backlog) = backlog[1]
        /\ backlog' \in Seq(Conns)
    BY DEF TypeOK
  <1>2. Head(backlog) \in Conns /\ Head(backlog) \in Backlogged
    BY <1>1 DEF TypeOK, Backlogged
  <1>3. \A i, j \in 1..Len(backlog') : backlog'[i] = backlog'[j] => i = j
    BY <1>1 DEF BacklogInv
  <1>4. ASSUME NEW k \in Backlogged' PROVE k \in Backlogged \ {Head(backlog)}
    <2>1. PICK i \in 1..Len(backlog') : k = backlog'[i]
      BY <1>4 DEF Backlogged
    <2>2. i + 1 \in 1..Len(backlog) /\ k = backlog[i + 1] /\ i + 1 # 1
      BY <2>1, <1>1
    <2> QED BY <2>2, <1>1 DEF Backlogged, BacklogInv
  <1>5. ASSUME NEW k \in Backlogged, k # Head(backlog) PROVE k \in Backlogged'
    <2>1. PICK i \in 1..Len(backlog) : k = backlog[i]
      BY <1>5 DEF Backlogged
    <2>2. i - 1 \in 1..Len(backlog') /\ k = backlog'[i - 1]
      BY <2>1, <1>1, <1>5
    <2> QED BY <2>2 DEF Backlogged
  <1> QED BY <1>1, <1>2, <1>3, <1>4, <1>5

LEMMA EmptyFact ==
    ASSUME backlog' = <<>>
    PROVE  /\ backlog' \in Seq(Conns)
           /\ Backlogged' = {}
           /\ \A i, j \in 1..Len(backlog') : backlog'[i] = backlog'[j] => i = j
  BY DEF Backlogged

LEMMA BackloggedConns == TypeOK => Backlogged \subseteq Conns
  BY DEF TypeOK, Backlogged

-----------------------------------------------------------------------------
LEMMA InitKeeps == Init => SessionInv
  <1> SUFFICES ASSUME Init PROVE SessionInv
    OBVIOUS
  <1> USE DEF Init
  <1>1. TypeOK
    <2>1. \A c \in Clients : call[c] <= MaxCalls[c]
      BY BoundsAssumption
    <2>2. <<>> \in Seq(Conns) /\ 0 \in 0..MaxConf
      BY BoundsAssumption
    <2>3. /\ cpc \in [Clients -> {"idle", "connecting", "sending", "waiting", "gone"}]
          /\ call \in [Clients -> Nat]
          /\ polls \in [Clients -> 0..3] /\ got \in [Clients -> 0..Frame]
          /\ ok \in [Clients -> BOOLEAN]
      BY DEF Frame
    <2>4. /\ open \in [Conns -> BOOLEAN] /\ wire \in [Conns -> 0..Frame]
          /\ resp \in [Conns -> 0..Frame] /\ rlen \in [Conns -> 0..Frame]
          /\ age \in [Conns -> 0..2] /\ served \in [Conns -> Nat]
      BY DEF Frame
    <2> QED BY <2>1, <2>2, <2>3, <2>4 DEF TypeOK
  <1>2. Backlogged = {}
    BY DEF Backlogged
  <1>3. TableHasHeld
    BY <1>2 DEF TableHasHeld, Slots
  <1>4. BacklogInv
    BY <1>2 DEF BacklogInv
  <1>5. ClientInv
    BY <1>2 DEF ClientInv, Unused, Fresh, Unserved
  <1>6. CarriesOne
    BY DEF CarriesOne, Frame
  <1>7. ServeInv
    BY DEF ServeInv, Slots
  <1>8. OkMeansServed /\ WholeRequestsAreSafe
    BY DEF OkMeansServed, WholeRequestsAreSafe, Failed
  <1> QED BY <1>1, <1>3, <1>4, <1>5, <1>6, <1>7, <1>8 DEF SessionInv

-----------------------------------------------------------------------------
(* The clients. *)

LEMMA ConnectKeeps ==
    ASSUME SessionInv, NEW c \in Clients, Connect(c)
    PROVE  SessionInv'
  <1> DEFINE k == <<c, call[c] + 1>>
  <1>0. k \in Conns /\ Unused(k) /\ k \notin Backlogged /\ k \notin held
    <2>0. call[c] \in Nat /\ MaxCalls[c] \in Nat /\ call[c] < MaxCalls[c]
      BY BoundsAssumption DEF SessionInv, TypeOK, Connect
    <2>1. call[c] + 1 \in 1..MaxCalls[c] /\ call[c] \in Nat
      BY <2>0
    <2>2. k \in Conns /\ k[1] = c /\ k[2] = call[c] + 1
      BY <2>1, ConnsFact
    <2>3. Unused(k)
      BY <2>1, <2>2 DEF SessionInv, ClientInv
    <2> QED BY <2>2, <2>3 DEF Unused
  <1>1. /\ call' = [call EXCEPT ![c] = call[c] + 1]
        /\ open' = [open EXCEPT ![k] = TRUE]
        /\ backlog' = Append(backlog, k)
        /\ cpc' \in {[cpc EXCEPT ![c] = "sending"], [cpc EXCEPT ![c] = "connecting"]}
        /\ ok' = [ok EXCEPT ![c] = FALSE]
        /\ call[c] < MaxCalls[c]
        /\ UNCHANGED <<polls, got, wire, resp, rlen, age, served,
                       listening, held, half, table, spc, cur, errno, end>>
    BY DEF Connect
  <1>2. /\ backlog' \in Seq(Conns)
        /\ Backlogged' = Backlogged \cup {k}
        /\ \A i, j \in 1..Len(backlog') : backlog'[i] = backlog'[j] => i = j
    BY <1>0, <1>1, AppendFact DEF SessionInv
  <1>3. TypeOK'
    <2>1. cpc' \in [Clients -> {"idle", "connecting", "sending", "waiting", "gone"}]
      BY <1>1 DEF SessionInv, TypeOK
    <2>2. call' \in [Clients -> Nat]
      BY <1>1 DEF SessionInv, TypeOK
    <2>3. ASSUME NEW d \in Clients PROVE call'[d] <= MaxCalls[d]
      <3>1. call[d] \in Nat /\ MaxCalls[d] \in Nat /\ call[d] <= MaxCalls[d]
        BY BoundsAssumption DEF SessionInv, TypeOK
      <3> QED BY <3>1, <1>1 DEF SessionInv, TypeOK
    <2> QED BY <2>1, <2>2, <2>3, <1>0, <1>1, <1>2 DEF SessionInv, TypeOK
  <1>4. TableHasHeld'
    <2>1. UNCHANGED <<table, held, half>>
      BY <1>1
    <2>2. Backlogged \cap held = {}
      BY DEF SessionInv, TableHasHeld
    <2> HIDE DEF k
    <2>3. Backlogged' \cap held' = {}
      BY <1>0, <1>2, <2>1, <2>2
    <2> QED BY <2>1, <2>3 DEF SessionInv, TableHasHeld
  <1>5. BacklogInv'
    BY <1>0, <1>1, <1>2 DEF SessionInv, BacklogInv, Unused, Fresh, Unserved
  <1>6. ClientInv'
    <2>1. ASSUME NEW d \in Clients
          PROVE  /\ cpc'[d] \in {"connecting", "sending", "waiting"} \/ ok'[d] => Conn(d)' \in Conns
                 /\ cpc'[d] \in {"connecting", "sending"} => Fresh(Conn(d))'
                 /\ cpc'[d] = "waiting" /\ got'[d] > 0 => served'[Conn(d)'] = 1
      BY <1>0, <1>1 DEF SessionInv, TypeOK, ClientInv, Conn, Unused, Fresh, Unserved
    <2>2. ASSUME NEW l \in Conns, l[2] > call'[l[1]] PROVE Unused(l)'
      <3>1. l[1] \in Clients /\ l[2] \in Nat
        BY ConnsFact, BoundsAssumption
      <3>2. l # k /\ l[2] > call[l[1]]
        BY <3>1, <2>2, <1>1 DEF SessionInv, TypeOK
      <3> QED BY <3>2, <1>1, <1>2 DEF SessionInv, ClientInv, Unused, Fresh, Unserved
    <2> QED BY <2>1, <2>2 DEF ClientInv
  <1>7. CarriesOne' /\ ServeInv' /\ WholeRequestsAreSafe'
    BY <1>1 DEF SessionInv, CarriesOne, ServeInv, Serving, WholeRequestsAreSafe, Failed
  <1>8. OkMeansServed'
    BY <1>1 DEF SessionInv, TypeOK, OkMeansServed, Conn
  <1> QED BY <1>3, <1>4, <1>5, <1>6, <1>7, <1>8 DEF SessionInv

(* The calls that leave the connections and the server alone. *)
LEMMA QuietClientKeeps ==
    ASSUME SessionInv, NEW c \in Clients,
           \/ ConnectFails(c)
           \/ cpc[c] = "connecting" /\ cpc' = [cpc EXCEPT ![c] = "sending"]
                /\ UNCHANGED <<got, polls, ok>>,
           UNCHANGED <<call, connVars, serverVars>>
    PROVE  SessionInv'
  <1>1. UNCHANGED <<call, open, wire, resp, rlen, age, served, listening, backlog,
                    held, half, table, spc, cur, errno, end>>
    BY DEF connVars, serverVars
  <1>2. Backlogged' = Backlogged
    BY <1>1 DEF Backlogged
  <1>3. TableHasHeld' /\ BacklogInv' /\ CarriesOne' /\ ServeInv' /\ WholeRequestsAreSafe'
    BY <1>1, <1>2 DEF SessionInv, TableHasHeld, BacklogInv, Unserved, CarriesOne,
                      ServeInv, Serving, WholeRequestsAreSafe, Failed
  <1>4. CASE ConnectFails(c)
    <2>1. ok' = [ok EXCEPT ![c] = FALSE] /\ UNCHANGED <<cpc, polls, got>>
      BY <1>4 DEF ConnectFails
    <2>2. TypeOK'
      BY <2>1, <1>1 DEF SessionInv, TypeOK
    <2>3. ClientInv'
      BY <2>1, <1>1, <1>2 DEF SessionInv, TypeOK, ClientInv, Conn, Unused, Fresh, Unserved
    <2>4. OkMeansServed'
      BY <2>1, <1>1 DEF SessionInv, TypeOK, OkMeansServed, Conn
    <2> QED BY <1>3, <2>2, <2>3, <2>4 DEF SessionInv
  <1>5. CASE /\ cpc[c] = "connecting" /\ cpc' = [cpc EXCEPT ![c] = "sending"]
             /\ UNCHANGED <<got, polls, ok>>
    <2>2. TypeOK'
      BY <1>5, <1>1 DEF SessionInv, TypeOK
    <2>3. ClientInv'
      BY <1>5, <1>1, <1>2 DEF SessionInv, TypeOK, ClientInv, Conn, Unused, Fresh, Unserved
    <2>4. OkMeansServed'
      BY <1>5, <1>1 DEF SessionInv, TypeOK, OkMeansServed, Conn
    <2> QED BY <1>3, <2>2, <2>3, <2>4 DEF SessionInv
  <1> QED BY <1>4, <1>5

(* A look at the response that does not end the call. *)
LEMMA WaitKeeps ==
    ASSUME SessionInv, NEW c \in Clients, cpc[c] = "waiting", NEW n \in 0..resp[Conn(c)],
           got[c] + n < Frame,
           got' = [got EXCEPT ![c] = @ + n],
           resp' = [resp EXCEPT ![Conn(c)] = @ - n],
           polls' = [polls EXCEPT ![c] = IF @ < 3 THEN @ + 1 ELSE @],
           UNCHANGED <<cpc, call, ok, open, wire, rlen, age, served, serverVars>>
    PROVE  SessionInv'
  <1> DEFINE k == Conn(c)
  <1>0. /\ k \in Conns /\ resp[k] \in 0..Frame /\ got[c] \in 0..Frame
        /\ resp[k] > 0 \/ got[c] > 0 => served[k] = 1
    BY DEF SessionInv, TypeOK, ClientInv, CarriesOne
  <1>1. UNCHANGED <<listening, backlog, held, half, table, spc, cur, errno, end>>
    BY DEF serverVars
  <1>2. Backlogged' = Backlogged /\ \A d \in Clients : Conn(d)' = Conn(d)
    BY <1>1 DEF Backlogged, Conn
  <1>3. \A d \in Clients : Conn(d) = k => d = c
    BY DEF Conn
  <1>4. resp' = [resp EXCEPT ![k] = resp[k] - n]
    OBVIOUS
  <1> HIDE DEF k
  <1>5. /\ resp[k] - n \in 0..Frame
        /\ resp[k] = 0 => resp[k] - n = 0
        /\ got[c] + n \in 0..Frame
        /\ got[c] + n > 0 => served[k] = 1
    BY <1>0 DEF Frame, k
  <1>6. TypeOK'
    <2>0. got \in [Clients -> 0..Frame] /\ resp \in [Conns -> 0..Frame]
      BY DEF SessionInv, TypeOK
    <2>1. got' \in [Clients -> 0..Frame] /\ resp' \in [Conns -> 0..Frame]
      <3>1. got' \in [Clients -> 0..Frame]
        BY <2>0, <1>5
      <3>2. resp' \in [Conns -> 0..Frame]
        BY <2>0, <1>4, <1>5
      <3> QED BY <3>1, <3>2
    <2>2. polls' \in [Clients -> 0..3]
      BY DEF SessionInv, TypeOK
    <2> QED BY <2>1, <2>2, <1>1 DEF SessionInv, TypeOK
  <1>7. \A l \in Conns : /\ resp[l] = 0 => resp'[l] = 0
                         /\ resp'[l] > 0 => served[l] = 1
    <2>1. resp \in [Conns -> 0..Frame] /\ \A l \in Conns : resp[l] > 0 => served[l] = 1
      BY DEF SessionInv, TypeOK, CarriesOne
    <2>2. resp[k] - n > 0 => served[k] = 1
      BY <1>0, <1>5 DEF Frame
    <2>3. \A l \in Conns : resp'[l] = IF l = k THEN resp[k] - n ELSE resp[l]
      BY <1>4, <2>1
    <2> QED BY <1>5, <2>1, <2>2, <2>3
  <1>8. TableHasHeld' /\ ServeInv' /\ WholeRequestsAreSafe' /\ OkMeansServed'
    BY <1>1, <1>2 DEF SessionInv, TableHasHeld, ServeInv, Serving,
                      WholeRequestsAreSafe, Failed, OkMeansServed
  <1>9. BacklogInv' /\ CarriesOne'
    BY <1>1, <1>2, <1>7, BackloggedConns DEF SessionInv, BacklogInv, Unserved, CarriesOne
  <1>10. ClientInv'
    <2>1. ASSUME NEW d \in Clients
          PROVE  /\ cpc'[d] \in {"connecting", "sending", "waiting"} \/ ok'[d] => Conn(d)' \in Conns
                 /\ cpc'[d] \in {"connecting", "sending"} => Fresh(Conn(d))'
                 /\ cpc'[d] = "waiting" /\ got'[d] > 0 => served'[Conn(d)'] = 1
      <3>1. CASE d = c
        BY <3>1, <1>0, <1>2, <1>5 DEF SessionInv, TypeOK, k
      <3>2. CASE d # c
        <4>1. got'[d] = got[d] /\ Conn(d) # k
          BY <3>2, <1>3 DEF SessionInv, TypeOK
        <4>2. Conn(d) \in Conns => resp'[Conn(d)] = resp[Conn(d)]
          BY <4>1, <1>4 DEF SessionInv, TypeOK
        <4> QED BY <4>1, <4>2, <1>2 DEF SessionInv, ClientInv, Fresh, Unserved
      <3> QED BY <3>1, <3>2
    <2>2. ASSUME NEW l \in Conns, l[2] > call'[l[1]] PROVE Unused(l)'
      <3>1. Unused(l)
        BY <2>2 DEF SessionInv, ClientInv
      <3> QED BY <3>1, <1>1, <1>2, <1>7 DEF Unused, Fresh, Unserved
    <2> QED BY <2>1, <2>2 DEF ClientInv
  <1> QED BY <1>6, <1>8, <1>9, <1>10 DEF SessionInv

(* The end of a call, perhaps after a part of the request was sent. *)
LEMMA CloseKeeps ==
    ASSUME SessionInv, NEW c \in Clients, NEW result \in BOOLEAN, NEW w \in 0..Frame,
           Close(c, result),
           cpc[c] \in {"connecting", "sending", "waiting"},
           result => cpc[c] = "waiting" /\ served[Conn(c)] = 1,
           cpc' \in {[cpc EXCEPT ![c] = "idle"], [cpc EXCEPT ![c] = "gone"]},
           wire' = [wire EXCEPT ![Conn(c)] = w],
           w = wire[Conn(c)] \/ cpc[c] = "sending"
    PROVE  SessionInv'
  <1> DEFINE k == Conn(c)
  <1>0. /\ k \in Conns
        /\ w = wire[k] \/ Fresh(k)
        /\ result => served[k] = 1
    BY DEF SessionInv, ClientInv, CarriesOne
  <1>1. /\ ok' = [ok EXCEPT ![c] = result]
        /\ open' = [open EXCEPT ![k] = FALSE]
        /\ resp' = [resp EXCEPT ![k] = 0]
        /\ polls' = [polls EXCEPT ![c] = 0]
        /\ got' = [got EXCEPT ![c] = 0]
        /\ UNCHANGED <<call, rlen, age, served, listening, backlog,
                       held, half, table, spc, cur, errno, end>>
    BY DEF Close, serverVars
  <1>2. Backlogged' = Backlogged /\ \A d \in Clients : Conn(d)' = Conn(d)
    BY <1>1 DEF Backlogged, Conn
  <1>3. \A d \in Clients : Conn(d) = k => d = c
    BY DEF Conn
  <1>4. TypeOK'
    <2>1. cpc' \in [Clients -> {"idle", "connecting", "sending", "waiting", "gone"}]
      BY DEF SessionInv, TypeOK
    <2>2. wire' \in [Conns -> 0..Frame] /\ resp' \in [Conns -> 0..Frame]
      BY <1>0, <1>1 DEF SessionInv, TypeOK, Frame
    <2>3. polls' \in [Clients -> 0..3] /\ got' \in [Clients -> 0..Frame]
      BY <1>1 DEF SessionInv, TypeOK, Frame
    <2> HIDE DEF k
    <2> QED BY <2>1, <2>2, <2>3, <1>0, <1>1 DEF SessionInv, TypeOK
  <1> HIDE DEF k
  <1>5. TableHasHeld'
    BY <1>1, <1>2 DEF SessionInv, TableHasHeld
  <1>6. BacklogInv'
    BY <1>0, <1>1, <1>2 DEF SessionInv, TypeOK, BacklogInv, Unserved
  <1>7. ClientInv'
    <2>1. ASSUME NEW d \in Clients
          PROVE  /\ cpc'[d] \in {"connecting", "sending", "waiting"} \/ ok'[d] => Conn(d)' \in Conns
                 /\ cpc'[d] \in {"connecting", "sending"} => Fresh(Conn(d))'
                 /\ cpc'[d] = "waiting" /\ got'[d] > 0 => served'[Conn(d)'] = 1
      <3>1. CASE d = c
        BY <3>1, <1>0, <1>1, <1>2 DEF SessionInv, TypeOK, k
      <3>2. CASE d # c
        <4>1. cpc'[d] = cpc[d] /\ got'[d] = got[d] /\ ok'[d] = ok[d] /\ Conn(d) # k
          BY <3>2, <1>1, <1>3 DEF SessionInv, TypeOK
        <4>2. Conn(d) \in Conns =>
                 wire'[Conn(d)] = wire[Conn(d)] /\ resp'[Conn(d)] = resp[Conn(d)]
          BY <4>1, <1>1 DEF SessionInv, TypeOK, k
        <4> QED BY <4>1, <4>2, <1>1, <1>2 DEF SessionInv, ClientInv, Fresh, Unserved
      <3> QED BY <3>1, <3>2
    <2>2. ASSUME NEW l \in Conns, l[2] > call'[l[1]] PROVE Unused(l)'
      <3>1. Unused(l)
        BY <2>2, <1>1 DEF SessionInv, ClientInv
      <3>2. l # k
        <4>1. k[1] = c /\ k[2] = call[c] /\ call[c] \in Nat
          BY DEF k, Conn, SessionInv, TypeOK
        <4> QED BY <4>1, <2>2, <1>1
      <3>3. wire'[l] = wire[l] /\ resp'[l] = resp[l]
        BY <3>2, <1>1 DEF SessionInv, TypeOK, k
      <3> QED BY <3>1, <3>3, <1>1, <1>2 DEF Unused, Fresh, Unserved
    <2> QED BY <2>1, <2>2 DEF ClientInv
  <1>8. CarriesOne'
    <2>1. ASSUME NEW l \in Conns
          PROVE  /\ wire'[l] + rlen'[l] <= Frame
                 /\ served'[l] <= 1
                 /\ resp'[l] > 0 => served'[l] = 1
      BY <1>0, <1>1 DEF SessionInv, TypeOK, CarriesOne, Fresh, Unserved, k, Frame
    <2> QED BY <2>1 DEF CarriesOne
  <1>9. ServeInv'
    <2>1. ASSUME Serving', NEW i \in Slots, table'[i] # NoConn
          PROVE  /\ served'[table'[i]] = 1 => wire'[table'[i]] = 0 /\ rlen'[table'[i]] = 0
                 /\ rlen'[table'[i]] < Frame - 1 \/ (spc' = "serve" /\ i = cur')
      <3>1. table[i] \in Conns
        BY <2>1, <1>1 DEF SessionInv, TypeOK
      <3> QED BY <2>1, <3>1, <1>0, <1>1
            DEF SessionInv, TypeOK, ServeInv, Serving, Fresh, Unserved, k
    <2> QED BY <2>1, <1>1 DEF SessionInv, ServeInv
  <1>10. OkMeansServed'
    BY <1>0, <1>1, <1>2, <1>3 DEF SessionInv, TypeOK, OkMeansServed, k
  <1>11. WholeRequestsAreSafe'
    BY <1>1 DEF SessionInv, WholeRequestsAreSafe, Failed
  <1> QED BY <1>4, <1>5, <1>6, <1>7, <1>8, <1>9, <1>10, <1>11 DEF SessionInv

(* The whole request is sent. *)
LEMMA SentKeeps ==
    ASSUME SessionInv, NEW c \in Clients, NEW w \in 0..Frame,
           cpc[c] = "sending",
           cpc' = [cpc EXCEPT ![c] = "waiting"],
           got' = [got EXCEPT ![c] = 0],
           wire' = [wire EXCEPT ![Conn(c)] = w],
           UNCHANGED <<call, polls, ok, open, resp, rlen, age, served, serverVars>>
    PROVE  SessionInv'
  <1> DEFINE k == Conn(c)
  <1>0. k \in Conns /\ Fresh(k)
    BY DEF SessionInv, ClientInv
  <1>1. UNCHANGED <<call, polls, ok, open, resp, rlen, age, served, listening, backlog,
                    held, half, table, spc, cur, errno, end>>
    BY DEF serverVars
  <1>2. Backlogged' = Backlogged /\ \A d \in Clients : Conn(d)' = Conn(d)
    BY <1>1 DEF Backlogged, Conn
  <1>3. \A d \in Clients : Conn(d) = k => d = c
    BY DEF Conn
  <1> HIDE DEF k
  <1>4. TypeOK'
    <2>1. cpc' \in [Clients -> {"idle", "connecting", "sending", "waiting", "gone"}]
      BY DEF SessionInv, TypeOK
    <2>2. wire' \in [Conns -> 0..Frame] /\ got' \in [Clients -> 0..Frame]
      BY <1>0, <1>1 DEF SessionInv, TypeOK, Frame, k
    <2> QED BY <2>1, <2>2, <1>1 DEF SessionInv, TypeOK
  <1>5. TableHasHeld' /\ BacklogInv' /\ WholeRequestsAreSafe' /\ OkMeansServed'
    BY <1>1, <1>2 DEF SessionInv, TypeOK, TableHasHeld, BacklogInv, Unserved,
                      WholeRequestsAreSafe, Failed, OkMeansServed
  <1>7. ClientInv'
    <2>1. ASSUME NEW d \in Clients
          PROVE  /\ cpc'[d] \in {"connecting", "sending", "waiting"} \/ ok'[d] => Conn(d)' \in Conns
                 /\ cpc'[d] \in {"connecting", "sending"} => Fresh(Conn(d))'
                 /\ cpc'[d] = "waiting" /\ got'[d] > 0 => served'[Conn(d)'] = 1
      <3>1. CASE d = c
        BY <3>1, <1>0, <1>1, <1>2 DEF SessionInv, TypeOK, k
      <3>2. CASE d # c
        <4>1. cpc'[d] = cpc[d] /\ got'[d] = got[d] /\ Conn(d) # k
          BY <3>2, <1>1, <1>3 DEF SessionInv, TypeOK
        <4>2. Conn(d) \in Conns => wire'[Conn(d)] = wire[Conn(d)]
          BY <4>1, <1>1 DEF SessionInv, TypeOK, k
        <4> QED BY <4>1, <4>2, <1>1, <1>2 DEF SessionInv, ClientInv, Fresh, Unserved
      <3> QED BY <3>1, <3>2
    <2>2. ASSUME NEW l \in Conns, l[2] > call'[l[1]] PROVE Unused(l)'
      <3>1. Unused(l)
        BY <2>2, <1>1 DEF SessionInv, ClientInv
      <3>2. l # k
        <4>1. k[1] = c /\ k[2] = call[c] /\ call[c] \in Nat
          BY DEF k, Conn, SessionInv, TypeOK
        <4> QED BY <4>1, <2>2, <1>1
      <3>3. wire'[l] = wire[l]
        BY <3>2, <1>1 DEF SessionInv, TypeOK, k
      <3> QED BY <3>1, <3>3, <1>1, <1>2 DEF Unused, Fresh, Unserved
    <2> QED BY <2>1, <2>2 DEF ClientInv
  <1>8. CarriesOne'
    <2>1. ASSUME NEW l \in Conns
          PROVE  /\ wire'[l] + rlen'[l] <= Frame
                 /\ served'[l] <= 1
                 /\ resp'[l] > 0 => served'[l] = 1
      BY <1>0, <1>1 DEF SessionInv, TypeOK, CarriesOne, Fresh, Unserved, k, Frame
    <2> QED BY <2>1 DEF CarriesOne
  <1>9. ServeInv'
    <2>1. ASSUME Serving', NEW i \in Slots, table'[i] # NoConn
          PROVE  /\ served'[table'[i]] = 1 => wire'[table'[i]] = 0 /\ rlen'[table'[i]] = 0
                 /\ rlen'[table'[i]] < Frame - 1 \/ (spc' = "serve" /\ i = cur')
      <3>1. table[i] \in Conns
        BY <2>1, <1>1 DEF SessionInv, TypeOK
      <3> QED BY <2>1, <3>1, <1>0, <1>1
            DEF SessionInv, TypeOK, ServeInv, Serving, Fresh, Unserved, k
    <2> QED BY <2>1, <1>1 DEF SessionInv, ServeInv
  <1> QED BY <1>4, <1>5, <1>7, <1>8, <1>9 DEF SessionInv

LEMMA ClientKeeps ==
    ASSUME SessionInv, NEW c \in Clients,
           Connect(c) \/ ConnectFails(c) \/ Call(c) \/ LoseToken(c)
    PROVE  SessionInv'
  <1>0. wire \in [Conns -> 0..Frame] /\ got[c] \in 0..Frame
    BY DEF SessionInv, TypeOK
  <1>1. CASE Connect(c)
    BY <1>1, ConnectKeeps
  <1>2. CASE ConnectFails(c)
    BY <1>2, QuietClientKeeps DEF ConnectFails
  <1>3. ASSUME cpc[c] \in {"connecting", "waiting"}, NEW result \in BOOLEAN, Return(c, result),
               result => cpc[c] = "waiting" /\ served[Conn(c)] = 1
        PROVE  SessionInv'
    <2>1. Conn(c) \in Conns /\ wire[Conn(c)] \in 0..Frame
      BY <1>3, <1>0 DEF SessionInv, ClientInv
    <2>2. wire' = [wire EXCEPT ![Conn(c)] = wire[Conn(c)]]
      BY <1>3, <1>0 DEF Return
    <2> QED BY <1>3, <2>1, <2>2, CloseKeeps DEF Return
  <1>4. CASE ConnectAgain(c)
    BY <1>4, <1>3, QuietClientKeeps DEF ConnectAgain
  <1>5. CASE na_sock_send(c)
    <2>1. ASSUME NEW n \in 0..Frame, Put(c, n)
          PROVE  \E w \in 0..Frame : wire' = [wire EXCEPT ![Conn(c)] = w]
      <3>1. CASE Alive(Conn(c))
        <4>1. wire' = [wire EXCEPT ![Conn(c)] = n]
          BY <2>1, <3>1 DEF Put
        <4> QED BY <4>1
      <3>2. CASE ~Alive(Conn(c))
        <4>1. wire' = [wire EXCEPT ![Conn(c)] = 0] /\ 0 \in 0..Frame
          BY <2>1, <3>2 DEF Put, Frame
        <4> QED BY <4>1
      <3> QED BY <3>1, <3>2
    <2>2. CASE /\ Put(c, Frame)
               /\ cpc' = [cpc EXCEPT ![c] = "waiting"]
               /\ got' = [got EXCEPT ![c] = Cleared]
               /\ UNCHANGED <<call, polls, ok, open, resp, rlen, age, served, serverVars>>
      <3>1. PICK w \in 0..Frame : wire' = [wire EXCEPT ![Conn(c)] = w]
        BY <2>2, <2>1 DEF Frame
      <3> QED BY <1>5, <2>2, <3>1, SentKeeps DEF na_sock_send, Cleared
    <2>3. CASE /\ \E n \in 0..(Frame - 1) : Put(c, n)
               /\ cpc' = [cpc EXCEPT ![c] = "idle"]
               /\ Close(c, FALSE)
      <3>1. PICK w \in 0..Frame : wire' = [wire EXCEPT ![Conn(c)] = w]
        BY <2>3, <2>1 DEF Frame
      <3> QED BY <1>5, <2>3, <3>1, CloseKeeps DEF na_sock_send
    <2> QED BY <1>5, <2>2, <2>3 DEF na_sock_send
  <1>6. CASE Poll(c)
    <2>0. cpc[c] = "waiting" /\ Conn(c) \in Conns /\ resp[Conn(c)] \in 0..Frame
      BY <1>6 DEF Poll, SessionInv, ClientInv, TypeOK
    <2>1. CASE Return(c, FALSE)
      BY <2>1, <2>0, <1>3
    <2>2. ASSUME NEW n \in 0..resp[Conn(c)], Parsed(got[c] + n), Return(c, TRUE)
          PROVE  SessionInv'
      <3>1. got[c] > 0 \/ resp[Conn(c)] > 0
        BY <2>0, <2>2, <1>0 DEF Parsed, Frame
      <3>2. served[Conn(c)] = 1
        BY <3>1, <2>0 DEF SessionInv, ClientInv, CarriesOne
      <3> QED BY <3>2, <2>0, <2>2, <1>3
    <2>3. ASSUME NEW n \in 0..resp[Conn(c)],
                 /\ got[c] + n < Frame
                 /\ got' = [got EXCEPT ![c] = @ + n]
                 /\ resp' = [resp EXCEPT ![Conn(c)] = @ - n]
                 /\ polls' = [polls EXCEPT ![c] = IF @ < 3 THEN @ + 1 ELSE @]
                 /\ UNCHANGED <<cpc, call, ok, open, wire, rlen, age, served, serverVars>>
          PROVE  SessionInv'
      BY <2>0, <2>3, WaitKeeps
    <2> QED BY <1>6, <2>1, <2>2, <2>3 DEF Poll, PollOnce
  <1>7. CASE LoseToken(c)
    <2>1. Conn(c) \in Conns /\ wire[Conn(c)] \in 0..Frame
      BY <1>7, <1>0 DEF LoseToken, SessionInv, ClientInv
    <2>2. wire' = [wire EXCEPT ![Conn(c)] = wire[Conn(c)]]
      BY <1>7, <1>0 DEF LoseToken
    <2> QED BY <1>7, <2>1, <2>2, CloseKeeps DEF LoseToken
  <1> QED BY <1>1, <1>2, <1>4, <1>5, <1>6, <1>7 DEF Call

-----------------------------------------------------------------------------
(* The server. *)

(* What no step of the server does to the clients: it touches no connection that
   is fresh, and takes no response back. *)
LEMMA ServerKeepsClients ==
    ASSUME SessionInv, UNCHANGED clientVars,
           Backlogged' \cup held' \subseteq Backlogged \cup held,
           \A l \in Conns :
              /\ Fresh(l) => Fresh(l)'
              /\ served[l] = 1 => served'[l] = 1
    PROVE  ClientInv' /\ OkMeansServed'
  <1>1. UNCHANGED <<cpc, call, polls, got, ok>> /\ \A c \in Clients : Conn(c)' = Conn(c)
    BY DEF clientVars, Conn
  <1>2. ASSUME NEW c \in Clients
        PROVE  /\ cpc'[c] \in {"connecting", "sending", "waiting"} \/ ok'[c] => Conn(c)' \in Conns
               /\ cpc'[c] \in {"connecting", "sending"} => Fresh(Conn(c))'
               /\ cpc'[c] = "waiting" /\ got'[c] > 0 => served'[Conn(c)'] = 1
               /\ cpc'[c] = "idle" /\ ok'[c] => served'[Conn(c)'] = 1
    <2>1. Conn(c)[1] = c
      BY DEF Conn
    <2>2. cpc[c] \in {"connecting", "sending", "waiting"} \/ ok[c] => Conn(c) \in Conns
      BY DEF SessionInv, ClientInv
    <2>3. cpc[c] \in {"connecting", "sending"} => Fresh(Conn(c)) /\ Fresh(Conn(c))'
      <3>1. cpc[c] \in {"connecting", "sending"} => Fresh(Conn(c))
        BY DEF SessionInv, ClientInv
      <3>2. cpc[c] \in {"connecting", "sending"} => 
               wire'[Conn(c)] = 0 /\ rlen'[Conn(c)] = 0 /\ resp'[Conn(c)] = 0 /\ served'[Conn(c)] = 0
        BY <2>2, <3>1 DEF Fresh, Unserved
      <3> QED BY <3>1, <3>2, <1>1 DEF Fresh, Unserved
    <2>4. cpc[c] = "waiting" /\ got[c] > 0 => served[Conn(c)] = 1 /\ Conn(c) \in Conns
      BY DEF SessionInv, ClientInv
    <2> QED BY <1>1, <2>1, <2>2, <2>3, <2>4 DEF SessionInv, OkMeansServed
  <1>3. ASSUME NEW k \in Conns, k[2] > call'[k[1]] PROVE Unused(k)'
    <2>1. Unused(k)
      BY <1>3, <1>1 DEF SessionInv, ClientInv
    <2> QED BY <2>1 DEF Unused
  <1> QED BY <1>2, <1>3 DEF ClientInv, OkMeansServed

LEMMA SlotFact ==
    ASSUME SessionInv, NEW i \in Slots, table[i] # NoConn
    PROVE  /\ table[i] \in Conns /\ table[i] \in held \ {half} /\ table[i] \notin Backlogged
           /\ ~Unused(table[i])
           /\ \A j \in Slots : table[j] = table[i] => j = i
           /\ wire[table[i]] \in 0..Frame /\ rlen[table[i]] \in 0..Frame
           /\ i \in Nat /\ i + 1 \in 0..MaxConf
  BY BoundsAssumption DEF SessionInv, TypeOK, TableHasHeld, Unused, Slots, Frame

LEMMA PassKeeps ==
    ASSUME SessionInv, PassEnds \/ Sigterm
    PROVE  SessionInv'
  <1>1. /\ UNCHANGED <<clientVars, open, wire, resp, rlen, age, served>>
        /\ UNCHANGED <<listening, backlog, held, half, table, errno>>
        /\ \/ spc = "table" /\ spc' = "top" /\ cur' = 0 /\ UNCHANGED end
           \/ end' = TRUE /\ UNCHANGED <<spc, cur>>
    BY DEF PassEnds, Sigterm, connVars
  <1>2. Backlogged' = Backlogged
    BY <1>1 DEF Backlogged
  <1>3. TypeOK'
    <2>1. spc' \in {"top", "table", "serve", "stopped", "stuck", "null", "exited"} /\ end' \in BOOLEAN
      BY <1>1 DEF SessionInv, TypeOK
    <2>2. cur' \in 0..MaxConf
      BY <1>1, BoundsAssumption DEF SessionInv, TypeOK
    <2> QED BY <2>1, <2>2, <1>1 DEF SessionInv, TypeOK, clientVars
  <1>4. TableHasHeld' /\ BacklogInv' /\ CarriesOne'
    BY <1>1, <1>2 DEF SessionInv, TableHasHeld, BacklogInv, Unserved, CarriesOne
  <1>5. ServeInv' /\ WholeRequestsAreSafe'
    BY <1>1 DEF SessionInv, ServeInv, Serving, WholeRequestsAreSafe, Failed
  <1>6. ClientInv' /\ OkMeansServed'
    <2>1. \A l \in Conns :
              /\ Fresh(l) => Fresh(l)'
              /\ served[l] = 1 => served'[l] = 1
      BY <1>1, ConnsFact DEF SessionInv, ClientInv, Fresh, Unserved
    <2> QED BY <2>1, <1>1, <1>2, ServerKeepsClients
  <1> QED BY <1>3, <1>4, <1>5, <1>6 DEF SessionInv

(* What nothing is received of and nothing is answered on is still sound, wherever
   the connections of the backlog go. *)
LEMMA LessOnTheWire ==
    ASSUME SessionInv, wire' \in [Conns -> 0..Frame], UNCHANGED <<clientVars, resp, rlen, served>>,
           \A l \in Conns : wire'[l] = wire[l] \/ wire'[l] = 0,
           \A i, j \in 1..Len(backlog') : backlog'[i] = backlog'[j] => i = j,
           Backlogged' \subseteq Backlogged,
           held' \subseteq Backlogged \cup held
    PROVE  BacklogInv' /\ ClientInv' /\ CarriesOne' /\ OkMeansServed'
  <1>1. BacklogInv'
    BY DEF SessionInv, BacklogInv, Unserved
  <1>2. CarriesOne'
    <2>1. ASSUME NEW k \in Conns PROVE wire'[k] + rlen'[k] <= Frame
      <3>1. wire[k] \in 0..Frame /\ rlen[k] \in 0..Frame /\ wire[k] + rlen[k] <= Frame
        BY DEF SessionInv, TypeOK, CarriesOne
      <3> QED BY <3>1 DEF Frame
    <2> QED BY <2>1 DEF SessionInv, CarriesOne
  <1>3. \A l \in Conns :
            /\ Fresh(l) => Fresh(l)'
            /\ served[l] = 1 => served'[l] = 1
    BY ConnsFact DEF SessionInv, ClientInv, Fresh, Unserved
  <1> QED BY <1>1, <1>2, <1>3, ServerKeepsClients

(* What na_sock_init closes of server.client->sock is in no slot of the table. *)
LEMMA ReinitFact ==
    ASSUME SessionInv
    PROVE  /\ Reinit \subseteq held /\ half \notin Reinit
           /\ \A i \in Slots : table[i] # NoConn => table[i] \in Reinit
           /\ \A k \in Reinit : \E i \in Slots : table[i] = k
  BY DEF Reinit, SessionInv, TableHasHeld

LEMMA AcceptKeeps ==
    ASSUME SessionInv, AcceptClient
    PROVE  SessionInv'
  <1>1. /\ spc = "top" /\ spc' = "table" /\ cur' = 0 /\ listening' = TRUE
        /\ UNCHANGED <<clientVars, open, resp, rlen, age, served, errno, end>>
    BY DEF AcceptClient
  <1>2. CASE backlog = <<>>
    <2>1. UNCHANGED <<wire, backlog, held, half, table>>
      BY <1>2 DEF AcceptClient
    <2>2. Backlogged' = Backlogged
      BY <2>1 DEF Backlogged
    <2>3. TypeOK'
      BY <1>1, <2>1, BoundsAssumption DEF SessionInv, TypeOK, clientVars
    <2>4. TableHasHeld' /\ BacklogInv' /\ CarriesOne'
      BY <1>1, <2>1, <2>2 DEF SessionInv, TableHasHeld, BacklogInv, Unserved, CarriesOne
    <2>5. ServeInv' /\ WholeRequestsAreSafe'
      BY <1>1, <2>1 DEF SessionInv, ServeInv, Serving, WholeRequestsAreSafe, Failed
    <2>6. \A l \in Conns :
              /\ Fresh(l) => Fresh(l)'
              /\ served[l] = 1 => served'[l] = 1
      BY <1>1, <2>1, ConnsFact DEF SessionInv, ClientInv, Fresh, Unserved
    <2>7. ClientInv' /\ OkMeansServed'
      BY <2>6, <1>1, <2>1, <2>2, ServerKeepsClients
    <2> QED BY <2>3, <2>4, <2>5, <2>7 DEF SessionInv
  <1>3. CASE backlog # <<>>
    <2> DEFINE k == Head(backlog)
    <2>1. /\ backlog' = Tail(backlog) /\ half' = NoConn
          /\ \/ held' = Reinit /\ UNCHANGED table
             \/ \E i \in First(Free) : /\ table' = [table EXCEPT ![i] = k]
                                       /\ held' = Reinit \cup {k}
          /\ wire' = [l \in Conns |-> IF l \in ({k} \cup held) \ held' THEN 0 ELSE wire[l]]
      BY <1>3 DEF AcceptClient
    <2>2. /\ backlog' \in Seq(Conns)
          /\ k \in Conns /\ k \in Backlogged
          /\ Backlogged' = Backlogged \ {k}
          /\ \A i, j \in 1..Len(backlog') : backlog'[i] = backlog'[j] => i = j
      BY <1>3, <2>1, TailFact DEF SessionInv
    <2>3. Unserved(k) /\ k \notin held /\ k # NoConn
      BY <2>2, NoConnAssumption DEF SessionInv, BacklogInv, TableHasHeld
    <2> HIDE DEF k
    <2>4. wire' \in [Conns -> 0..Frame] /\ \A l \in Conns : wire'[l] = wire[l] \/ wire'[l] = 0
      BY <2>1 DEF SessionInv, TypeOK, Frame
    <2>5. BacklogInv' /\ ClientInv' /\ CarriesOne' /\ OkMeansServed'
      BY <1>1, <2>1, <2>2, <2>4, ReinitFact, LessOnTheWire
    <2>6. WholeRequestsAreSafe'
      BY <1>1 DEF WholeRequestsAreSafe, Failed
    <2>7. held' \subseteq Conns /\ Backlogged' \cap held' = {}
      BY <2>1, <2>2, ReinitFact DEF SessionInv, TypeOK, TableHasHeld
    <2>8. cur' \in 0..MaxConf /\ spc' \in {"top", "table"}
      BY <1>1, BoundsAssumption
    <2>9. CASE held' = Reinit /\ UNCHANGED table
      <3>1. TypeOK'
        BY <1>1, <2>1, <2>2, <2>4, <2>7, <2>9, <2>8 DEF SessionInv, TypeOK, clientVars
      <3>2. TableHasHeld'
        <4>1. NoConn \notin held'
          BY <2>7, NoConnAssumption
        <4>2. held' \ {half'} = Reinit /\ table' = table
          BY <2>1, <2>9, <4>1
        <4> QED BY <2>1, <2>7, <4>2, ReinitFact DEF SessionInv, TableHasHeld
      <3>3. ServeInv'
        BY <1>1, <2>4, <2>9 DEF SessionInv, TypeOK, ServeInv, Serving
      <3> QED BY <3>1, <3>2, <3>3, <2>5, <2>6 DEF SessionInv
    <2>10. ASSUME NEW i \in First(Free), table' = [table EXCEPT ![i] = k], held' = Reinit \cup {k}
          PROVE  SessionInv'
      <3>0. i \in Slots /\ table[i] = NoConn
        BY DEF First, Free
      <3>1. TypeOK'
        <4>1. table' \in [Slots -> Conns \cup {NoConn}]
          BY <2>10, <2>2, <3>0 DEF SessionInv, TypeOK
        <4> QED BY <4>1, <1>1, <2>1, <2>2, <2>4, <2>7, <2>8 DEF SessionInv, TypeOK, clientVars
      <3>2. \A j \in Slots : table'[j] = IF j = i THEN k ELSE table[j]
        BY <2>10, <3>0 DEF SessionInv, TypeOK
      <3>3. TableHasHeld'
        <4>1. NoConn \notin held'
          BY <2>7, NoConnAssumption
        <4>2. held' \ {half'} = Reinit \cup {k} /\ half' = NoConn
          BY <2>1, <2>10, <4>1
        <4>3. \A j \in Slots : table[j] # k
          BY <2>3, ReinitFact
        <4>4. \A j \in Slots : table'[j] # NoConn => table'[j] \in Reinit \cup {k}
          BY <3>2, ReinitFact
        <4>5. \A l \in Reinit \cup {k} : \E j \in Slots : table'[j] = l
          <5>1. ASSUME NEW l \in Reinit PROVE \E j \in Slots : table'[j] = l
            <6>1. PICK j \in Slots : table[j] = l
              BY ReinitFact
            <6>2. l # NoConn
              BY <2>10, <4>1
            <6> QED BY <6>1, <6>2, <3>0, <3>2
          <5> QED BY <5>1, <3>0, <3>2
        <4>6. \A j, m \in Slots : table'[j] = table'[m] /\ table'[j] # NoConn => j = m
          BY <3>2, <4>3 DEF SessionInv, TableHasHeld
        <4> QED BY <2>7, <4>2, <4>4, <4>5, <4>6 DEF TableHasHeld
      <3>4. ServeInv'
        <4>1. rlen[k] = 0 /\ served[k] = 0
          BY <2>3 DEF Unserved
        <4>2. ASSUME NEW j \in Slots, table'[j] # NoConn
              PROVE  /\ served'[table'[j]] = 1 => wire'[table'[j]] = 0 /\ rlen'[table'[j]] = 0
                     /\ rlen'[table'[j]] < Frame - 1
          <5>1. CASE j = i
            BY <5>1, <3>2, <4>1, <1>1 DEF Frame
          <5>2. CASE j # i
            <6>1. table'[j] = table[j] /\ table[j] \in Conns
              BY <5>2, <4>2, <3>2, SlotFact
            <6> QED BY <6>1, <4>2, <1>1, <2>4 DEF SessionInv, ServeInv, Serving
          <5> QED BY <5>1, <5>2
        <4> QED BY <4>2, <1>1 DEF ServeInv
      <3> QED BY <3>1, <3>3, <3>4, <2>5, <2>6 DEF SessionInv
    <2> QED BY <2>1, <2>9, <2>10
  <1> QED BY <1>2, <1>3

LEMMA ListenFailsKeeps ==
    ASSUME SessionInv, ListenFails
    PROVE  SessionInv'
  <1>1. /\ spc = "top" /\ backlog' = <<>> /\ listening' = FALSE /\ errno' = "other"
        /\ wire' = [k \in Conns |-> IF k \in (Backlogged \cup held) \ held' THEN 0 ELSE wire[k]]
        /\ UNCHANGED <<clientVars, open, resp, rlen, age, served, table, spc, cur, end>>
    BY DEF ListenFails
  <1>2. \/ UNCHANGED <<held, half>>
        \/ \E k \in Backlogged : held' = Reinit \cup {k} /\ half' = k
    <2>1. CASE UNCHANGED <<held, half>>
      BY <2>1
    <2>2. CASE backlog # <<>> /\ held' = Reinit \cup {Head(backlog)} /\ half' = Head(backlog)
      <3>1. Head(backlog) \in Backlogged
        BY <2>2 DEF SessionInv, TypeOK, Backlogged
      <3> QED BY <2>2, <3>1
    <2> QED BY <2>1, <2>2 DEF ListenFails
  <1>3. /\ backlog' \in Seq(Conns) /\ Backlogged' = {} /\ Backlogged \subseteq Conns
        /\ \A i, j \in 1..Len(backlog') : backlog'[i] = backlog'[j] => i = j
    BY <1>1, EmptyFact, BackloggedConns DEF SessionInv
  <1>4. \A k \in Conns : wire'[k] \in 0..Frame /\ (wire'[k] = wire[k] \/ wire'[k] = 0)
    BY <1>1 DEF SessionInv, TypeOK, Frame
  <1>5. wire' \in [Conns -> 0..Frame]
    BY <1>1, <1>4
  <1>6. TypeOK'
    <2>1. held' \subseteq Conns /\ half' \in Conns \cup {NoConn}
      BY <1>2, <1>3, ReinitFact DEF SessionInv, TypeOK
    <2> QED BY <2>1, <1>1, <1>3, <1>5 DEF SessionInv, TypeOK, clientVars
  <1>7. TableHasHeld'
    <2>1. CASE UNCHANGED <<held, half>>
      BY <2>1, <1>1, <1>3 DEF SessionInv, TableHasHeld
    <2>2. CASE \E k \in Backlogged : held' = Reinit \cup {k} /\ half' = k
      <3>1. PICK k \in Backlogged : held' = Reinit \cup {k} /\ half' = k
        BY <2>2
      <3>2. k \notin Reinit
        BY ReinitFact DEF SessionInv, TableHasHeld
      <3>3. held' \ {half'} = Reinit /\ half' \in held' /\ table' = table
        BY <1>1, <3>1, <3>2
      <3> QED BY <1>3, <3>3, ReinitFact DEF SessionInv, TableHasHeld
    <2> QED BY <2>1, <2>2, <1>2
  <1>8. BacklogInv' /\ ClientInv' /\ CarriesOne' /\ OkMeansServed'
    BY <1>1, <1>2, <1>3, <1>4, <1>5, ReinitFact, LessOnTheWire
  <1>9. ServeInv'
    BY <1>1, <1>4 DEF SessionInv, TypeOK, ServeInv, Serving
  <1>10. WholeRequestsAreSafe'
    BY <1>1 DEF WholeRequestsAreSafe, Failed
  <1> QED BY <1>6, <1>7, <1>8, <1>9, <1>10 DEF SessionInv

LEMMA ReceiveKeeps ==
    ASSUME SessionInv, spc = "table", NEW i \in Slots, table[i] # NoConn, Receive(i)
    PROVE  SessionInv'
  <1> DEFINE k == table[i]
  <1>0. k \in Conns /\ ~Unused(k) /\ k \in held /\ k \notin Backlogged /\ i + 1 \in 0..MaxConf
    BY SlotFact
  <1>1. PICK n \in 0..wire[k] :
           /\ wire' = [wire EXCEPT ![k] = wire[k] - n]
           /\ rlen' = [rlen EXCEPT ![k] = rlen[k] + n]
           /\ age' = [age EXCEPT ![k] =
                        IF n > 0 \/ rlen[k] = 0 THEN 0 ELSE IF age[k] < 2 THEN age[k] + 1 ELSE age[k]]
           /\ IF rlen[k] + n > 0 THEN spc' = "serve" /\ cur' = i ELSE GoOn(i)
           /\ UNCHANGED <<clientVars, open, resp, served, listening, backlog,
                          held, half, table, errno, end>>
    BY DEF Receive
  <1>2. /\ wire[k] \in 0..Frame /\ rlen[k] \in 0..Frame /\ wire[k] + rlen[k] <= Frame
        /\ served[k] = 1 => wire[k] = 0 /\ rlen[k] = 0
        /\ served[k] \in Nat /\ rlen[k] < Frame - 1
    BY <1>0 DEF SessionInv, TypeOK, CarriesOne, ServeInv, Serving
  <1>3. wire[k] - n \in 0..Frame /\ rlen[k] + n \in 0..Frame
    BY <1>2 DEF Frame
  <1>4. Backlogged' = Backlogged
    BY <1>1 DEF Backlogged
  <1> HIDE DEF k
  <1>6. TypeOK'
    <2>1. wire' \in [Conns -> 0..Frame] /\ rlen' \in [Conns -> 0..Frame]
      BY <1>1, <1>3 DEF SessionInv, TypeOK
    <2>2. age' \in [Conns -> 0..2]
      BY <1>0, <1>1, <1>2 DEF SessionInv, TypeOK
    <2>3. spc' \in {"serve", "table"} /\ cur' \in 0..MaxConf
      BY <1>0, <1>1, BoundsAssumption DEF GoOn, Slots
    <2> QED BY <2>1, <2>2, <2>3, <1>1, <1>4 DEF SessionInv, TypeOK, clientVars
  <1>7. TableHasHeld' /\ WholeRequestsAreSafe'
    BY <1>1, <1>4 DEF SessionInv, TableHasHeld, WholeRequestsAreSafe, Failed, GoOn
  <1>8. BacklogInv'
    BY <1>0, <1>1, <1>4, BackloggedConns DEF SessionInv, TypeOK, BacklogInv, Unserved
  <1>9. CarriesOne'
    BY <1>0, <1>1, <1>2, <1>3 DEF SessionInv, TypeOK, CarriesOne, Frame
  <1>10. ServeInv'
    <2>1. ASSUME NEW j \in Slots, table'[j] # NoConn
          PROVE  /\ served'[table'[j]] = 1 => wire'[table'[j]] = 0 /\ rlen'[table'[j]] = 0
                 /\ rlen'[table'[j]] < Frame - 1 \/ (spc' = "serve" /\ j = cur')
      <3>1. CASE j = i
        BY <3>1, <1>0, <1>1, <1>2, <1>3 DEF SessionInv, TypeOK, k, GoOn, Frame
      <3>2. CASE j # i
        <4>1. table[j] \in Conns /\ table[j] # k
          BY <2>1, <3>2, <1>1, SlotFact DEF k
        <4> QED BY <4>1, <2>1, <1>1 DEF SessionInv, TypeOK, ServeInv, Serving
      <3> QED BY <3>1, <3>2
    <2>2. spc' = "serve" => cur' \in Slots /\ table'[cur'] # NoConn /\ rlen'[table'[cur']] > 0
      BY <1>0, <1>1, <1>3 DEF SessionInv, TypeOK, GoOn, k
    <2>3. spc' # "stopped"
      BY <1>1 DEF GoOn
    <2> QED BY <2>1, <2>2, <2>3 DEF ServeInv
  <1>11. ClientInv' /\ OkMeansServed'
    <2>1. ASSUME NEW l \in Conns
          PROVE /\ Fresh(l) => Fresh(l)'
                /\ served[l] = 1 => served'[l] = 1
      <3>1. Fresh(l) => Fresh(l)'
        BY <1>0, <1>1, <1>2 DEF SessionInv, TypeOK, Fresh, Unserved
      <3> QED BY <3>1, <1>1, ConnsFact DEF SessionInv, ClientInv
    <2> QED BY <2>1, <1>1, <1>4, ServerKeepsClients
  <1> QED BY <1>6, <1>7, <1>8, <1>9, <1>10, <1>11 DEF SessionInv

LEMMA DeleteFact ==
    ASSUME SessionInv, NEW i \in Slots, table[i] # NoConn, Delete(i),
           UNCHANGED <<backlog, half>>
    PROVE  /\ table' \in [Slots -> Conns \cup {NoConn}]
           /\ held' = held \ {table[i]}
           /\ wire' \in [Conns -> 0..Frame]
           /\ Backlogged' = Backlogged
           /\ TableHasHeld'
           /\ \A j \in Slots : table'[j] # NoConn => table'[j] = table[j] /\ table[j] # table[i]
           /\ \A l \in Conns : wire'[l] = wire[l] \/ wire'[l] = 0
  <1> DEFINE k == table[i]
  <1>0. k \in Conns /\ k \in held \ {half} /\ \A j \in Slots : table[j] = k => j = i
    BY SlotFact
  <1>1. /\ table' = [table EXCEPT ![i] = NoConn]
        /\ wire' = [wire EXCEPT ![k] = 0]
        /\ held' = held \ {k}
    BY DEF Delete
  <1> HIDE DEF k
  <1>2. table' \in [Slots -> Conns \cup {NoConn}] /\ wire' \in [Conns -> 0..Frame]
    <2>1. table' \in [Slots -> Conns \cup {NoConn}]
      BY <1>1 DEF SessionInv, TypeOK
    <2>2. wire \in [Conns -> 0..Frame]
      BY DEF SessionInv, TypeOK
    <2>3. wire' \in [Conns -> 0..Frame]
      <3>1. 0 \in 0..Frame
        BY DEF Frame
      <3> QED BY <1>1, <2>2, <3>1
    <2> QED BY <2>1, <2>3
  <1>3. \A j \in Slots : table'[j] = IF j = i THEN NoConn ELSE table[j]
    BY <1>1 DEF SessionInv, TypeOK
  <1>4. Backlogged' = Backlogged
    BY DEF Backlogged
  <1>5. \A j \in Slots : table'[j] # NoConn => table'[j] = table[j] /\ table[j] # k
    BY <1>0, <1>3
  <1>6. TableHasHeld'
    <2>1. (half' # NoConn => half' \in held') /\ Backlogged' \cap held' = {}
      BY <1>0, <1>1, <1>4 DEF SessionInv, TableHasHeld
    <2>2. \A j \in Slots : table'[j] # NoConn => table'[j] \in held' \ {half'}
      BY <1>1, <1>5 DEF SessionInv, TableHasHeld
    <2>3. ASSUME NEW l \in held' \ {half'} PROVE \E j \in Slots : table'[j] = l
      <3>1. l \in held \ {half} /\ l # k
        BY <2>3, <1>1
      <3>2. PICK j \in Slots : table[j] = l
        BY <3>1 DEF SessionInv, TableHasHeld
      <3> QED BY <3>1, <3>2, <1>3 DEF k
    <2>4. \A j, m \in Slots : table'[j] = table'[m] /\ table'[j] # NoConn => j = m
      BY <1>5 DEF SessionInv, TableHasHeld
    <2> QED BY <2>1, <2>2, <2>3, <2>4 DEF TableHasHeld
  <1>7. \A l \in Conns : wire'[l] = wire[l] \/ wire'[l] = 0
    BY <1>1 DEF SessionInv, TypeOK
  <1> QED BY <1>1, <1>2, <1>4, <1>5, <1>6, <1>7 DEF k

LEMMA ExitKeeps ==
    ASSUME SessionInv, Exit,
           UNCHANGED <<clientVars, open, resp, rlen, age, served, cur, errno, end>>,
           end \/ \E k \in Conns : rlen[k] \in 1..(Frame - 1)
    PROVE  SessionInv'
  <1>1. /\ spc' = "exited" /\ listening' = FALSE /\ backlog' = <<>>
        /\ held' = {} /\ half' = NoConn
        /\ wire' = [k \in Conns |-> 0] /\ table' = [i \in Slots |-> NoConn]
    BY DEF Exit
  <1>2. backlog' \in Seq(Conns) /\ Backlogged' = {}
    BY <1>1, EmptyFact
  <1>3. wire' \in [Conns -> 0..Frame]
    BY <1>1 DEF Frame
  <1>4. TypeOK'
    <2>1. table' \in [Slots -> Conns \cup {NoConn}]
      BY <1>1
    <2> QED BY <2>1, <1>1, <1>2, <1>3 DEF SessionInv, TypeOK, clientVars
  <1>5. TableHasHeld'
    BY <1>1, <1>2 DEF TableHasHeld
  <1>6. BacklogInv' /\ ClientInv' /\ CarriesOne' /\ OkMeansServed'
    BY <1>1, <1>2, <1>3, LessOnTheWire
  <1>7. ServeInv'
    BY <1>1 DEF ServeInv, Serving
  <1>8. WholeRequestsAreSafe'
    BY <1>1 DEF WholeRequestsAreSafe, Failed
  <1> QED BY <1>4, <1>5, <1>6, <1>7, <1>8 DEF SessionInv

LEMMA ReceiveFailsKeeps ==
    ASSUME SessionInv, spc = "table", NEW i \in Slots, table[i] # NoConn, ReceiveFails(i)
    PROVE  SessionInv'
  <1> DEFINE k == table[i]
  <1>0. k \in Conns /\ i + 1 \in 0..MaxConf
    BY SlotFact
  <1>1. rlen[k] \in 0..Frame /\ rlen[k] < Frame - 1
    BY <1>0 DEF SessionInv, TypeOK, ServeInv, Serving, Frame
  <1>2. UNCHANGED <<clientVars, open, resp, rlen, age, served>>
    BY DEF ReceiveFails
  <1>3. ASSUME Delete(i), UNCHANGED <<listening, backlog, half>>,
               \/ GoOn(i) /\ UNCHANGED end
               \/ Segfault /\ UNCHANGED cur /\ rlen[k] > 0,
               errno' \in {errno, "other"}
        PROVE  SessionInv'
    <2>1. /\ table' \in [Slots -> Conns \cup {NoConn}]
          /\ held' = held \ {k}
          /\ wire' \in [Conns -> 0..Frame]
          /\ Backlogged' = Backlogged
          /\ TableHasHeld'
          /\ \A j \in Slots : table'[j] # NoConn => table'[j] = table[j]
          /\ \A l \in Conns : wire'[l] = wire[l] \/ wire'[l] = 0
      BY <1>3, DeleteFact
    <2>2. BacklogInv' /\ ClientInv' /\ CarriesOne' /\ OkMeansServed'
      BY <1>2, <1>3, <2>1, LessOnTheWire DEF SessionInv, BacklogInv
    <2>3. TypeOK'
      <3>1. spc' \in {"table", "stuck"} /\ end' \in BOOLEAN /\ cur' \in 0..MaxConf
        BY <1>0, <1>3 DEF GoOn, Segfault, SessionInv, TypeOK
      <3>2. errno' \in {"EWOULDBLOCK", "other"}
        BY <1>3 DEF SessionInv, TypeOK
      <3> QED BY <3>1, <3>2, <1>2, <1>3, <2>1 DEF SessionInv, TypeOK, clientVars
    <2>4. ServeInv'
      <3>1. spc' \in {"table", "stuck"}
        BY <1>3 DEF GoOn, Segfault
      <3>2. ASSUME NEW j \in Slots, table'[j] # NoConn
            PROVE  /\ served'[table'[j]] = 1 => wire'[table'[j]] = 0 /\ rlen'[table'[j]] = 0
                   /\ rlen'[table'[j]] < Frame - 1
        <4>1. table'[j] = table[j] /\ table[j] \in Conns
          BY <3>2, <2>1, SlotFact
        <4> QED BY <4>1, <3>2, <1>2, <2>1 DEF SessionInv, ServeInv, Serving
      <3> QED BY <3>1, <3>2 DEF ServeInv
    <2>5. WholeRequestsAreSafe'
      <3>1. CASE GoOn(i)
        BY <3>1 DEF GoOn, WholeRequestsAreSafe, Failed
      <3>2. CASE rlen[k] > 0
        <4>1. rlen'[k] \in 1..(Frame - 1)
          BY <3>2, <1>1, <1>2 DEF Frame
        <4> QED BY <4>1, <1>0 DEF WholeRequestsAreSafe
      <3> QED BY <1>3, <3>1, <3>2
    <2> QED BY <2>1, <2>2, <2>3, <2>4, <2>5 DEF SessionInv
  <1>4. CASE rlen[k] > 0 /\ Exit /\ UNCHANGED <<cur, errno, end>>
    <2>1. rlen[k] \in 1..(Frame - 1)
      BY <1>1, <1>4 DEF Frame
    <2> QED BY <2>1, <1>0, <1>2, <1>4, ExitKeeps
  <1> QED BY <1>3, <1>4 DEF ReceiveFails

(* The state after Consume or a failed response, in terms of the connection. *)
LEMMA ServeKeeps ==
    ASSUME SessionInv, nc_mobiled_serve
    PROVE  SessionInv'
  <1> DEFINE i == cur
             k == table[cur]
  <1>0. /\ spc = "serve" /\ i \in Slots /\ table[i] # NoConn /\ rlen[k] > 0
        /\ UNCHANGED <<clientVars, open, listening, backlog, half>>
    BY DEF nc_mobiled_serve, SessionInv, ServeInv
  <1>1. /\ k \in Conns /\ k \in held /\ k \notin Backlogged
        /\ i + 1 \in 0..MaxConf /\ i \in 0..MaxConf
        /\ \A j \in Slots : table[j] = k => j = i
    BY <1>0, SlotFact DEF SessionInv, TypeOK
  <1>2. /\ wire[k] \in 0..Frame /\ rlen[k] \in 1..Frame /\ wire[k] + rlen[k] <= Frame
        /\ resp[k] = 0 /\ served[k] = 0
    <2>1. wire[k] \in 0..Frame /\ rlen[k] \in 0..Frame /\ resp[k] \in 0..Frame /\ served[k] \in Nat
      BY <1>1 DEF SessionInv, TypeOK
    <2>2. served[k] # 1 /\ served[k] <= 1 /\ (resp[k] > 0 => served[k] = 1)
      BY <1>0, <1>1 DEF SessionInv, ServeInv, Serving, CarriesOne
    <2>3. wire[k] + rlen[k] <= Frame
      BY <1>1 DEF SessionInv, CarriesOne
    <2> QED BY <1>0, <2>1, <2>2, <2>3 DEF Frame
  <1> HIDE DEF k
  <1>3. \/ UNCHANGED <<served, resp>>
        \/ /\ Parsed(rlen[k]) /\ served' = [served EXCEPT ![k] = 1]
           /\ \E n \in 0..Frame : resp' = [resp EXCEPT ![k] = n]
    <2>1. \/ UNCHANGED <<served, resp>>
          \/ Parsed(rlen[k]) /\ \E succeeds \in BOOLEAN : Respond(k, succeeds)
      BY DEF nc_mobiled_serve, k
    <2>2. ASSUME NEW succeeds \in BOOLEAN, Respond(k, succeeds)
          PROVE  /\ served' = [served EXCEPT ![k] = 1]
                 /\ \E n \in 0..Frame : resp' = [resp EXCEPT ![k] = n]
      <3>1. served' = [served EXCEPT ![k] = 1]
        BY <1>2, <2>2 DEF Respond
      <3>2. PICK n \in 0..Frame : resp' = [resp EXCEPT ![k] = IF open[k] THEN n ELSE 0]
        BY <2>2 DEF Respond
      <3>3. CASE open[k]
        BY <3>1, <3>2, <3>3
      <3>4. CASE ~open[k]
        <4>1. 0 \in 0..Frame
          BY DEF Frame
        <4> QED BY <3>1, <3>2, <3>4, <4>1
      <3> QED BY <3>3, <3>4
    <2> QED BY <2>1, <2>2
  <1>4. resp' \in [Conns -> 0..Frame] /\ served' \in [Conns -> Nat]
    <2>1. resp \in [Conns -> 0..Frame] /\ served \in [Conns -> Nat]
      BY DEF SessionInv, TypeOK
    <2>2. resp' \in [Conns -> 0..Frame]
      BY <1>3, <2>1
    <2>3. served' \in [Conns -> Nat]
      BY <1>3, <2>1
    <2> QED BY <2>2, <2>3
  <1>5. \A l \in Conns : l # k => resp'[l] = resp[l] /\ served'[l] = served[l]
    BY <1>3 DEF SessionInv, TypeOK
  <1>6. /\ served'[k] \in {0, 1} /\ resp'[k] \in 0..Frame
        /\ resp'[k] > 0 => served'[k] = 1
        /\ served'[k] = 1 => Parsed(rlen[k])
    BY <1>1, <1>2, <1>3, <1>4 DEF SessionInv, TypeOK
  <1>7. /\ rlen' \in [Conns -> 0..Frame] /\ age' \in [Conns -> 0..2]
        /\ wire' \in [Conns -> 0..Frame]
        /\ \A l \in Conns : wire'[l] = wire[l] \/ wire'[l] = 0
        /\ \A l \in Conns : l # k => rlen'[l] = rlen[l]
        /\ table' \in [Slots -> Conns \cup {NoConn}] /\ held' \subseteq held
        /\ Backlogged' = Backlogged
        /\ TableHasHeld'
        /\ \A j \in Slots : table'[j] # NoConn => table'[j] = table[j]
        /\ errno' \in {"EWOULDBLOCK", "other"} /\ end' \in BOOLEAN
        /\ \/ /\ GoOn(i)
              /\ \/ rlen'[k] < Frame - 1 /\ (served'[k] = 1 => rlen'[k] = 0 /\ wire'[k] = 0)
                 \/ \A j \in Slots : table'[j] # k
              /\ rlen'[k] <= rlen[k]
           \/ Segfault /\ UNCHANGED <<cur, rlen>> /\ rlen[k] = Frame - 1
           \/ NoData /\ UNCHANGED <<cur, rlen>>
    <2>0. /\ wire \in [Conns -> 0..Frame] /\ rlen \in [Conns -> 0..Frame] /\ age \in [Conns -> 0..2]
          /\ table \in [Slots -> Conns \cup {NoConn}] /\ TableHasHeld
          /\ errno \in {"EWOULDBLOCK", "other"} /\ end \in BOOLEAN
      BY DEF SessionInv, TypeOK
    <2>1. ASSUME Delete(i)
          PROVE  /\ wire' \in [Conns -> 0..Frame]
                 /\ \A l \in Conns : wire'[l] = wire[l] \/ wire'[l] = 0
                 /\ table' \in [Slots -> Conns \cup {NoConn}] /\ held' \subseteq held
                 /\ TableHasHeld'
                 /\ \A j \in Slots : table'[j] # NoConn => table'[j] = table[j]
                 /\ \A j \in Slots : table'[j] # k
      BY <1>0, <1>1, <2>1, DeleteFact, NoConnAssumption DEF k
    <2>2. Backlogged' = Backlogged
      BY <1>0 DEF Backlogged
    <2>3. ASSUME UNCHANGED <<wire, held, table>>
          PROVE  /\ wire' \in [Conns -> 0..Frame]
                 /\ \A l \in Conns : wire'[l] = wire[l] \/ wire'[l] = 0
                 /\ table' \in [Slots -> Conns \cup {NoConn}] /\ held' \subseteq held
                 /\ TableHasHeld'
                 /\ \A j \in Slots : table'[j] # NoConn => table'[j] = table[j]
      BY <2>0, <2>2, <2>3, <1>0 DEF TableHasHeld
    <2>4. CASE Consume(i) /\ (UNCHANGED <<served, resp>> \/ Parsed(rlen[k]))
      <3>1. CASE Remaining(rlen[k]) < 0 /\ Segfault /\ UNCHANGED <<wire, rlen, age, held, table, cur, errno>>
        <4>1. rlen[k] = Frame - 1
          BY <3>1, <1>2 DEF Remaining, Used, Parsed, Frame
        <4> QED BY <2>0, <2>2, <2>3, <3>1, <4>1 DEF Segfault
      <3>2. CASE /\ Remaining(rlen[k]) >= 0
                 /\ rlen' = [rlen EXCEPT ![k] = Remaining(rlen[k])]
                 /\ age' = [age EXCEPT ![k] = IF Used(rlen[k]) > 0 THEN 0 ELSE age[k]]
                 /\ Delete(i) \/ UNCHANGED <<wire, held, table>>
                 /\ GoOn(i) /\ UNCHANGED <<end, errno>>
        <4>1. /\ Remaining(rlen[k]) \in 0..Frame /\ Remaining(rlen[k]) <= rlen[k]
              /\ Remaining(rlen[k]) < Frame - 1
              /\ Parsed(rlen[k]) => Remaining(rlen[k]) = 0 /\ wire[k] = 0
          BY <3>2, <1>2 DEF Remaining, Used, Parsed, Frame
        <4>2. /\ rlen' \in [Conns -> 0..Frame] /\ rlen'[k] = Remaining(rlen[k])
              /\ \A l \in Conns : l # k => rlen'[l] = rlen[l]
          BY <2>0, <3>2, <4>1, <1>1
        <4>3. age' \in [Conns -> 0..2]
          <5>1. age[k] \in 0..2 /\ 0 \in 0..2
            BY <2>0, <1>1
          <5> QED BY <2>0, <3>2, <5>1
        <4>4. wire[k] = 0 => wire'[k] = 0
          BY <2>1, <2>3, <3>2, <1>1
        <4>5. served'[k] = 1 => rlen'[k] = 0 /\ wire'[k] = 0
          BY <4>1, <4>2, <4>4, <1>6
        <4> QED BY <2>0, <2>1, <2>2, <2>3, <3>2, <4>1, <4>2, <4>3, <4>5
      <3> QED BY <2>4, <3>1, <3>2 DEF Consume, k
    <2>5. CASE /\ Delete(i) /\ GoOn(i)
               /\ errno' \in {"EWOULDBLOCK", "other"}
               /\ UNCHANGED <<rlen, age, end>>
      BY <2>0, <2>1, <2>2, <2>5, <1>2 DEF Frame
    <2>6. CASE NoData /\ UNCHANGED <<wire, rlen, age, held, table, cur, errno>>
      BY <2>0, <2>2, <2>3, <2>6 DEF NoData
    <2> QED BY <2>4, <2>5, <2>6 DEF nc_mobiled_serve, k
  <1>8. TypeOK'
    <2>1. spc' \in {"table", "stuck", "null"} /\ cur' \in 0..MaxConf
      BY <1>1, <1>7 DEF GoOn, Segfault, NoData, SessionInv, TypeOK
    <2>2. held' \subseteq Conns
      BY <1>7 DEF SessionInv, TypeOK
    <2> QED BY <2>1, <2>2, <1>0, <1>4, <1>7 DEF SessionInv, TypeOK, clientVars
  <1>9. BacklogInv'
    BY <1>0, <1>1, <1>5, <1>7, BackloggedConns DEF SessionInv, BacklogInv, Unserved
  <1>10. CarriesOne'
    <2>1. ASSUME NEW l \in Conns
          PROVE  /\ wire'[l] + rlen'[l] <= Frame
                 /\ served'[l] <= 1
                 /\ resp'[l] > 0 => served'[l] = 1
      <3>1. /\ wire[l] \in 0..Frame /\ rlen[l] \in 0..Frame /\ wire[l] + rlen[l] <= Frame
            /\ wire'[l] \in 0..Frame /\ rlen'[l] \in 0..Frame /\ rlen'[l] <= rlen[l]
        <4>1. rlen'[l] <= rlen[l]
          <5>1. rlen[l] \in 0..Frame /\ rlen' \in [Conns -> 0..Frame]
            BY <1>7 DEF SessionInv, TypeOK
          <5>2. CASE l # k
            BY <5>1, <5>2, <1>7 DEF Frame
          <5>3. CASE l = k
            BY <5>1, <5>3, <1>7 DEF Frame
          <5> QED BY <5>2, <5>3
        <4> QED BY <4>1, <1>7 DEF SessionInv, TypeOK, CarriesOne
      <3>2. wire'[l] + rlen'[l] <= Frame
        BY <3>1, <1>7 DEF Frame
      <3>3. served'[l] <= 1 /\ (resp'[l] > 0 => served'[l] = 1)
        BY <1>5, <1>6 DEF SessionInv, CarriesOne
      <3> QED BY <3>2, <3>3
    <2> QED BY <2>1 DEF CarriesOne
  <1>11. ServeInv'
    <2>1. CASE Segfault \/ NoData
      BY <2>1 DEF Segfault, NoData, ServeInv, Serving
    <2>2. CASE /\ GoOn(i)
               /\ \/ rlen'[k] < Frame - 1 /\ (served'[k] = 1 => rlen'[k] = 0 /\ wire'[k] = 0)
                  \/ \A j \in Slots : table'[j] # k
      <3>1. ASSUME NEW j \in Slots, table'[j] # NoConn
            PROVE  /\ served'[table'[j]] = 1 => wire'[table'[j]] = 0 /\ rlen'[table'[j]] = 0
                   /\ rlen'[table'[j]] < Frame - 1
        <4>1. table'[j] = table[j] /\ table[j] \in Conns
          BY <3>1, <1>7, SlotFact
        <4>2. CASE table[j] = k
          BY <4>1, <4>2, <2>2
        <4>3. CASE table[j] # k
          <5>1. j # i
            BY <4>3 DEF k
          <5>2. /\ served[table[j]] = 1 => wire[table[j]] = 0 /\ rlen[table[j]] = 0
                /\ rlen[table[j]] < Frame - 1
            BY <4>1, <5>1, <3>1, <1>0 DEF SessionInv, ServeInv, Serving
          <5> QED BY <4>1, <4>3, <5>2, <1>5, <1>7
        <4> QED BY <4>2, <4>3
      <3> QED BY <2>2, <3>1 DEF ServeInv, Serving, GoOn
    <2> QED BY <2>1, <2>2, <1>7
  <1>12. WholeRequestsAreSafe'
    <2>1. CASE GoOn(i)
      BY <2>1 DEF GoOn, WholeRequestsAreSafe, Failed
    <2>2. CASE UNCHANGED rlen /\ rlen[k] = Frame - 1
      BY <2>2, <1>1 DEF WholeRequestsAreSafe, Frame
    <2>3. CASE NoData
      BY <2>3 DEF NoData, WholeRequestsAreSafe, Failed
    <2> QED BY <2>1, <2>2, <2>3, <1>7
  <1>13. ClientInv' /\ OkMeansServed'
    <2>1. ASSUME NEW l \in Conns
          PROVE /\ Fresh(l) => Fresh(l)'
                /\ served[l] = 1 => served'[l] = 1
      <3>1. CASE l = k
        <4>1. ~Fresh(k)
          BY <1>2 DEF Fresh, Unserved
        <4> QED BY <3>1, <4>1, <1>2
      <3>2. CASE l # k
        BY <3>2, <1>5, <1>7, ConnsFact DEF SessionInv, ClientInv, Fresh, Unserved
      <3> QED BY <3>1, <3>2
    <2> QED BY <2>1, <1>0, <1>7, ServerKeepsClients
  <1> QED BY <1>7, <1>8, <1>9, <1>10, <1>11, <1>12, <1>13 DEF SessionInv

LEMMA StopKeeps ==
    ASSUME SessionInv, StopServing
    PROVE  SessionInv'
  <1>1. UNCHANGED <<clientVars, open, resp, rlen, age, served, cur, errno, end>>
    BY DEF StopServing
  <1>2. CASE /\ spc = "top" /\ end /\ spc' = "stopped"
             /\ UNCHANGED <<wire, listening, backlog, held, half, table>>
    <2>1. Backlogged' = Backlogged
      BY <1>2 DEF Backlogged
    <2>2. TypeOK'
      BY <1>1, <1>2 DEF SessionInv, TypeOK, clientVars
    <2>3. TableHasHeld' /\ ServeInv' /\ WholeRequestsAreSafe'
      BY <1>1, <1>2, <2>1 DEF SessionInv, TableHasHeld, ServeInv, Serving,
                              WholeRequestsAreSafe, Failed
    <2>4. wire \in [Conns -> 0..Frame]
      BY DEF SessionInv, TypeOK
    <2>5. BacklogInv' /\ ClientInv' /\ CarriesOne' /\ OkMeansServed'
      BY <1>1, <1>2, <2>1, <2>4, LessOnTheWire DEF SessionInv, BacklogInv
    <2> QED BY <2>2, <2>3, <2>5 DEF SessionInv
  <1>3. CASE spc = "stopped" /\ Exit
    <2>1. end
      BY <1>3 DEF SessionInv, ServeInv
    <2> QED BY <1>1, <1>3, <2>1, ExitKeeps
  <1> QED BY <1>2, <1>3 DEF StopServing

LEMMA NextKeeps ==
    ASSUME SessionInv, [Next]_vars
    PROVE  SessionInv'
  <1>1. ASSUME NEW c \in Clients, Connect(c) \/ ConnectFails(c) \/ Call(c) \/ LoseToken(c)
        PROVE  SessionInv'
    BY <1>1, ClientKeeps
  <1>2. CASE ListenFails
    BY <1>2, ListenFailsKeeps
  <1>3. CASE AcceptClient
    BY <1>3, AcceptKeeps
  <1>4. CASE ProcessClient
    <2>1. PICK i \in First(UsedFrom(cur)) : Receive(i) \/ ReceiveFails(i)
      BY <1>4 DEF ProcessClient
    <2>2. i \in Slots /\ table[i] # NoConn /\ spc = "table"
      BY <1>4 DEF First, UsedFrom, ProcessClient
    <2> QED BY <2>1, <2>2, ReceiveKeeps, ReceiveFailsKeeps
  <1>5. CASE nc_mobiled_serve
    BY <1>5, ServeKeeps
  <1>6. CASE PassEnds \/ Sigterm
    BY <1>6, PassKeeps
  <1>7. CASE StopServing
    BY <1>7, StopKeeps
  <1>8. CASE UNCHANGED vars
    <2>1. /\ UNCHANGED <<cpc, call, polls, got, ok, open, wire, resp, rlen, age, served>>
          /\ UNCHANGED <<listening, backlog, held, half, table, spc, cur, errno, end>>
      BY <1>8 DEF vars, clientVars, connVars, serverVars
    <2>2. Backlogged' = Backlogged /\ \A c \in Clients : Conn(c)' = Conn(c)
      BY <2>1 DEF Backlogged, Conn
    <2>3. TypeOK' /\ TableHasHeld' /\ BacklogInv' /\ CarriesOne'
      BY <2>1, <2>2 DEF SessionInv, TypeOK, TableHasHeld, BacklogInv, Unserved, CarriesOne
    <2>4. ServeInv' /\ WholeRequestsAreSafe' /\ OkMeansServed'
      BY <2>1, <2>2 DEF SessionInv, ServeInv, Serving, WholeRequestsAreSafe, Failed, OkMeansServed
    <2>5. ClientInv'
      BY <2>1, <2>2 DEF SessionInv, ClientInv, Unused, Fresh, Unserved
    <2> QED BY <2>3, <2>4, <2>5 DEF SessionInv
  <1> QED BY <1>1, <1>2, <1>3, <1>4, <1>5, <1>6, <1>7, <1>8 DEF Next, Server, Ended

-----------------------------------------------------------------------------
(* SessionInv holds in every reachable state: it is what relates the pieces of a
   request on the wire, in the server's buffer and served, on every connection,
   through every step of the clients and of the server. *)
THEOREM SessionInvariant == Spec => []SessionInv
  <1>1. SessionInv /\ [Next]_vars => SessionInv'
    BY NextKeeps
  <1> QED BY InitKeeps, <1>1, PTL DEF Spec

(* The types of the state, with a frame never more than whole in the server's
   buffer. *)
THEOREM TypeCorrect == Spec => []TypeOK
  <1>1. SessionInv => TypeOK
    BY DEF SessionInv
  <1> QED BY <1>1, SessionInvariant, PTL

(* The table of the server and its descriptors agree, for every size of the table:
   no slot outlives its socket, no socket outlives its slot, and one that was accepted
   half-way waits in server.client to be closed. *)
THEOREM TableAgrees == Spec => []TableHasHeld
  <1>1. SessionInv => TableHasHeld
    BY DEF SessionInv
  <1> QED BY <1>1, SessionInvariant, PTL

(* No request is answered twice, however its pieces arrive and whenever clients
   give up. *)
THEOREM ServedOnce == Spec => []ServedAtMostOnce
  <1>1. SessionInv => ServedAtMostOnce
    BY DEF SessionInv, CarriesOne, ServedAtMostOnce
  <1> QED BY <1>1, SessionInvariant, PTL

(* A call that returns 0 read the response to its own request. *)
THEOREM OkIsServed == Spec => []OkMeansServed
  <1>1. SessionInv => OkMeansServed
    BY DEF SessionInv
  <1> QED BY <1>1, SessionInvariant, PTL

(* But for a request without data, the server hangs or aborts only after a client
   closed or was served on a part of a request. *)
THEOREM WholeRequestsSafe == Spec => []WholeRequestsAreSafe
  <1>1. SessionInv => WholeRequestsAreSafe
    BY DEF SessionInv
  <1> QED BY <1>1, SessionInvariant, PTL

-----------------------------------------------------------------------------
(* The exchange is a remote call. *)
Calling == {"connecting", "sending", "waiting"}
Pending == {c \in Clients : cpc[c] \in Calling}
Succeeded == {c \in Clients : ok[c]}
remoteVars == <<call, Pending, served, Succeeded>>

(* The abstract specification's definitions under the map. *)
LEMMA RemoteDefs ==
    /\ Remote!Init <=> /\ call = [c \in Clients |-> 0] /\ Pending = {} /\ Succeeded = {}
                       /\ served = [k \in Conns |-> 0]
    /\ [Remote!Next]_remoteVars <=> Remote!Next \/ UNCHANGED remoteVars
    /\ Remote!Calls = Conns
  BY DEF Remote!Init, Remote!Calls, Conns, remoteVars, Pending, Succeeded, Calling

(* What each action of the abstract specification allows. *)
LEMMA RemoteSteps ==
    /\ \A c \in Clients :
        /\ /\ c \notin Pending /\ call[c] < MaxCalls[c]
           /\ call' = [call EXCEPT ![c] = @ + 1]
           /\ Pending' = Pending \cup {c} /\ Succeeded' = Succeeded \ {c} /\ served' = served
           => Remote!Next
        /\ /\ c \notin Pending /\ Succeeded' = Succeeded \ {c}
           /\ call' = call /\ Pending' = Pending /\ served' = served
           => Remote!Next
        /\ /\ c \in Pending /\ served[<<c, call[c]>>] = 1
           /\ Pending' = Pending \ {c} /\ Succeeded' = Succeeded \cup {c}
           /\ call' = call /\ served' = served
           => Remote!Next
        /\ /\ c \in Pending /\ Pending' = Pending \ {c} /\ Succeeded' = Succeeded \ {c}
           /\ call' = call /\ served' = served
           => Remote!Next
    /\ \A k \in Conns :
        /\ k[2] <= call[k[1]] /\ served[k] = 0 /\ served' = [served EXCEPT ![k] = 1]
        /\ call' = call /\ Pending' = Pending /\ Succeeded' = Succeeded
        => Remote!Next
  <1>1. Remote!Calls = Conns
    BY RemoteDefs
  <1> QED
    BY <1>1 DEF Remote!Next, Remote!Begin, Remote!Refuse, Remote!Succeed, Remote!Fail, Remote!Answer,
                Pending, Succeeded, Calling

(* A call that returns, with the result of a request that was served if it is 0. *)
LEMMA ReturnEnds ==
    ASSUME TypeOK, NEW c \in Clients, cpc[c] \in Calling, NEW at \in {"idle", "gone"},
           cpc' = [cpc EXCEPT ![c] = at], NEW result \in BOOLEAN, Close(c, result),
           result => served[Conn(c)] = 1
    PROVE  Remote!Next
  <1>1. c \in Pending /\ Pending' = Pending \ {c}
    BY DEF Pending, Calling, TypeOK
  <1>2. call' = call /\ served' = served /\ ok' = [ok EXCEPT ![c] = result]
    BY DEF Close
  <1>3. CASE result
    <2>1. Succeeded' = Succeeded \cup {c}
      BY <1>2, <1>3 DEF Succeeded, TypeOK
    <2> QED BY <1>1, <1>2, <1>3, <2>1, RemoteSteps DEF Conn
  <1>4. CASE ~result
    <2>1. Succeeded' = Succeeded \ {c}
      BY <1>2, <1>4 DEF Succeeded, TypeOK
    <2> QED BY <1>1, <1>2, <2>1, RemoteSteps
  <1> QED BY <1>3, <1>4

(* A step of a client is a step of its call, or none. *)
LEMMA ClientCalls ==
    ASSUME SessionInv, NEW c \in Clients, Connect(c) \/ ConnectFails(c) \/ Call(c) \/ LoseToken(c)
    PROVE  Remote!Next \/ UNCHANGED remoteVars
  <1>0. TypeOK
    BY DEF SessionInv
  <1>1. CASE Connect(c)
    <2>1. call' = [call EXCEPT ![c] = @ + 1] /\ served' = served /\ call[c] < MaxCalls[c]
      BY <1>1 DEF Connect
    <2>2. c \notin Pending /\ Pending' = Pending \cup {c}
      BY <1>0, <1>1 DEF Connect, Pending, Calling, TypeOK
    <2>3. Succeeded' = Succeeded \ {c}
      BY <1>0, <1>1 DEF Connect, Succeeded, TypeOK
    <2> QED BY <2>1, <2>2, <2>3, RemoteSteps
  <1>2. CASE ConnectFails(c)
    <2>1. call' = call /\ served' = served /\ cpc' = cpc /\ c \notin Pending
      BY <1>2 DEF ConnectFails, connVars, Pending, Calling
    <2>2. Succeeded' = Succeeded \ {c}
      BY <1>0, <1>2 DEF ConnectFails, Succeeded, TypeOK
    <2>3. Pending' = Pending
      BY <2>1 DEF Pending
    <2> QED BY <2>1, <2>2, <2>3, RemoteSteps
  <1>3. CASE ConnectAgain(c)
    <2>1. CASE cpc' = [cpc EXCEPT ![c] = "sending"]
               /\ UNCHANGED <<call, polls, got, ok, connVars, serverVars>>
      BY <1>0, <1>3, <2>1 DEF ConnectAgain, remoteVars, Pending, Succeeded, Calling, connVars, TypeOK
    <2>2. CASE Return(c, FALSE)
      BY <1>0, <1>3, <2>2, ReturnEnds DEF ConnectAgain, Return, Calling
    <2> QED BY <1>3, <2>1, <2>2 DEF ConnectAgain
  <1>4. CASE na_sock_send(c)
    <2>1. CASE cpc' = [cpc EXCEPT ![c] = "waiting"] /\ UNCHANGED <<call, ok, served>>
      BY <1>0, <1>4, <2>1 DEF na_sock_send, remoteVars, Pending, Succeeded, Calling, TypeOK
    <2>2. CASE cpc' = [cpc EXCEPT ![c] = "idle"] /\ Close(c, FALSE)
      BY <1>0, <1>4, <2>2, ReturnEnds DEF na_sock_send, Calling
    <2> QED BY <1>4, <2>1, <2>2 DEF na_sock_send
  <1>5. CASE Poll(c)
    <2>1. cpc[c] = "waiting" /\ cpc[c] \in Calling
      BY <1>5 DEF Poll, Calling
    <2>2. CASE Return(c, FALSE)
      BY <1>0, <2>1, <2>2, ReturnEnds DEF Return
    <2>3. CASE UNCHANGED <<cpc, call, ok, served>>
      BY <2>3 DEF remoteVars, Pending, Succeeded
    <2>4. ASSUME NEW n \in 0..resp[Conn(c)], Parsed(got[c] + n), Return(c, TRUE)
          PROVE  Remote!Next
      <3>1. Conn(c) \in Conns
        BY <2>1 DEF SessionInv, ClientInv
      <3>2. got[c] \in Nat /\ resp[Conn(c)] \in Nat /\ n \in Nat
        <4>1. got[c] \in 0..3 /\ resp[Conn(c)] \in 0..3
          BY <1>0, <3>1 DEF TypeOK, Frame
        <4> QED BY <4>1
      <3>3. got[c] > 0 \/ resp[Conn(c)] > 0
        BY <2>4, <3>2 DEF Parsed, Frame
      <3>4. served[Conn(c)] = 1
        BY <2>1, <3>1, <3>3 DEF SessionInv, ClientInv, CarriesOne
      <3> QED BY <1>0, <2>1, <2>4, <3>4, ReturnEnds DEF Return
    <2> QED BY <1>5, <2>2, <2>3, <2>4 DEF Poll, PollOnce
  <1>6. CASE LoseToken(c)
    BY <1>0, <1>6, ReturnEnds DEF LoseToken, Calling
  <1> QED BY <1>1, <1>2, <1>3, <1>4, <1>5, <1>6 DEF Call

(* A step of the server answers a call that was begun and not answered, or does
   nothing to the calls. *)
LEMMA ServerAnswers ==
    ASSUME SessionInv, SessionInv', Server \/ Sigterm \/ Ended
    PROVE  Remote!Next \/ UNCHANGED remoteVars
  <1>1. UNCHANGED <<cpc, call, ok>>
    BY DEF Server, Sigterm, Ended, ListenFails, AcceptClient, ProcessClient, Receive, ReceiveFails,
           nc_mobiled_serve, PassEnds, StopServing, clientVars, vars
  <1>2. call' = call /\ Pending' = Pending /\ Succeeded' = Succeeded
    BY <1>1 DEF Pending, Succeeded
  <1>3. CASE served' = served
    BY <1>2, <1>3 DEF remoteVars
  <1>4. CASE served' # served
    <2>1. nc_mobiled_serve
      BY <1>4 DEF Server, Sigterm, Ended, ListenFails, AcceptClient, ProcessClient, Receive, ReceiveFails,
                  PassEnds, StopServing, connVars, vars
    <2>2. PICK k : k = table[cur]
      OBVIOUS
    <2>3. served' = [served EXCEPT ![k] = @ + 1]
      BY <1>4, <2>1, <2>2 DEF nc_mobiled_serve, Respond
    <2>4. k \in held /\ k \in Conns
      BY <2>1, <2>2 DEF nc_mobiled_serve, SessionInv, ServeInv, TableHasHeld, TypeOK
    <2>5. k[2] <= call[k[1]]
      <3>1. k[2] \in Int /\ call[k[1]] \in Int
        BY <2>4, ConnsFact, BoundsAssumption DEF SessionInv, TypeOK
      <3> QED BY <2>4, <3>1 DEF SessionInv, ClientInv, Unused
    <2>6. served[k] = 0
      <3>1. served'[k] = served[k] + 1 /\ served[k] \in Nat
        BY <2>3, <2>4 DEF SessionInv, TypeOK
      <3>2. served'[k] <= 1
        BY <2>4 DEF SessionInv, CarriesOne
      <3> QED BY <3>1, <3>2
    <2>7. served' = [served EXCEPT ![k] = 1]
      BY <2>3, <2>6
    <2> QED BY <1>2, <2>4, <2>5, <2>6, <2>7, RemoteSteps
  <1> QED BY <1>3, <1>4

(* The exchange implements a remote call: whatever becomes of the pieces, a
   program makes one call at a time, each is answered once at most, and one that
   returns 0 was answered. *)
THEOREM ExchangeIsRemoteCall == Spec => ImplementsCalls
  <1>1. Init => Remote!Init
    <2>1. Init => call = [c \in Clients |-> 0] /\ Pending = {} /\ Succeeded = {}
                  /\ served = [k \in Conns |-> 0]
      BY DEF Init, Pending, Succeeded, Calling
    <2> QED BY <2>1, RemoteDefs
  <1>2. SessionInv /\ SessionInv' /\ [Next]_vars => [Remote!Next]_remoteVars
    <2> SUFFICES ASSUME SessionInv, SessionInv', [Next]_vars
                 PROVE  Remote!Next \/ UNCHANGED remoteVars
      OBVIOUS
    <2>1. CASE UNCHANGED vars
      BY <2>1 DEF vars, clientVars, connVars, remoteVars, Pending, Succeeded
    <2>2. CASE Next
      BY <2>2, ClientCalls, ServerAnswers DEF Next
    <2> QED BY <2>1, <2>2
  <1> QED BY <1>1, <1>2, SessionInvariant, PTL
      DEF Spec, ImplementsCalls, Remote!Spec, remoteVars, Pending, Succeeded, Calling
=============================================================================
