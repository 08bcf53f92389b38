---------------------------- MODULE ConnPoolProofs ----------------------------
(***************************************************************************)
(* The properties of ConnPool, for any calls, destinations and protocols.  *)
(***************************************************************************)
EXTENDS ConnPool, TLAPS

LEMMA InitInv == Init => IInv
<1> SUFFICES ASSUME Init PROVE IInv
  OBVIOUS
<1>1. /\ DOMAIN conns = {} /\ conns \in [DOMAIN conns -> Conn]
      /\ opened = {} /\ spare \in Nat /\ slot = FALSE /\ call = [c \in Calls |-> Idle]
  BY PoolAssumption DEF Init
<1>2. Idle \in CallState
  BY DEF Idle, CallState
<1>3. \A c \in Calls : call[c] = Idle /\ call[c].pc = "idle"
                      /\ call[c].earlier = {} /\ call[c].rivals = {}
  BY <1>1 DEF Idle
<1>4. TypeOK
  BY <1>1, <1>2, <1>3 DEF TypeOK
<1>5. /\ PoolIsSound /\ DoneIsPooled /\ OpenedByCalls /\ DialIsNew
      /\ SlotExplained /\ CredsExplained /\ RivalsStarted
  BY <1>1, <1>3 DEF PoolIsSound, DoneIsPooled, OpenedByCalls, DialIsNew,
                    SlotExplained, CredsExplained, RivalsStarted, BeforeDial
<1> QED BY <1>4, <1>5 DEF IInv

\* The other calls keep their state; those that have not dialled have a new rival.
LEMMA StartInv ==
    ASSUME IInv, NEW c \in Calls, NEW d \in Destinations, NEW tls \in BOOLEAN,
           Start(c, d, tls)
    PROVE  IInv'
<1> DEFINE r == [Idle EXCEPT !.pc = "lookup", !.to = d, !.tls = tls,
                    !.earlier = {b \in Calls : call[b].pc = "done"}]
           q(e) == IF call[e].pc \in BeforeDial
                   THEN [call[e] EXCEPT !.rivals = call[e].rivals \cup {c}]
                   ELSE call[e]
<1>0. /\ call[c].pc = "idle"
      /\ call' = [e \in Calls |-> IF e = c THEN r ELSE q(e)]
      /\ slot' = (IF Aliased THEN tls ELSE slot)
      /\ UNCHANGED <<conns, opened, spare>>
  BY DEF Start, Appended
<1>1. /\ r \in CallState /\ r.pc = "lookup" /\ r.to = d /\ r.tls = tls /\ r.rivals = {}
      /\ r.earlier = {e \in Calls : call[e].pc = "done"}
  BY DEF Idle, CallState
<1> HIDE DEF r
<1>2. call \in [Calls -> CallState] /\ slot \in BOOLEAN
  BY DEF IInv, TypeOK
<1>3. /\ call'[c] = r
      /\ \A e \in Calls \ {c} :
            /\ call'[e] \in CallState
            /\ call'[e].pc = call[e].pc /\ call'[e].to = call[e].to
            /\ call'[e].tls = call[e].tls /\ call'[e].creds = call[e].creds
            /\ call'[e].conn = call[e].conn /\ call'[e].earlier = call[e].earlier
            /\ call'[e].rivals = IF call[e].pc \in BeforeDial
                                 THEN call[e].rivals \cup {c} ELSE call[e].rivals
  <2>1. ASSUME NEW e \in Calls \ {c}
        PROVE  /\ q(e) \in CallState /\ call'[e] = q(e)
               /\ q(e).pc = call[e].pc /\ q(e).to = call[e].to
               /\ q(e).tls = call[e].tls /\ q(e).creds = call[e].creds
               /\ q(e).conn = call[e].conn /\ q(e).earlier = call[e].earlier
               /\ q(e).rivals = IF call[e].pc \in BeforeDial
                                THEN call[e].rivals \cup {c} ELSE call[e].rivals
    <3>1. call[e] \in CallState
      BY <1>2
    <3> QED BY <1>0, <3>1 DEF CallState
  <2> HIDE DEF q
  <2> QED BY <1>0, <2>1
<1> HIDE DEF q
<1>4. \A k \in opened : k \in Conn /\ k.by \in Calls \ {c}
  BY <1>0 DEF IInv, TypeOK, OpenedByCalls, Conn
<1>16. \A e \in Calls : call'[e].pc \notin {"idle", "lookup"} =>
         /\ e # c /\ call'[e].pc = call[e].pc /\ call'[e].to = call[e].to
         /\ call'[e].conn = call[e].conn /\ Dialled(e)' = Dialled(e)
  BY <1>1, <1>3 DEF Dialled
<1>17. \A e \in Calls \ {c} : Dialled(e)' = Dialled(e)
  BY <1>3 DEF Dialled
<1>5. TypeOK'
  BY <1>0, <1>1, <1>2, <1>3 DEF IInv, TypeOK
<1>6. PoolIsSound'
  BY <1>0, <1>16 DEF IInv, PoolIsSound
<1>7. DoneIsPooled'
  BY <1>0, <1>16 DEF IInv, DoneIsPooled
<1>8. OpenedByCalls'
  <2>1. ASSUME NEW k \in opened
        PROVE  call'[k.by].pc = call[k.by].pc /\ Dialled(k.by)' = Dialled(k.by)
    BY <1>3, <1>4, <1>17
  <2> QED BY <2>1, <1>0, <1>16 DEF IInv, OpenedByCalls
<1>9. Aliased' = Aliased
  BY <1>0 DEF Aliased
<1>10. \A e \in Calls \ {c} : \A b \in call'[e].rivals : b # c => b \in call[e].rivals
  BY <1>3
<1>11. \A e \in Calls : c \notin call[e].rivals
  BY <1>0 DEF IInv, RivalsStarted
<1>12. RivalsStarted'
  <2> SUFFICES ASSUME NEW e \in Calls, NEW b \in call'[e].rivals
               PROVE  call'[b].pc # "idle"
    BY DEF RivalsStarted
  <2>1. CASE b = c
    BY <2>1, <1>1, <1>3
  <2>2. CASE b # c
    <3>1. e # c /\ b \in call[e].rivals
      BY <2>2, <1>1, <1>3, <1>10
    <3>2. b \in Calls \ {c} /\ call[b].pc # "idle"
      BY <2>2, <3>1, <1>2 DEF CallState, IInv, RivalsStarted
    <3> QED BY <3>2, <1>3
  <2> QED BY <2>1, <2>2
<1>13. SlotExplained'
  <2> SUFFICES ASSUME NEW e \in Calls, Aliased, call'[e].pc \in BeforeDial,
                      slot' # call'[e].tls
               PROVE  \E b \in call'[e].rivals : call'[b].tls = slot'
    BY <1>9 DEF SlotExplained, Explained
  <2>1. slot' = tls
    BY <1>0
  <2>2. e # c
    BY <2>1, <1>1, <1>3
  <2>3. c \in call'[e].rivals
    BY <2>2, <1>3
  <2> QED BY <2>1, <2>3, <1>1, <1>3
<1>14. CredsExplained'
  <2> SUFFICES ASSUME NEW e \in Calls,
                      call'[e].pc \in {"dial", "add"} \/ \E k \in opened : k.by = e
               PROVE  Explained(e, call[e].creds)' /\ call'[e].creds = call[e].creds
    BY <1>0 DEF CredsExplained
  <2>1. e # c
    BY <1>1, <1>3, <1>4
  <2>2. Explained(e, call[e].creds)
    BY <2>1, <1>3 DEF IInv, CredsExplained
  <2>3. /\ call'[e].creds = call[e].creds /\ call'[e].tls = call[e].tls
        /\ call[e].rivals \subseteq call'[e].rivals
    BY <2>1, <1>3
  <2>4. \A b \in call[e].rivals : call'[b].tls = call[b].tls
    <3>1. \A b \in call[e].rivals : b \in Calls \ {c}
      BY <1>2, <1>11 DEF CallState
    <3> QED BY <3>1, <1>3
  <2> QED BY <2>2, <2>3, <2>4, <1>9 DEF Explained
<1>15. DialIsNew'
  <2> SUFFICES ASSUME NEW b \in Calls
               PROVE  /\ \A e \in call'[b].earlier : call'[e].pc = "done"
                      /\ \/ call'[b].pc \in {"missed", "dial", "add"}
                         \/ \E k \in opened : k.by = b
                         => \A e \in call'[b].earlier : call'[e].to # call'[b].to
    BY <1>0 DEF DialIsNew
  <2>1. CASE b = c
    <3>1. \A e \in r.earlier : e \in Calls \ {c} /\ call[e].pc = "done"
      BY <1>0, <1>1
    <3> QED BY <2>1, <3>1, <1>1, <1>3, <1>4
  <2>2. CASE b # c
    <3>1. /\ call[b].earlier \subseteq Calls
          /\ \A e \in call[b].earlier : call[e].pc = "done"
      BY <1>2 DEF IInv, DialIsNew, CallState
    <3>2. \A e \in call[b].earlier : e \in Calls \ {c}
      BY <3>1, <1>0
    <3>3. /\ call'[b].earlier = call[b].earlier
          /\ call'[b].pc = call[b].pc /\ call'[b].to = call[b].to
          /\ \A e \in call[b].earlier : call'[e].pc = call[e].pc /\ call'[e].to = call[e].to
      BY <2>2, <3>2, <1>3
    <3> QED BY <3>1, <3>3 DEF IInv, DialIsNew
  <2> QED BY <2>1, <2>2
<1> QED BY <1>5, <1>6, <1>7, <1>8, <1>12, <1>13, <1>14, <1>15 DEF IInv

\* The frame of the steps of a call that has started: only c's record changes,
\* and neither its destination, its marker nor its past.
Moves(c, from, to) ==
    /\ call[c].pc = from
    /\ call'[c] \in CallState /\ call'[c].pc = to
    /\ call'[c].to = call[c].to /\ call'[c].tls = call[c].tls
    /\ call'[c].earlier = call[c].earlier /\ call'[c].rivals = call[c].rivals
    /\ call' \in [Calls -> CallState]
    /\ \A e \in Calls \ {c} : call'[e] = call[e]
    /\ slot' = slot /\ spare' = spare

LEMMA MovesType ==
    ASSUME IInv, NEW c \in Calls, NEW from, NEW to, from # "idle", Moves(c, from, to),
           opened' \subseteq Conn, conns' \in [DOMAIN conns' -> Conn],
           DOMAIN conns' \subseteq Destinations
    PROVE  TypeOK'
BY DEF IInv, TypeOK, Moves

\* What was explained stays so, as nobody's choice or rivals change.
LEMMA MovesExplained ==
    ASSUME IInv, NEW c \in Calls, NEW from, NEW to, from # "idle", to # "idle",
           Moves(c, from, to)
    PROVE  /\ Aliased' = Aliased /\ RivalsStarted'
           /\ \A b \in Calls, tls \in BOOLEAN : Explained(b, tls) => Explained(b, tls)'
<1>1. \A b \in Calls : /\ call'[b].tls = call[b].tls /\ call'[b].rivals = call[b].rivals
                       /\ call'[b].pc = "idle" => call[b].pc = "idle"
                       /\ call[b].rivals \subseteq Calls
  BY DEF Moves, IInv, TypeOK, CallState
<1>2. Aliased' = Aliased
  BY DEF Moves, Aliased
<1>3. RivalsStarted'
  <2> SUFFICES ASSUME NEW b \in Calls, NEW e \in call'[b].rivals
               PROVE  call'[e].pc # "idle"
    BY DEF RivalsStarted
  <2>1. e \in call[b].rivals /\ e \in Calls
    BY <1>1
  <2> QED BY <2>1, <1>1 DEF IInv, RivalsStarted
<1>4. ASSUME NEW b \in Calls, NEW tls \in BOOLEAN, Explained(b, tls)
      PROVE  Explained(b, tls)'
  <2>1. \A e \in call[b].rivals : call'[e].tls = call[e].tls
    BY <1>1
  <2> QED BY <1>1, <1>2, <1>4, <2>1 DEF Explained
<1> QED BY <1>2, <1>3, <1>4

\* A step that leaves the credentials alone, of a call that did not just dial.
LEMMA MovesCreds ==
    ASSUME IInv, NEW c \in Calls, NEW from, NEW to, from # "idle", to # "idle",
           Moves(c, from, to), call'[c].creds = call[c].creds,
           to \in BeforeDial => from \in BeforeDial,
           to \in {"dial", "add"} => from \in {"dial", "add"},
           \A k \in opened' : k \in opened \/ (k.by = c /\ from \in {"dial", "add"})
    PROVE  SlotExplained' /\ CredsExplained' /\ RivalsStarted'
<1>1. /\ Aliased' = Aliased /\ RivalsStarted'
      /\ \A b \in Calls, tls \in BOOLEAN : Explained(b, tls) => Explained(b, tls)'
  BY MovesExplained
<1>2. /\ slot \in BOOLEAN /\ slot' = slot
      /\ \A b \in Calls : call[b].creds \in BOOLEAN /\ call'[b].creds = call[b].creds
  BY DEF IInv, TypeOK, CallState, Moves
<1>3. SlotExplained'
  <2> SUFFICES ASSUME NEW b \in Calls, Aliased, call'[b].pc \in BeforeDial
               PROVE  Explained(b, slot)' /\ slot' = slot
    BY <1>1, <1>2 DEF SlotExplained
  <2>1. call[b].pc \in BeforeDial
    BY DEF Moves
  <2> QED BY <2>1, <1>1, <1>2 DEF IInv, SlotExplained
<1>4. CredsExplained'
  <2> SUFFICES ASSUME NEW b \in Calls,
                      call'[b].pc \in {"dial", "add"} \/ \E k \in opened' : k.by = b
               PROVE  Explained(b, call[b].creds)'
    BY <1>2 DEF CredsExplained
  <2>1. call[b].pc \in {"dial", "add"} \/ \E k \in opened : k.by = b
    BY DEF Moves
  <2> QED BY <2>1, <1>1, <1>2 DEF IInv, CredsExplained
<1> QED BY <1>1, <1>3, <1>4

\* A call that is not about to be done leaves everybody's past as it was.
LEMMA MovesEarlier ==
    ASSUME IInv, NEW c \in Calls, NEW from, NEW to, from # "done", Moves(c, from, to)
    PROVE  \A b \in Calls : /\ call'[b].earlier = call[b].earlier
                            /\ call'[b].to = call[b].to
                            /\ call'[b].earlier \subseteq Calls \ {c}
                            /\ \A e \in call'[b].earlier :
                                  call'[e].pc = "done" /\ call'[e].to = call[e].to
<1> SUFFICES ASSUME NEW b \in Calls
             PROVE  /\ call'[b].earlier = call[b].earlier
                    /\ call'[b].to = call[b].to
                    /\ call'[b].earlier \subseteq Calls \ {c}
                    /\ \A e \in call'[b].earlier :
                          call'[e].pc = "done" /\ call'[e].to = call[e].to
  OBVIOUS
<1>1. call'[b].earlier = call[b].earlier /\ call'[b].to = call[b].to
  BY DEF Moves
<1>2. call[b].earlier \subseteq Calls
  BY DEF IInv, TypeOK, CallState
<1>3. \A e \in call[b].earlier : call[e].pc = "done"
  BY DEF IInv, DialIsNew
<1>4. call[b].earlier \subseteq Calls \ {c}
  BY <1>2, <1>3 DEF Moves
<1> QED BY <1>1, <1>3, <1>4 DEF Moves

LEMMA FoundInv ==
    ASSUME IInv, NEW c \in Calls, Found(c)
    PROVE  IInv'
<1>1. /\ call[c] \in CallState /\ call[c].to \in DOMAIN conns
      /\ conns[call[c].to] \in Conn
  BY DEF Found, IInv, TypeOK
<1>2. /\ Moves(c, "lookup", "done") /\ call'[c].conn = {conns[call[c].to]}
      /\ call'[c].creds = call[c].creds
      /\ UNCHANGED <<conns, opened>>
  BY <1>1 DEF Found, Moves, IInv, TypeOK, CallState
<1>3. \A k \in opened : k \in Conn /\ k.by \in Calls \ {c}
  BY DEF Found, IInv, TypeOK, OpenedByCalls, Conn
<1>4. TypeOK'
  BY <1>2, MovesType DEF IInv, TypeOK
<1>5. PoolIsSound'
  BY <1>1, <1>2 DEF IInv, PoolIsSound, Moves
<1>6. DoneIsPooled'
  BY <1>1, <1>2 DEF IInv, DoneIsPooled, Moves
<1>7. OpenedByCalls'
  BY <1>2, <1>3 DEF IInv, OpenedByCalls, Dialled, Moves
<1>8. SlotExplained' /\ CredsExplained' /\ RivalsStarted'
  BY <1>2, MovesCreds DEF BeforeDial
<1>9. DialIsNew'
  BY <1>2, <1>3, MovesEarlier DEF IInv, DialIsNew, Moves
<1> QED BY <1>4, <1>5, <1>6, <1>7, <1>8, <1>9 DEF IInv

LEMMA MissedInv ==
    ASSUME IInv, NEW c \in Calls, Missed(c)
    PROVE  IInv'
<1>1. call[c] \in CallState
  BY DEF IInv, TypeOK
<1>2. /\ Moves(c, "lookup", "missed") /\ call'[c].conn = call[c].conn
      /\ call'[c].creds = call[c].creds
      /\ UNCHANGED <<conns, opened>> /\ call[c].to \notin DOMAIN conns
  BY <1>1 DEF Missed, Moves, IInv, TypeOK, CallState
<1>3. \A k \in opened : k \in Conn /\ k.by \in Calls \ {c}
  BY DEF Missed, IInv, TypeOK, OpenedByCalls, Conn
<1>4. TypeOK'
  BY <1>2, MovesType DEF IInv, TypeOK
<1>5. PoolIsSound'
  BY <1>2 DEF IInv, PoolIsSound, Moves
<1>6. DoneIsPooled'
  BY <1>2 DEF IInv, DoneIsPooled, Moves
<1>7. OpenedByCalls'
  BY <1>2, <1>3 DEF IInv, OpenedByCalls, Dialled, Moves
<1>8. SlotExplained' /\ CredsExplained' /\ RivalsStarted'
  BY <1>2, MovesCreds DEF BeforeDial
<1>9. DialIsNew'
  <2>1. \A e \in call[c].earlier : call[e].pc = "done" /\ e \in Calls
    BY <1>1 DEF IInv, DialIsNew, CallState
  <2>2. \A e \in call[c].earlier : call[e].to # call[c].to
    BY <2>1, <1>2 DEF IInv, DoneIsPooled
  <2>3. ASSUME NEW b \in Calls
        PROVE  \A e \in call'[b].earlier : call'[e].pc = "done"
    BY <1>2, MovesEarlier
  <2>4. ASSUME NEW b \in Calls,
               call'[b].pc \in {"missed", "dial", "add"} \/ (\E k \in opened : k.by = b)
        PROVE  \A e \in call'[b].earlier : call'[e].to # call'[b].to
    <3>1. CASE b = c
      BY <3>1, <2>2, <1>2, MovesEarlier
    <3>2. CASE b # c
      <4>1. \A e \in call[b].earlier : call[e].to # call[b].to
        BY <3>2, <2>4, <1>2 DEF IInv, DialIsNew, Moves
      <4> QED BY <4>1, <1>2, MovesEarlier
    <3> QED BY <3>1, <3>2
  <2> QED BY <2>3, <2>4, <1>2 DEF DialIsNew
<1> QED BY <1>4, <1>5, <1>6, <1>7, <1>8, <1>9 DEF IInv

LEMMA DialInv ==
    ASSUME IInv, NEW c \in Calls, Dial(c)
    PROVE  IInv'
<1>1. call[c] \in CallState /\ slot \in BOOLEAN
  BY DEF IInv, TypeOK
<1>2. /\ Moves(c, "missed", "dial") /\ call'[c].conn = call[c].conn
      /\ call'[c].creds = (IF Aliased THEN slot ELSE call[c].tls)
      /\ \A e \in Calls \ {c} : call'[e].creds = call[e].creds
      /\ UNCHANGED <<conns, opened>>
  BY <1>1 DEF Dial, Moves, IInv, TypeOK, CallState
<1>3. \A k \in opened : k \in Conn /\ k.by \in Calls \ {c}
  BY DEF Dial, IInv, TypeOK, OpenedByCalls, Conn
<1>4. TypeOK'
  BY <1>2, MovesType DEF IInv, TypeOK
<1>5. PoolIsSound' /\ DoneIsPooled'
  BY <1>2 DEF IInv, PoolIsSound, DoneIsPooled, Moves
<1>6. OpenedByCalls'
  BY <1>2, <1>3 DEF IInv, OpenedByCalls, Dialled, Moves
<1>7. /\ Aliased' = Aliased /\ RivalsStarted'
      /\ \A b \in Calls, tls \in BOOLEAN : Explained(b, tls) => Explained(b, tls)'
  BY <1>2, MovesExplained
<1>8. SlotExplained'
  <2> SUFFICES ASSUME NEW b \in Calls, Aliased, call'[b].pc \in BeforeDial
               PROVE  Explained(b, slot)' /\ slot' = slot
    BY <1>2, <1>7 DEF SlotExplained, Moves
  <2>1. call[b].pc \in BeforeDial
    BY <1>2 DEF Moves, BeforeDial
  <2> QED BY <2>1, <1>1, <1>2, <1>7 DEF IInv, SlotExplained, Moves
<1>9. CredsExplained'
  <2> SUFFICES ASSUME NEW b \in Calls,
                      call'[b].pc \in {"dial", "add"} \/ \E k \in opened : k.by = b
               PROVE  \E tls \in BOOLEAN : tls = call'[b].creds /\ Explained(b, tls)'
    BY <1>2 DEF CredsExplained
  <2>1. CASE b = c
    <3>1. CASE Aliased
      <4>1. Explained(c, slot)
        BY <3>1, <1>2 DEF IInv, SlotExplained, Moves, BeforeDial
      <4> QED BY <2>1, <3>1, <4>1, <1>1, <1>2, <1>7
    <3>2. CASE ~Aliased
      <4>1. call[c].tls \in BOOLEAN /\ Explained(c, call[c].tls)
        BY <1>1 DEF CallState, Explained
      <4> QED BY <2>1, <3>2, <4>1, <1>2, <1>7
    <3> QED BY <3>1, <3>2
  <2>2. CASE b # c
    <3>1. call[b].creds \in BOOLEAN /\ call'[b].creds = call[b].creds
      BY <2>2, <1>2 DEF IInv, TypeOK, CallState
    <3>2. call[b].pc \in {"dial", "add"} \/ \E k \in opened : k.by = b
      BY <2>2, <1>2 DEF Moves
    <3>3. Explained(b, call[b].creds)
      BY <3>2 DEF IInv, CredsExplained
    <3> QED BY <3>1, <3>3, <1>7
  <2> QED BY <2>1, <2>2
<1>10. DialIsNew'
  BY <1>2, <1>3, MovesEarlier DEF IInv, DialIsNew, Moves
<1> QED BY <1>4, <1>5, <1>6, <1>7, <1>8, <1>9, <1>10 DEF IInv

LEMMA ConnectedInv ==
    ASSUME IInv, NEW c \in Calls, Connected(c)
    PROVE  IInv'
<1> DEFINE k == Dialled(c)
<1>1. call[c] \in CallState /\ call[c].to \in Destinations /\ call[c].pc = "dial"
         /\ call[c].creds \in Speaks[call[c].to]
  BY DEF Connected, IInv, TypeOK
<1>2. /\ k \in Conn /\ k.by = c /\ k.to = call[c].to /\ k.tls = call[c].creds
  BY <1>1 DEF Dialled, Conn, CallState
<1>3. /\ Moves(c, "dial", "add") /\ call'[c].conn = {k}
      /\ call'[c].creds = call[c].creds
      /\ opened' = opened \cup {k} /\ UNCHANGED conns
  BY <1>1, <1>2 DEF Connected, Moves, IInv, TypeOK, CallState
<1>4. k' = k
  BY <1>3 DEF Moves, Dialled
<1>5. \A j \in opened : j \in Conn /\ j.by \in Calls \ {c}
  BY <1>1 DEF IInv, TypeOK, OpenedByCalls, Conn
<1>6. \A b \in Calls \ {c} : Dialled(b)' = Dialled(b)
  BY <1>3 DEF Dialled, Moves
<1>7. Dialled(c)' = k
  BY <1>4
<1> HIDE DEF k
<1>8. TypeOK'
  BY <1>2, <1>3, MovesType DEF IInv, TypeOK
<1>9. PoolIsSound'
  BY <1>3 DEF IInv, PoolIsSound, Moves
<1>10. DoneIsPooled'
  BY <1>3 DEF IInv, DoneIsPooled, Moves
<1>11. OpenedByCalls'
  <2>1. ASSUME NEW j \in opened'
        PROVE  /\ call'[j.by].pc \in {"add", "done"}
               /\ j = Dialled(j.by)' /\ j.tls \in Speaks[j.to]
    <3>1. CASE j = k
      BY <3>1, <1>1, <1>2, <1>3, <1>7 DEF Moves
    <3>2. CASE j # k
      <4>1. j \in opened
        BY <3>2, <1>3
      <4> QED BY <4>1, <1>3, <1>5, <1>6 DEF IInv, OpenedByCalls, Moves
    <3> QED BY <3>1, <3>2
  <2>2. ASSUME NEW b \in Calls, call'[b].pc = "add"
        PROVE  Dialled(b)' \in opened' /\ call'[b].conn = {Dialled(b)'}
    <3>1. CASE b = c
      BY <3>1, <1>3, <1>7
    <3>2. CASE b # c
      BY <3>2, <2>2, <1>3, <1>6 DEF IInv, OpenedByCalls, Moves
    <3> QED BY <3>1, <3>2
  <2> QED BY <2>1, <2>2 DEF OpenedByCalls
<1>12. SlotExplained' /\ CredsExplained' /\ RivalsStarted'
  BY <1>2, <1>3, MovesCreds DEF BeforeDial
<1>13. DialIsNew'
  <2>1. ASSUME NEW b \in Calls
        PROVE  \A e \in call'[b].earlier : call'[e].pc = "done"
    BY <1>3, MovesEarlier
  <2>2. ASSUME NEW b \in Calls,
               call'[b].pc \in {"missed", "dial", "add"} \/ (\E j \in opened' : j.by = b)
        PROVE  \A e \in call'[b].earlier : call'[e].to # call'[b].to
    <3>1. call[b].pc \in {"missed", "dial", "add"} \/ (\E j \in opened : j.by = b)
      BY <2>2, <1>1, <1>2, <1>3 DEF Moves
    <3>2. \A e \in call[b].earlier : call[e].to # call[b].to
      BY <3>1 DEF IInv, DialIsNew
    <3> QED BY <3>2, <1>3, MovesEarlier
  <2> QED BY <2>1, <2>2 DEF DialIsNew
<1> QED BY <1>8, <1>9, <1>10, <1>11, <1>12, <1>13 DEF IInv

LEMMA DialFailedInv ==
    ASSUME IInv, NEW c \in Calls, DialFailed(c)
    PROVE  IInv'
<1>1. call[c] \in CallState
  BY DEF IInv, TypeOK
<1>2. /\ Moves(c, "dial", "failed") /\ call'[c].conn = call[c].conn
      /\ call'[c].creds = call[c].creds /\ UNCHANGED <<conns, opened>>
  BY <1>1 DEF DialFailed, Moves, IInv, TypeOK, CallState
<1>3. \A k \in opened : k \in Conn /\ k.by \in Calls \ {c}
  BY DEF DialFailed, IInv, TypeOK, OpenedByCalls, Conn
<1>4. TypeOK'
  BY <1>2, MovesType DEF IInv, TypeOK
<1>5. PoolIsSound' /\ DoneIsPooled'
  BY <1>2 DEF IInv, PoolIsSound, DoneIsPooled, Moves
<1>6. OpenedByCalls'
  BY <1>2, <1>3 DEF IInv, OpenedByCalls, Dialled, Moves
<1>7. SlotExplained' /\ CredsExplained' /\ RivalsStarted'
  BY <1>2, MovesCreds DEF BeforeDial
<1>8. DialIsNew'
  BY <1>2, <1>3, MovesEarlier DEF IInv, DialIsNew, Moves
<1> QED BY <1>4, <1>5, <1>6, <1>7, <1>8 DEF IInv

LEMMA AddInv ==
    ASSUME IInv, NEW c \in Calls, Add(c)
    PROVE  IInv'
<1> DEFINE k == Dialled(c)
<1>1. call[c] \in CallState /\ call[c].to \in Destinations /\ call[c].pc = "add"
  BY DEF Add, IInv, TypeOK
<1>2. /\ k \in Conn /\ k.by = c /\ k.to = call[c].to /\ k \in opened
      /\ call[c].conn = {k} /\ k.tls \in Speaks[k.to]
  <2>1. k \in Conn /\ k.by = c /\ k.to = call[c].to
    BY <1>1 DEF Dialled, Conn, CallState
  <2>2. k \in opened /\ call[c].conn = {k}
    BY <1>1 DEF IInv, OpenedByCalls
  <2> QED BY <2>1, <2>2 DEF IInv, OpenedByCalls
<1>3. /\ Moves(c, "add", "done") /\ call'[c].conn = call[c].conn
      /\ call'[c].creds = call[c].creds /\ UNCHANGED opened
  BY <1>1 DEF Add, Moves, IInv, TypeOK, CallState
<1>4. conns' = [d \in DOMAIN conns \cup {k.to} |-> IF d = k.to THEN k ELSE conns[d]]
  BY DEF Add, Store
<1> HIDE DEF k
<1>5. /\ DOMAIN conns' = DOMAIN conns \cup {call[c].to}
      /\ conns'[call[c].to] = k
      /\ \A d \in DOMAIN conns : d # call[c].to => conns'[d] = conns[d]
  BY <1>2, <1>4
<1>6. DOMAIN conns' \subseteq Destinations /\ conns' \in [DOMAIN conns' -> Conn]
  BY <1>1, <1>2, <1>4 DEF IInv, TypeOK
<1>7. \A b \in Calls : Dialled(b)' = Dialled(b)
  BY <1>3 DEF Dialled, Moves
<1>8. TypeOK'
  BY <1>3, <1>6, MovesType DEF IInv, TypeOK
<1>9. PoolIsSound'
  <2>1. ASSUME NEW d \in DOMAIN conns'
        PROVE  conns'[d] \in opened' /\ conns'[d].to = d /\ conns'[d].tls \in Speaks[d]
    <3>1. CASE d = call[c].to
      BY <3>1, <1>2, <1>3, <1>5
    <3>2. CASE d # call[c].to
      BY <3>2, <1>3, <1>5 DEF IInv, PoolIsSound
    <3> QED BY <3>1, <3>2
  <2>2. ASSUME NEW b \in Calls, call'[b].pc = "done"
        PROVE  \E j \in opened' : call'[b].conn = {j} /\ j.to = call'[b].to
    <3>1. CASE b = c
      BY <3>1, <1>2, <1>3 DEF Moves
    <3>2. CASE b # c
      BY <3>2, <2>2, <1>3 DEF IInv, PoolIsSound, Moves
    <3> QED BY <3>1, <3>2
  <2> QED BY <2>1, <2>2 DEF PoolIsSound
<1>10. DoneIsPooled'
  BY <1>3, <1>5 DEF IInv, DoneIsPooled, Moves
<1>11. OpenedByCalls'
  <2>1. ASSUME NEW j \in opened
        PROVE  /\ call'[j.by].pc \in {"add", "done"}
               /\ j = Dialled(j.by)' /\ j.tls \in Speaks[j.to]
    <3>1. j.by \in Calls
      BY DEF IInv, TypeOK, Conn
    <3> QED BY <3>1, <1>3, <1>7 DEF IInv, OpenedByCalls, Moves
  <2>2. ASSUME NEW b \in Calls, call'[b].pc = "add"
        PROVE  Dialled(b)' \in opened' /\ call'[b].conn = {Dialled(b)'}
    BY <2>2, <1>3, <1>7 DEF IInv, OpenedByCalls, Moves
  <2> QED BY <2>1, <2>2, <1>3 DEF OpenedByCalls
<1>12. SlotExplained' /\ CredsExplained' /\ RivalsStarted'
  BY <1>3, MovesCreds DEF BeforeDial
<1>13. DialIsNew'
  <2>1. ASSUME NEW b \in Calls
        PROVE  \A e \in call'[b].earlier : call'[e].pc = "done"
    BY <1>3, MovesEarlier
  <2>2. ASSUME NEW b \in Calls,
               call'[b].pc \in {"missed", "dial", "add"} \/ (\E j \in opened' : j.by = b)
        PROVE  \A e \in call'[b].earlier : call'[e].to # call'[b].to
    <3>1. call[b].pc \in {"missed", "dial", "add"} \/ (\E j \in opened : j.by = b)
      BY <2>2, <1>1, <1>3 DEF Moves
    <3>2. \A e \in call[b].earlier : call[e].to # call[b].to
      BY <3>1 DEF IInv, DialIsNew
    <3> QED BY <3>2, <1>3, MovesEarlier
  <2> QED BY <2>1, <2>2 DEF DialIsNew
<1> QED BY <1>8, <1>9, <1>10, <1>11, <1>12, <1>13 DEF IInv

-----------------------------------------------------------------------------
(* The theorems.                                                           *)

\* The inductive invariant of the pool, over the steps of GetClientConn.
THEOREM Inductive == Spec => []IInv
<1>1. IInv /\ [Next]_vars => IInv'
  <2> SUFFICES ASSUME IInv, [Next]_vars PROVE IInv'
    OBVIOUS
  <2>1. ASSUME NEW c \in Calls, NEW d \in Destinations, NEW tls \in BOOLEAN,
               Start(c, d, tls)
        PROVE  IInv'
    BY <2>1, StartInv
  <2>2. ASSUME NEW c \in Calls, GetClientConn(c) \/ DialFailed(c) PROVE IInv'
    BY <2>2, FoundInv, MissedInv, DialInv, ConnectedInv, AddInv, DialFailedInv
       DEF GetClientConn
  <2>3. CASE UNCHANGED vars
    BY <2>3 DEF vars, IInv, TypeOK, PoolIsSound, DoneIsPooled, OpenedByCalls,
       SlotExplained, CredsExplained, RivalsStarted, DialIsNew, Dialled,
       Explained, Aliased
  <2> QED BY <2>1, <2>2, <2>3 DEF Next, Over
<1> QED BY InitInv, <1>1, PTL DEF Spec

\* Every variable keeps its type.
THEOREM TypeCorrect == Spec => []TypeOK
<1>1. IInv => TypeOK
  BY DEF IInv
<1> QED BY Inductive, <1>1, PTL

\* Only connections that were made are pooled, or handed to a call.
THEOREM PoolStaysSound == Spec => []PoolIsSound
<1>1. IInv => PoolIsSound
  BY DEF IInv
<1> QED BY Inductive, <1>1, PTL

\* Whatever room the slice has, a call that dials with credentials it did not
\* choose has been overtaken by one that did, in the array they share.
THEOREM CredentialsAreExplained == Spec => []OwnCredentials
<1>1. IInv => OwnCredentials
  <2> SUFFICES ASSUME IInv, NEW k \in opened, k.tls # call[k.by].tls
               PROVE  Aliased /\ \E e \in call[k.by].rivals : call[e].tls = k.tls
    BY DEF OwnCredentials
  <2>1. k \in Conn /\ k.by \in Calls
    BY DEF IInv, TypeOK, Conn
  <2>2. k = Dialled(k.by)
    BY DEF IInv, OpenedByCalls
  <2>3. k.tls = call[k.by].creds
    BY <2>2 DEF Dialled
  <2>4. Explained(k.by, call[k.by].creds)
    BY <2>1 DEF IInv, CredsExplained
  <2> QED BY <2>3, <2>4 DEF Explained
<1> QED BY Inductive, <1>1, PTL

\* Two dials to one destination are those of overlapping calls.
THEOREM RedialsAreRaces == Spec => []RedialOnlyWhenRaced
<1>1. IInv => RedialOnlyWhenRaced
  <2> SUFFICES ASSUME IInv, NEW k \in opened, NEW e \in call[k.by].earlier
               PROVE  call[e].to # k.to
    BY DEF RedialOnlyWhenRaced
  <2>1. k.by \in Calls
    BY DEF IInv, TypeOK, Conn
  <2>2. k.to = call[k.by].to
    BY DEF IInv, OpenedByCalls, Dialled
  <2> QED BY <2>1, <2>2 DEF IInv, DialIsNew
<1> QED BY Inductive, <1>1, PTL

=============================================================================
