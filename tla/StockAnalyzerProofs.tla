------------------------ MODULE StockAnalyzerProofs ------------------------
(***************************************************************************)
(* Proofs about StockAnalyzer for any symbols, any number of mounts and of   *)
(* calls in flight, in any order of their answers, and any limit of the      *)
(* compare list that its palette has colours for.                           *)
(*                                                                         *)
(* The heart of it is that a request number is used once in a mount          *)
(* (NumbersOK): only then does "the latest number" mean "the latest request" *)
(* and the tab keeps what LatestWins promises.                              *)
(***************************************************************************)
EXTENDS StockAnalyzer, FiniteSetTheorems, SequenceTheorems, TLAPS

\* What the code's constants are known to satisfy: COMPARE_COLORS has a colour for
\* every place of the compare list.
Sensible ==
    /\ None \notin Symbols
    /\ MaxMounts \in Nat \ {0} /\ MaxAsks \in Nat
    /\ CompareLimit \in Nat \ {0} /\ PaletteSize \in Nat
    /\ CompareLimit <= PaletteSize

\* A mount numbers its requests: none of its own is ahead of the counter, and no two
\* have the same number.
NumbersOK ==
    /\ \A c \in calls : c.mount <= mount
    /\ \A c \in InFlight("analyze") : c.seq <= seq[c.mount]
    /\ \A c, d \in InFlight("analyze") : c.mount = d.mount /\ c.seq = d.seq => c = d

\* The request the mount listens for asks for what was asked last.
LatestOK ==
    \A c \in InFlight("analyze") : c.mount = mount /\ Current(c) => c.sym = asked

\* In the first mount, a selection is what was asked last, and once its answer is in,
\* the stock shown is the answer's.
ShownOK ==
    mount = 1 =>
      /\ selected \in {None, asked}
      /\ (~loading /\ ~error /\ selected # None) => stock \in {None, asked}

\* In the first mount, while simulations neither overlap nor are skipped: the panel
\* waits for the one in flight, which is of the stock shown unless that was cleared.
ImpactOK ==
    (mount = 1 /\ session /\ ~mixed) =>
      /\ simulating <=> InFlight("impact") # {}
      /\ \A c \in InFlight("impact") : stock \in {None, c.sym}
      /\ \A c, d \in InFlight("impact") : c = d
      /\ (InFlight("impact") = {} /\ ~impactError /\ stock # None) =>
           impact \in {None, stock}

CompareOK ==
    /\ Len(compare) <= CompareLimit
    /\ \A i, j \in 1..Len(compare) : i # j => compare[i] # compare[j]

IInv ==
    /\ TypeOK
    /\ NumbersOK /\ SpinnerIffWaiting /\ LatestOK
    /\ ShownOK /\ ImpactOK /\ CompareOK

-----------------------------------------------------------------------------
(* Requests in flight.                                                      *)

CallType == [kind : {"analyze", "impact", "compare"}, sym : Symbols, mount : Mounts,
             seq : Nat, good : BOOLEAN]

LEMMA Types ==
    ASSUME TypeOK
    PROVE  /\ selected \in Maybe /\ stock \in Maybe /\ impact \in Maybe
           /\ asked \in Maybe /\ adding \in Maybe /\ compare \in Seq(Symbols)
           /\ error \in BOOLEAN /\ amount \in BOOLEAN /\ session \in BOOLEAN
           /\ loading \in BOOLEAN /\ simulating \in BOOLEAN /\ impactError \in BOOLEAN
           /\ mixed \in BOOLEAN
           /\ tab \in Tabs /\ mount \in Mounts /\ seq \in [Mounts -> Nat]
           /\ calls \in SUBSET CallType /\ asks \in Nat
BY DEF TypeOK, CallType

LEMMA TypesSuffice ==
    ASSUME selected' \in Maybe, stock' \in Maybe, impact' \in Maybe,
           asked' \in Maybe, adding' \in Maybe, compare' \in Seq(Symbols),
           error' \in BOOLEAN, amount' \in BOOLEAN, session' \in BOOLEAN,
           loading' \in BOOLEAN, simulating' \in BOOLEAN, impactError' \in BOOLEAN,
           mixed' \in BOOLEAN,
           tab' \in Tabs, mount' \in Mounts, seq' \in [Mounts -> Nat],
           calls' \in SUBSET CallType, asks' \in Nat
    PROVE  TypeOK'
BY DEF TypeOK, CallType

\* A call that is made is what it is made of.
LEMMA CallMade ==
    ASSUME NEW kind \in {"analyze", "impact", "compare"}, NEW s \in Symbols,
           NEW m \in Mounts, NEW n \in Nat, amount \in BOOLEAN
    PROVE  /\ Call(kind, s, m, n) \in CallType
           /\ Call(kind, s, m, n).kind = kind /\ Call(kind, s, m, n).sym = s
           /\ Call(kind, s, m, n).mount = m /\ Call(kind, s, m, n).seq = n
BY DEF Call, CallType

\* A step that leaves the analyses in flight alone and listens as before.
LEMMA SameRequests ==
    ASSUME IInv, InFlight("analyze")' = InFlight("analyze"),
           UNCHANGED <<mount, seq, loading, asked>>, \A c \in calls' : c.mount <= mount
    PROVE  NumbersOK' /\ SpinnerIffWaiting' /\ LatestOK'
BY DEF IInv, NumbersOK, SpinnerIffWaiting, LatestOK, Current

\* The request a mount makes has a number of its own and is the one it listens for.
LEMMA AskingLemma ==
    ASSUME Sensible, IInv, mount' \in Mounts, mount <= mount',
           NEW s \in Symbols, Asking(s)
    PROVE  /\ NumbersOK' /\ SpinnerIffWaiting' /\ LatestOK'
           /\ calls' \in SUBSET CallType /\ seq' \in [Mounts -> Nat]
           /\ InFlight("impact")' = InFlight("impact")
<1>1. /\ mount \in Mounts /\ seq \in [Mounts -> Nat] /\ calls \in SUBSET CallType
      /\ amount \in BOOLEAN /\ Mounts \subseteq Nat
  BY Types DEF IInv, Mounts
<1>2. PICK n : n = seq[mount'] + 1
  OBVIOUS
<1>3. /\ n \in Nat /\ seq' = [seq EXCEPT ![mount'] = n] /\ seq'[mount'] = n
      /\ seq' \in [Mounts -> Nat] /\ asked' = s /\ loading' = TRUE
  BY <1>1, <1>2 DEF Asking
<1>4. PICK new : new = Call("analyze", s, mount', n)
  OBVIOUS
<1>5. /\ new \in CallType /\ new.kind = "analyze" /\ new.sym = s
      /\ new.mount = mount' /\ new.seq = n
  BY <1>1, <1>3, <1>4, CallMade
<1>6. calls' = calls \union {new}
  BY <1>3, <1>4 DEF Asking
<1>7. calls' \in SUBSET CallType
  BY <1>1, <1>5, <1>6
<1>8. InFlight("analyze")' = InFlight("analyze") \union {new}
        /\ InFlight("impact")' = InFlight("impact")
  BY <1>5, <1>6 DEF InFlight
<1>9. ASSUME NEW c \in InFlight("analyze")
      PROVE  /\ c.mount \in Mounts /\ c.seq \in Nat /\ c.seq <= seq[c.mount]
             /\ c.seq <= seq'[c.mount]
             /\ c.mount = mount' => c.seq < n
  <2>1. c.mount \in Mounts /\ c.seq \in Nat /\ c.seq <= seq[c.mount]
    BY <1>1 DEF InFlight, CallType, IInv, NumbersOK
  <2>2. QED BY <1>1, <1>2, <1>3, <2>1
<1>10. \A c \in calls' : c.mount <= mount'
  <2>1. ASSUME NEW c \in calls PROVE c.mount <= mount'
    <3>1. c.mount \in Nat /\ mount \in Nat /\ mount' \in Nat
      BY <1>1 DEF CallType
    <3>2. c.mount <= mount
      BY DEF IInv, NumbersOK
    <3>3. QED BY <3>1, <3>2
  <2>2. mount' \in Nat
    BY <1>1
  <2>3. QED BY <1>5, <1>6, <2>1, <2>2
<1>11. NumbersOK'
  <2>1. \A c \in InFlight("analyze")' : c.seq <= seq'[c.mount]
    BY <1>3, <1>5, <1>8, <1>9
  <2>2. ASSUME NEW c \in InFlight("analyze")', NEW d \in InFlight("analyze")',
               c.mount = d.mount, c.seq = d.seq
        PROVE  c = d
    <3>1. CASE c \in InFlight("analyze") /\ d \in InFlight("analyze")
      BY <2>2, <3>1 DEF IInv, NumbersOK
    <3>2. CASE c = new /\ d \in InFlight("analyze")
      BY <1>3, <1>5, <1>9, <2>2, <3>2
    <3>3. CASE d = new /\ c \in InFlight("analyze")
      BY <1>3, <1>5, <1>9, <2>2, <3>3
    <3>4. QED BY <1>8, <3>1, <3>2, <3>3
  <2>3. QED BY <1>10, <2>1, <2>2 DEF NumbersOK
<1>12. \A c \in InFlight("analyze")' : c.mount = mount' /\ c.seq = seq'[c.mount] => c = new
  BY <1>3, <1>8, <1>9
<1>13. SpinnerIffWaiting'
  BY <1>3, <1>5, <1>8 DEF SpinnerIffWaiting, Current
<1>14. LatestOK'
  BY <1>3, <1>5, <1>12 DEF LatestOK, Current
<1>15. QED BY <1>3, <1>7, <1>8, <1>11, <1>13, <1>14

-----------------------------------------------------------------------------
(* One lemma per action.                                                    *)

LEMMA SelectLemma ==
    ASSUME Sensible, IInv, NEW s \in Symbols, Select(s)
    PROVE  IInv'
<1>1. /\ Asking(s)
      /\ UNCHANGED <<mount, stock, impact, compare, amount, tab, session, simulating,
                     impactError, adding, mixed>>
  BY DEF Select
<1>2. TypeOK
  BY DEF IInv
<1>3. mount' \in Mounts /\ mount <= mount'
  BY <1>1, <1>2, Types DEF Mounts
<1>4. /\ NumbersOK' /\ SpinnerIffWaiting' /\ LatestOK'
      /\ calls' \in SUBSET CallType /\ seq' \in [Mounts -> Nat]
      /\ InFlight("impact")' = InFlight("impact")
  BY <1>1, <1>3, AskingLemma
<1>5. /\ selected' = s /\ error' = FALSE /\ loading' = TRUE /\ asked' = s
      /\ asks' = asks + 1
  BY <1>1 DEF Asking
<1>6. TypeOK'
  <2>1. s \in Maybe /\ asks' \in Nat
    BY <1>2, <1>5, Types DEF Maybe
  <2>2. QED BY <1>1, <1>2, <1>4, <1>5, <2>1, Types, TypesSuffice
<1>7. ShownOK'
  BY <1>5 DEF ShownOK
<1>8. ImpactOK' /\ CompareOK'
  BY <1>1, <1>4 DEF IInv, ImpactOK, CompareOK
<1>9. QED BY <1>4, <1>6, <1>7, <1>8 DEF IInv

LEMMA ClearLemma ==
    ASSUME Sensible, IInv, Clear
    PROVE  IInv'
<1>1. /\ selected' = None /\ stock' = None /\ impact' = None /\ error' = FALSE
      /\ tab' = "overview" /\ compare' = <<>>
      /\ UNCHANGED <<amount, session, mount, seq, loading, simulating, impactError, adding,
                     calls, asked, mixed, asks>>
  BY DEF Clear, local
<1>2. TypeOK
  BY DEF IInv
<1>3. \A kind : InFlight(kind)' = InFlight(kind)
  BY <1>1 DEF InFlight
<1>4. NumbersOK' /\ SpinnerIffWaiting' /\ LatestOK'
  BY <1>1, <1>3, SameRequests DEF IInv, NumbersOK
<1>5. TypeOK'
  <2>1. None \in Maybe /\ <<>> \in Seq(Symbols) /\ "overview" \in Tabs
    BY DEF Maybe, Tabs
  <2>2. QED BY <1>1, <1>2, <2>1, Types, TypesSuffice
<1>6. ShownOK' /\ ImpactOK'
  BY <1>1, <1>3 DEF IInv, ShownOK, ImpactOK
<1>7. CompareOK'
  BY <1>1 DEF Sensible, CompareOK
<1>8. QED BY <1>4, <1>5, <1>6, <1>7 DEF IInv

\* A simulation of the stock shown that starts when none runs, or is skipped.
LEMMA SimulatingLemma ==
    ASSUME IInv, NEW s \in Symbols, NEW m \in Mounts, m <= mount, NEW good,
           NEW rest \in SUBSET calls, Simulating(s, m, good, rest),
           InFlight("impact") \subseteq rest, UNCHANGED <<mount, session>>, stock' = s,
           (mount = 1 /\ session /\ ~mixed') => m = mount
    PROVE  /\ ImpactOK'
           /\ calls' \in SUBSET CallType /\ simulating' \in BOOLEAN
           /\ impactError' \in BOOLEAN /\ mixed' \in BOOLEAN
           /\ InFlight("analyze")' = {c \in rest : c.kind = "analyze"}
           /\ \A c \in calls' : c.mount <= mount
<1>1. /\ amount \in BOOLEAN /\ calls \in SUBSET CallType /\ simulating \in BOOLEAN
      /\ impactError \in BOOLEAN /\ mixed \in BOOLEAN /\ session \in BOOLEAN
  BY Types DEF IInv
<1>2. PICK new : new = Call("impact", s, m, 0)
  OBVIOUS
<1>3. new \in CallType /\ new.kind = "impact" /\ new.sym = s /\ new.mount = m
  BY <1>1, <1>2, CallMade
<1>4. CASE session /\ good
  <2>1. /\ calls' = rest \union {new}
        /\ simulating' = IF m = mount THEN TRUE ELSE simulating
        /\ impactError' = IF m = mount THEN FALSE ELSE impactError
        /\ mixed' = (mixed \/ InFlight("impact") # {})
    BY <1>2, <1>4 DEF Simulating
  <2>2. InFlight("analyze")' = {c \in rest : c.kind = "analyze"}
    BY <1>3, <2>1 DEF InFlight
  <2>3. ASSUME mount = 1, ~mixed'
        PROVE  InFlight("impact")' = {new} /\ simulating'
    <3>1. InFlight("impact") = {}
      BY <2>1, <2>3
    <3>2. InFlight("impact")' = {new}
      BY <1>3, <2>1, <3>1 DEF InFlight
    <3>3. QED BY <1>4, <2>1, <2>3, <3>2
  <2>4. ImpactOK'
    BY <1>3, <2>3 DEF ImpactOK
  <2>5. \A c \in calls' : c.mount <= mount
    BY <1>3, <2>1 DEF IInv, NumbersOK
  <2>6. QED BY <1>1, <1>3, <2>1, <2>2, <2>4, <2>5
<1>5. CASE ~(session /\ good)
  <2>1. /\ calls' = rest /\ mixed' = (mixed \/ session)
        /\ UNCHANGED <<simulating, impactError>>
    BY <1>5 DEF Simulating
  <2>2. ImpactOK'
    BY <2>1 DEF ImpactOK
  <2>3. \A c \in calls' : c.mount <= mount
    BY <2>1 DEF IInv, NumbersOK
  <2>4. QED BY <1>1, <2>1, <2>2, <2>3 DEF InFlight
<1>6. QED BY <1>4, <1>5

LEMMA ReceiveAnalysisLemma ==
    ASSUME Sensible, IInv, NEW c \in calls, ReceiveAnalysis(c)
    PROVE  IInv'
<1>1. /\ UNCHANGED <<selected, impact, compare, amount, tab, session, mount, seq,
                     adding, asked, asks>>
      /\ c \in InFlight("analyze")
      /\ loading' = (loading /\ ~(Current(c) /\ c.mount = mount))
  BY DEF ReceiveAnalysis, StopsSpinner
<1>2. TypeOK
  BY DEF IInv
<1>3. /\ c \in CallType /\ c.kind = "analyze" /\ c.mount \in Mounts /\ c.sym \in Symbols
      /\ c.mount <= mount /\ mount \in Mounts /\ mount \in Nat /\ c.mount \in Nat
  BY <1>1, <1>2, Types DEF InFlight, CallType, IInv, NumbersOK, Mounts
<1>4. \A d \in InFlight("analyze") :
        (d.mount = mount /\ Current(d) /\ c.mount = mount /\ Current(c)) => d = c
  BY <1>1 DEF IInv, NumbersOK, Current
<1>5. (mount = 1 => c.mount = mount) /\ calls \ {c} \in SUBSET calls
        /\ InFlight("impact") \subseteq calls \ {c}
  BY <1>3 DEF InFlight, Mounts
<1>6. ASSUME InFlight("analyze")' = InFlight("analyze") \ {c},
             \A d \in calls' : d.mount <= mount
      PROVE  NumbersOK' /\ SpinnerIffWaiting' /\ LatestOK'
  <2>1. NumbersOK' /\ LatestOK'
    BY <1>1, <1>6 DEF IInv, NumbersOK, LatestOK, Current
  <2>2. SpinnerIffWaiting'
    BY <1>1, <1>4, <1>6 DEF IInv, SpinnerIffWaiting, Current
  <2>3. QED BY <2>1, <2>2
<1>7. CompareOK'
  BY <1>1 DEF IInv, CompareOK
<1>8. ASSUME Current(c), stock' = c.sym, Simulating(c.sym, c.mount, c.good, calls \ {c}),
             error' = error
      PROVE  IInv'
  <2>1. /\ ImpactOK'
        /\ calls' \in SUBSET CallType /\ simulating' \in BOOLEAN
        /\ impactError' \in BOOLEAN /\ mixed' \in BOOLEAN
        /\ InFlight("analyze")' = {d \in calls \ {c} : d.kind = "analyze"}
        /\ \A d \in calls' : d.mount <= mount
    BY <1>1, <1>3, <1>5, <1>8, SimulatingLemma
  <2>2. InFlight("analyze")' = InFlight("analyze") \ {c}
    BY <2>1 DEF InFlight
  <2>3. TypeOK'
    BY <1>1, <1>2, <1>3, <1>8, <2>1, Types, TypesSuffice DEF Maybe
  <2>4. mount = 1 => c.sym = asked
    BY <1>1, <1>5, <1>8 DEF IInv, LatestOK
  <2>5. ShownOK'
    BY <1>1, <1>8, <2>4 DEF IInv, ShownOK
  <2>6. QED BY <1>6, <1>7, <2>1, <2>2, <2>3, <2>5 DEF IInv
<1>9. ASSUME calls' = calls \ {c}, UNCHANGED <<stock, simulating, impactError, mixed>>,
             error' = TRUE \/ (error' = error /\ ~Current(c))
      PROVE  IInv'
  <2>1. InFlight("analyze")' = InFlight("analyze") \ {c}
          /\ InFlight("impact")' = InFlight("impact")
    BY <1>3, <1>9 DEF InFlight
  <2>2. NumbersOK' /\ SpinnerIffWaiting' /\ LatestOK'
    BY <1>6, <1>9, <2>1 DEF IInv, NumbersOK
  <2>3. TypeOK'
    BY ZenonT(40), <1>1, <1>2, <1>9, Types, TypesSuffice DEF Maybe
  <2>4. ImpactOK'
    BY <1>1, <1>9, <2>1 DEF IInv, ImpactOK
  <2>5. ShownOK'
    BY <1>1, <1>9 DEF IInv, ShownOK
  <2>6. QED BY <1>7, <2>2, <2>3, <2>4, <2>5 DEF IInv
<1>10. QED BY <1>8, <1>9 DEF ReceiveAnalysis

LEMMA SimulateLemma ==
    ASSUME Sensible, IInv, Simulate
    PROVE  IInv'
<1>1. /\ stock # None /\ asks' = asks + 1
      /\ Simulating(stock, mount, amount, calls)
      /\ UNCHANGED <<selected, stock, impact, error, compare, amount, tab, session, mount,
                     seq, loading, adding, asked>>
  BY DEF Simulate, CanSimulate, Loaded, store
<1>2. TypeOK
  BY DEF IInv
<1>3. stock \in Symbols /\ mount \in Mounts /\ mount <= mount
  BY <1>1, <1>2, Types DEF Maybe, Mounts
<1>4. /\ ImpactOK'
      /\ calls' \in SUBSET CallType /\ simulating' \in BOOLEAN
      /\ impactError' \in BOOLEAN /\ mixed' \in BOOLEAN
      /\ InFlight("analyze")' = {c \in calls : c.kind = "analyze"}
      /\ \A c \in calls' : c.mount <= mount
  BY <1>1, <1>3, SimulatingLemma DEF InFlight
<1>5. NumbersOK' /\ SpinnerIffWaiting' /\ LatestOK'
  BY <1>1, <1>4, SameRequests DEF InFlight
<1>6. TypeOK'
  BY <1>1, <1>2, <1>4, Types, TypesSuffice
<1>7. ShownOK' /\ CompareOK'
  BY <1>1 DEF IInv, ShownOK, CompareOK
<1>8. QED BY <1>4, <1>5, <1>6, <1>7 DEF IInv

LEMMA ReceiveImpactLemma ==
    ASSUME Sensible, IInv, NEW c \in calls, ReceiveImpact(c)
    PROVE  IInv'
<1>1. /\ c \in InFlight("impact") /\ calls' = calls \ {c}
      /\ \/ impact' = c.sym /\ UNCHANGED impactError
         \/ impactError' = (impactError \/ c.mount = mount) /\ UNCHANGED impact
      /\ simulating' = (simulating /\ c.mount # mount)
      /\ UNCHANGED <<selected, stock, error, compare, amount, tab, session, mount,
                     seq, loading, adding, asked, mixed, asks>>
  BY DEF ReceiveImpact, Flagged
<1>2. TypeOK
  BY DEF IInv
<1>3. /\ c.kind = "impact" /\ c.sym \in Symbols
      /\ c.mount <= mount /\ mount \in Nat /\ c.mount \in Mounts
  BY <1>1, <1>2, Types DEF InFlight, CallType, IInv, NumbersOK, Mounts
<1>4. InFlight("analyze")' = InFlight("analyze")
        /\ InFlight("impact")' = InFlight("impact") \ {c}
  BY <1>1, <1>3 DEF InFlight
<1>5. NumbersOK' /\ SpinnerIffWaiting' /\ LatestOK'
  BY <1>1, <1>4, SameRequests DEF IInv, NumbersOK
<1>6. impact' \in Maybe /\ impactError' \in BOOLEAN /\ simulating' \in BOOLEAN
  BY <1>1, <1>2, <1>3, Types DEF Maybe
<1>7. TypeOK'
  BY <1>1, <1>2, <1>6, Types, TypesSuffice
<1>8. ShownOK' /\ CompareOK'
  BY <1>1 DEF IInv, ShownOK, CompareOK
<1>9. ImpactOK'
  <2>1. mount = 1 => c.mount = mount
    BY <1>3 DEF Mounts
  <2>2. ASSUME mount = 1, session, ~mixed
        PROVE  /\ InFlight("impact") = {c} /\ stock \in {None, c.sym}
    BY <1>1, <2>2 DEF IInv, ImpactOK
  <2>3. QED BY <1>1, <1>4, <2>1, <2>2 DEF ImpactOK
<1>10. QED BY <1>5, <1>7, <1>8, <1>9 DEF IInv

\* Steps that touch neither the requests nor what is selected, shown and simulated.
LEMMA AsideLemma ==
    ASSUME IInv,
           UNCHANGED <<selected, stock, impact, error, session, mount, seq, loading,
                       simulating, impactError, asked, mixed>>,
           InFlight("analyze")' = InFlight("analyze"),
           InFlight("impact")' = InFlight("impact"),
           \A c \in calls' : c.mount <= mount,
           calls' \in SUBSET CallType, compare' \in Seq(Symbols), CompareOK',
           amount' \in BOOLEAN, tab' \in Tabs, adding' \in Maybe, asks' \in Nat
    PROVE  IInv'
<1>1. NumbersOK' /\ SpinnerIffWaiting' /\ LatestOK'
  BY SameRequests
<1>2. TypeOK'
  BY Types, TypesSuffice DEF IInv
<1>3. ShownOK' /\ ImpactOK'
  BY DEF IInv, ShownOK, ImpactOK
<1>4. QED BY <1>1, <1>2, <1>3 DEF IInv

LEMMA PanelLemma ==
    ASSUME Sensible, IInv,
           SetAmount \/ ClearCompareStocks \/ \E t \in Tabs : SetActiveSubTab(t)
    PROVE  IInv'
<1>1. /\ UNCHANGED <<selected, stock, impact, error, session, mount, seq, loading,
                     simulating, impactError, asked, mixed, calls, asks, adding>>
      /\ compare' = compare \/ compare' = <<>>
      /\ amount' = amount \/ amount' = ~amount
      /\ tab' = tab \/ tab' \in Tabs
  BY DEF SetAmount, ClearCompareStocks, SetActiveSubTab, local
<1>2. InFlight("analyze")' = InFlight("analyze") /\ InFlight("impact")' = InFlight("impact")
  BY <1>1 DEF InFlight
<1>3. /\ calls \in SUBSET CallType /\ compare \in Seq(Symbols) /\ adding \in Maybe
      /\ amount \in BOOLEAN /\ tab \in Tabs /\ asks \in Nat
      /\ \A c \in calls : c.mount <= mount
  BY Types DEF IInv, NumbersOK
<1>4. compare' \in Seq(Symbols) /\ CompareOK'
  <2>1. CASE compare' = compare
    BY <1>3, <2>1 DEF IInv, CompareOK
  <2>2. CASE compare' = <<>>
    BY <2>2 DEF Sensible, CompareOK
  <2>3. QED BY <1>1, <2>1, <2>2
<1>5. QED BY <1>1, <1>2, <1>3, <1>4, AsideLemma

LEMMA HandleAddLemma ==
    ASSUME IInv, NEW s \in Symbols, HandleAddCompareStock(s)
    PROVE  IInv'
<1>1. /\ UNCHANGED <<selected, stock, impact, error, compare, amount, tab, session, mount,
                     seq, loading, simulating, impactError, asked, mixed>>
      /\ adding' = s /\ asks' = asks + 1
      /\ calls' = calls \union {Call("compare", s, mount, 0)}
  BY DEF HandleAddCompareStock, store
<1>2. /\ calls \in SUBSET CallType /\ compare \in Seq(Symbols)
      /\ amount \in BOOLEAN /\ tab \in Tabs /\ asks \in Nat /\ mount \in Mounts
      /\ \A c \in calls : c.mount <= mount
  BY Types DEF IInv, NumbersOK
<1>3. PICK new : new = Call("compare", s, mount, 0)
  OBVIOUS
<1>4. new \in CallType /\ new.kind = "compare" /\ new.mount = mount
  BY <1>2, <1>3, CallMade
<1>5. InFlight("analyze")' = InFlight("analyze") /\ InFlight("impact")' = InFlight("impact")
  BY <1>1, <1>3, <1>4 DEF InFlight
<1>6. (\A c \in calls' : c.mount <= mount) /\ calls' \in SUBSET CallType
  BY <1>1, <1>2, <1>3, <1>4 DEF Mounts
<1>7. CompareOK'
  BY <1>1 DEF IInv, CompareOK
<1>8. s \in Maybe /\ asks' \in Nat
  BY <1>1, <1>2 DEF Maybe
<1>9. QED BY <1>1, <1>2, <1>5, <1>6, <1>7, <1>8, AsideLemma

\* An addition keeps the compared stocks distinct and within the limit.
LEMMA AddKeepsDistinct ==
    ASSUME Sensible, compare \in Seq(Symbols), CompareOK, NEW s \in Symbols,
           NEW added, added = AddCompareStock(s)
    PROVE  /\ added \in Seq(Symbols) /\ Len(added) <= CompareLimit
           /\ \A i, j \in 1..Len(added) : i # j => added[i] # added[j]
<1>1. Len(compare) \in Nat /\ CompareLimit \in Nat \ {0}
        /\ \A i \in 1..Len(compare) : compare[i] \in Symbols
  BY DEF Sensible
<1>2. CASE s \in Compared
  BY <1>2 DEF AddCompareStock, CompareOK
<1>3. CASE s \notin Compared /\ Len(compare) < CompareLimit
  <2>1. added = Append(compare, s)
    BY <1>1, <1>3 DEF AddCompareStock
  <2>2. /\ added \in Seq(Symbols) /\ Len(added) = Len(compare) + 1
        /\ \A i \in 1..Len(compare) : added[i] = compare[i]
        /\ added[Len(compare) + 1] = s
    BY <2>1, AppendProperties
  <2>3. \A i \in 1..Len(compare) : compare[i] # s
    BY <1>3 DEF Compared
  <2>4. \A i \in 1..Len(added) : i \in 1..Len(compare) \/ i = Len(compare) + 1
    BY <1>1, <2>2
  <2>5. QED BY <1>1, <1>3, <2>2, <2>3, <2>4 DEF CompareOK
<1>4. CASE s \notin Compared /\ ~(Len(compare) < CompareLimit)
  <2>1. PICK t : t = Tail(compare)
    OBVIOUS
  <2>2. Len(compare) = CompareLimit /\ compare # <<>>
    BY <1>1, <1>4 DEF CompareOK
  <2>3. added = Append(t, s)
    BY <1>1, <1>4, <2>1 DEF AddCompareStock
  <2>4. /\ t \in Seq(Symbols) /\ Len(t) = Len(compare) - 1
        /\ \A i \in 1..Len(t) : t[i] = compare[i + 1]
    BY <2>1, <2>2, HeadTailProperties
  <2>5. /\ added \in Seq(Symbols) /\ Len(added) = Len(compare)
        /\ \A i \in 1..Len(t) : added[i] = compare[i + 1]
        /\ added[Len(compare)] = s
    BY <1>1, <2>3, <2>4, AppendProperties
  <2>6. \A i \in 1..Len(compare) : compare[i] # s
    BY <1>4 DEF Compared
  <2>7. \A i \in 1..Len(added) :
          (i \in 1..Len(t) /\ i + 1 \in 1..Len(compare)) \/ i = Len(compare)
    BY <1>1, <2>4, <2>5
  <2>8. \A i, j \in 1..Len(added) : i # j => added[i] # added[j]
    BY <1>1, <2>4, <2>5, <2>6, <2>7 DEF CompareOK
  <2>9. QED BY <2>2, <2>5, <2>8
<1>5. QED BY <1>2, <1>3, <1>4

LEMMA ReceiveCompareLemma ==
    ASSUME Sensible, IInv, NEW c \in calls, ReceiveCompare(c)
    PROVE  IInv'
<1>1. /\ c \in InFlight("compare") /\ calls' = calls \ {c}
      /\ compare' \in {compare, AddCompareStock(c.sym)}
      /\ adding' \in {None, adding}
      /\ UNCHANGED <<selected, stock, impact, error, amount, tab, session, mount,
                     seq, loading, simulating, impactError, asked, mixed, asks>>
  BY DEF ReceiveCompare
<1>2. /\ calls \in SUBSET CallType /\ compare \in Seq(Symbols) /\ adding \in Maybe
      /\ amount \in BOOLEAN /\ tab \in Tabs /\ asks \in Nat
      /\ \A d \in calls : d.mount <= mount
  BY Types DEF IInv, NumbersOK
<1>3. c.kind = "compare" /\ c.sym \in Symbols
  BY <1>1, <1>2 DEF InFlight, CallType
<1>4. InFlight("analyze")' = InFlight("analyze") /\ InFlight("impact")' = InFlight("impact")
  BY <1>1, <1>3 DEF InFlight
<1>5. compare' \in Seq(Symbols) /\ CompareOK'
  <2>1. CompareOK
    BY DEF IInv
  <2>2. PICK added : added = AddCompareStock(c.sym)
    OBVIOUS
  <2>3. /\ added \in Seq(Symbols) /\ Len(added) <= CompareLimit
        /\ \A i, j \in 1..Len(added) : i # j => added[i] # added[j]
    BY <1>2, <1>3, <2>1, <2>2, AddKeepsDistinct
  <2>4. QED BY <1>1, <1>2, <2>1, <2>2, <2>3 DEF CompareOK
<1>6. adding' \in Maybe
  BY <1>1, <1>2 DEF Maybe
<1>7. QED BY <1>1, <1>2, <1>4, <1>5, <1>6, AsideLemma

LEMMA RemoveCompareLemma ==
    ASSUME Sensible, IInv, NEW s \in Symbols, RemoveCompareStock(s)
    PROVE  IInv'
<1> DEFINE others == {i \in 1..Len(compare) : compare[i] # s}
<1>1. PICK f \in [1..Cardinality(others) -> others] :
        /\ \A i, j \in DOMAIN f : i < j => f[i] < f[j]
        /\ compare' = [i \in DOMAIN f |-> compare[f[i]]]
  BY DEF RemoveCompareStock
<1>2. /\ UNCHANGED <<selected, stock, impact, error, amount, tab, session, mount, seq,
                     loading, simulating, impactError, adding, asked, mixed, calls, asks>>
  BY DEF RemoveCompareStock, local
<1>3. /\ calls \in SUBSET CallType /\ compare \in Seq(Symbols) /\ adding \in Maybe
      /\ amount \in BOOLEAN /\ tab \in Tabs /\ asks \in Nat
      /\ \A c \in calls : c.mount <= mount
      /\ Len(compare) \in Nat /\ Len(compare) <= CompareLimit /\ CompareLimit \in Nat
      /\ \A i, j \in 1..Len(compare) : i # j => compare[i] # compare[j]
  BY Types DEF IInv, NumbersOK, CompareOK, Sensible
<1>4. Cardinality(others) \in Nat /\ Cardinality(others) <= Len(compare)
  <2>1. PICK n \in Nat : n = Len(compare)
    BY <1>3
  <2>2. IsFiniteSet(1..n) /\ Cardinality(1..n) = n
    BY FS_Interval
  <2>3. others \in SUBSET (1..n)
    BY <2>1
  <2> HIDE DEF others
  <2>4. IsFiniteSet(others) /\ Cardinality(others) <= Cardinality(1..n)
    BY <2>2, <2>3, FS_Subset
  <2>5. QED BY <2>1, <2>2, <2>4, FS_CardinalityType
<1>5. PICK n \in Nat : n = Cardinality(others) /\ n <= Len(compare)
  BY <1>4
<1>6. \A i \in 1..n : f[i] \in 1..Len(compare)
  BY <1>1, <1>5
<1>7. DOMAIN f = 1..n /\ compare' = [i \in 1..n |-> compare[f[i]]]
  BY <1>1, <1>5
<1> HIDE DEF others
<1>8. \A i \in 1..n : compare[f[i]] \in Symbols
  BY <1>3, <1>6
<1>9. compare' \in Seq(Symbols) /\ Len(compare') = n
  BY <1>7, <1>8, IsASeq
<1>10. \A i, j \in 1..n : i # j => f[i] # f[j]
  BY <1>1, <1>6, <1>7
<1>11. CompareOK'
  BY <1>3, <1>5, <1>6, <1>7, <1>9, <1>10 DEF CompareOK
<1>12. InFlight("analyze")' = InFlight("analyze")
         /\ InFlight("impact")' = InFlight("impact")
  BY <1>2 DEF InFlight
<1>13. QED BY <1>2, <1>3, <1>9, <1>11, <1>12, AsideLemma

\* The next mount waits for nothing an earlier one asked for.
LEMMA ReopenLemma ==
    ASSUME Sensible, IInv, NEW link \in Maybe, Reopen(link)
    PROVE  IInv'
<1>1. /\ mount < MaxMounts /\ mount' = mount + 1
      /\ simulating' = FALSE /\ impactError' = FALSE /\ adding' = None
      /\ UNCHANGED <<stock, impact, compare, amount, tab, session, mixed>>
  BY DEF Reopen
<1>2. TypeOK
  BY DEF IInv
<1>3. mount' \in Mounts /\ mount <= mount' /\ mount' # 1
  BY <1>1, <1>2, Types DEF Mounts, Sensible
<1>4. ShownOK' /\ ImpactOK' /\ CompareOK'
  BY <1>1, <1>3 DEF ShownOK, ImpactOK, IInv, CompareOK
<1>5. CASE link # None /\ link # stock
  <2>1. Asking(link) /\ link \in Symbols
    BY <1>5 DEF Reopen, Maybe
  <2>2. /\ NumbersOK' /\ SpinnerIffWaiting' /\ LatestOK'
        /\ calls' \in SUBSET CallType /\ seq' \in [Mounts -> Nat]
    BY <1>3, <2>1, AskingLemma
  <2>3. /\ selected' = link /\ error' = FALSE /\ loading' = TRUE /\ asked' = link
        /\ asks' \in Nat
    BY <1>2, <2>1, Types DEF Asking
  <2>4. TypeOK'
    <3>1. None \in Maybe
      BY DEF Maybe
    <3>2. QED BY <1>1, <1>2, <1>3, <2>2, <2>3, <3>1, Types, TypesSuffice
  <2>5. QED BY <1>4, <2>2, <2>4 DEF IInv
<1>6. CASE ~(link # None /\ link # stock)
  <2>1. loading' = FALSE /\ UNCHANGED <<selected, error, seq, asked, calls, asks>>
    BY <1>6 DEF Reopen
  <2>2. \A c \in calls' : c.mount < mount'
    <3>1. ASSUME NEW c \in calls PROVE c.mount < mount + 1
      <4>1. c.mount \in Nat /\ mount \in Nat
        BY <1>2, Types DEF CallType, Mounts
      <4>2. c.mount <= mount
        BY DEF IInv, NumbersOK
      <4>3. QED BY <4>1, <4>2
    <3>2. QED BY <1>1, <2>1, <3>1
  <2>3. \A c \in calls' : c.mount \in Nat /\ mount' \in Nat
    BY <1>1, <1>2, <2>1, Types DEF CallType, Mounts
  <2>4. InFlight("analyze")' = InFlight("analyze") /\ InFlight("analyze") \subseteq calls
    BY <2>1 DEF InFlight
  <2>5. NumbersOK'
    BY <2>1, <2>2, <2>3, <2>4 DEF IInv, NumbersOK
  <2>6. SpinnerIffWaiting' /\ LatestOK'
    BY <2>1, <2>2, <2>3, <2>4 DEF SpinnerIffWaiting, LatestOK
  <2>7. TypeOK'
    <3>1. None \in Maybe
      BY DEF Maybe
    <3>2. QED BY <1>1, <1>2, <1>3, <2>1, <3>1, Types, TypesSuffice
  <2>8. QED BY <1>4, <2>5, <2>6, <2>7 DEF IInv
<1>7. QED BY <1>5, <1>6

-----------------------------------------------------------------------------
(* The invariant holds, and what follows from it.                           *)

LEMMA InitIInv == ASSUME Sensible PROVE Init => IInv
<1> SUFFICES ASSUME Init PROVE IInv
  OBVIOUS
<1>1. TypeOK
  <2>1. None \in Maybe /\ <<>> \in Seq(Symbols) /\ "overview" \in Tabs /\ 1 \in Mounts
    BY DEF Sensible, Maybe, Tabs, Mounts
  <2>2. {error, amount, session, loading, simulating, impactError, mixed} \subseteq BOOLEAN
    BY DEF Init
  <2>3. QED BY <2>1, <2>2 DEF Init, TypeOK
<1>2. InFlight("analyze") = {} /\ InFlight("impact") = {} /\ calls = {}
  BY DEF Init, InFlight
<1>3. NumbersOK /\ SpinnerIffWaiting /\ LatestOK
  BY <1>2 DEF Init, NumbersOK, SpinnerIffWaiting, LatestOK
<1>4. ShownOK /\ ImpactOK
  BY <1>2 DEF Init, ShownOK, ImpactOK
<1>5. CompareOK
  BY DEF Init, CompareOK, Sensible
<1>6. QED BY <1>1, <1>3, <1>4, <1>5 DEF IInv

LEMMA NextIInv == ASSUME Sensible PROVE IInv /\ [Next]_vars => IInv'
<1> SUFFICES ASSUME IInv, [Next]_vars PROVE IInv'
  OBVIOUS
<1>1. CASE UNCHANGED vars
  <2>1. UNCHANGED <<selected, stock, impact, error, compare, amount, tab, session, mount,
                    seq, loading, simulating, impactError, adding, calls, asked, mixed,
                    asks>>
    BY <1>1 DEF vars, store, local
  <2>2. InFlight("analyze")' = InFlight("analyze")
          /\ InFlight("impact")' = InFlight("impact")
    BY <2>1 DEF InFlight
  <2>3. CompareOK'
    BY <2>1 DEF IInv, CompareOK
  <2>4. /\ calls \in SUBSET CallType /\ compare \in Seq(Symbols) /\ adding \in Maybe
        /\ amount \in BOOLEAN /\ tab \in Tabs /\ asks \in Nat
        /\ \A c \in calls : c.mount <= mount
    BY Types DEF IInv, NumbersOK
  <2>5. QED BY <2>1, <2>2, <2>3, <2>4, AsideLemma
<1>2. ASSUME NEW c \in calls, Receive(c) PROVE IInv'
  BY <1>2, ReceiveAnalysisLemma, ReceiveImpactLemma, ReceiveCompareLemma DEF Receive
<1>3. QED BY <1>1, <1>2, SelectLemma, HandleAddLemma, RemoveCompareLemma, ClearLemma,
             SimulateLemma, PanelLemma, ReopenLemma DEF Next, Maybe

LEMMA Inductive == ASSUME Sensible PROVE Spec => []IInv
<1> QED BY InitIInv, NextIInv, PTL DEF Spec

\* The tab's state keeps its shape.
THEOREM TypeCorrect == ASSUME Sensible PROVE Spec => []TypeOK
<1>1. IInv => TypeOK
  BY DEF IInv
<1> QED BY <1>1, Inductive, PTL

\* While the tab was never closed, a stock on screen with a selection and no error is
\* the selected one, whatever the order of the answers to any number of selections,
\* clears and retries.
THEOREM ShownFollows == ASSUME Sensible PROVE Spec => []ShownIsSelected
<1>1. IInv => ShownIsSelected
  BY DEF IInv, ShownOK, ShownIsSelected, Loaded
<1> QED BY <1>1, Inductive, PTL

\* In every mount the spinner turns exactly while the mount's latest request is out.
THEOREM SpinnerTellsTruth == ASSUME Sensible PROVE Spec => []SpinnerIffWaiting
<1>1. IInv => SpinnerIffWaiting
  BY DEF IInv
<1> QED BY <1>1, Inductive, PTL

\* For every limit that its palette has colours for, the compared stocks are distinct
\* and no two have a colour in common.
THEOREM ComparedApart == ASSUME Sensible PROVE Spec => []CompareDistinct
<1>1. ASSUME NEW i \in Nat, 0 < i, i <= PaletteSize PROVE CompareColour(i) = i - 1
  BY <1>1 DEF Sensible, CompareColour
<1>2. IInv => CompareDistinct
  <2> SUFFICES ASSUME IInv, NEW i \in 1..Len(compare), NEW j \in 1..Len(compare), i # j
               PROVE  compare[i] # compare[j] /\ CompareColour(i) # CompareColour(j)
    BY DEF CompareDistinct
  <2>1. Len(compare) \in Nat /\ Len(compare) <= PaletteSize
    BY Types DEF IInv, CompareOK, Sensible
  <2>2. CompareColour(i) = i - 1 /\ CompareColour(j) = j - 1
    BY <1>1, <2>1 DEF Sensible
  <2>3. QED BY <2>2 DEF IInv, CompareOK
<1> QED BY <1>2, Inductive, PTL

\* In the first mount, as long as simulations neither overlap nor are skipped, the
\* impact shown is the stock's own.
THEOREM ImpactFollows == ASSUME Sensible PROVE Spec => []ImpactOfStock
<1>1. IInv => ImpactOfStock
  BY DEF IInv, ImpactOK, ImpactOfStock, Loaded
<1> QED BY <1>1, Inductive, PTL

-----------------------------------------------------------------------------
(* The refinement of LatestWins.                                            *)

LEMMA InitRefines == Init => Latest!Init
BY DEF Init, Latest!Init

\* An answer shows what was asked for, or nothing that is heard.
LEMMA ReceiveRefines ==
    ASSUME Sensible, IInv, NEW c \in calls, Receive(c), mount = 1
    PROVE  Latest!Show \/ (stock' = stock /\ asked' = asked /\ mount' = 1)
<1>1. mount' = 1 /\ asked' = asked
  BY DEF Receive, ReceiveAnalysis, ReceiveImpact, ReceiveCompare
<1>2. stock' = stock \/ (c \in InFlight("analyze") /\ Current(c) /\ stock' = c.sym)
  BY DEF Receive, ReceiveAnalysis, ReceiveImpact, ReceiveCompare
<1>3. CASE c \in InFlight("analyze") /\ Current(c) /\ stock' = c.sym
  <2>1. c.mount = mount /\ c.sym \in Symbols
    <3>1. c.mount <= mount /\ c.mount \in Mounts /\ c.sym \in Symbols
      BY Types DEF IInv, NumbersOK, CallType
    <3>2. QED BY <3>1 DEF Mounts
  <2>2. c.sym = asked
    BY <1>3, <2>1 DEF IInv, LatestOK
  <2>3. QED BY <1>1, <1>3, <2>1, <2>2 DEF Latest!Show, Sensible
<1>4. QED BY <1>1, <1>2, <1>3

\* Every step of the tab is one of the promise, or none.
LEMMA NextRefines ==
    ASSUME Sensible
    PROVE  IInv /\ [Next]_vars =>
             [Latest!Next]_<<IF mount = 1 THEN asked ELSE None,
                             IF mount = 1 THEN stock ELSE None>>
<1> SUFFICES ASSUME IInv, [Next]_vars
             PROVE  \/ Latest!Next
                    \/ UNCHANGED <<IF mount = 1 THEN asked ELSE None,
                                   IF mount = 1 THEN stock ELSE None>>
  OBVIOUS
<1>1. mount \in Nat
  BY Types DEF IInv, Mounts
<1>2. CASE mount' = mount /\ asked' = asked /\ stock' = stock
  BY <1>2
<1>3. CASE mount # 1 /\ mount' # 1
  BY <1>3
<1>4. CASE mount = 1 /\ mount' # 1
  BY <1>4 DEF Latest!Next, Latest!Leave
<1>5. ASSUME NEW s \in Symbols, Select(s), mount = 1 PROVE Latest!Next
  BY <1>5 DEF Select, Asking, Latest!Next, Latest!Ask
<1>6. ASSUME Clear, mount = 1 PROVE Latest!Next
  BY <1>6 DEF Clear, Latest!Next, Latest!Hide
<1>7. ASSUME NEW c \in calls, Receive(c), mount = 1
      PROVE  Latest!Next \/ (stock' = stock /\ asked' = asked /\ mount' = mount)
  BY <1>7, ReceiveRefines DEF Latest!Next
<1>8. ASSUME NEW link \in Maybe, Reopen(link) PROVE mount' # 1 /\ mount' # mount
  BY <1>1, <1>8, Types DEF Reopen, IInv, Mounts
<1>9. ASSUME \/ \E s \in Symbols : HandleAddCompareStock(s) \/ RemoveCompareStock(s)
             \/ Simulate \/ SetAmount \/ ClearCompareStocks
             \/ \E t \in Tabs : SetActiveSubTab(t)
             \/ UNCHANGED vars
      PROVE  mount' = mount /\ asked' = asked /\ stock' = stock
  BY <1>9 DEF HandleAddCompareStock, RemoveCompareStock, Simulate, SetAmount,
              ClearCompareStocks, SetActiveSubTab, store, vars
<1>10. ASSUME mount # 1 PROVE mount' # 1
  <2>1. CASE \E link \in Maybe : Reopen(link)
    BY <1>8, <2>1
  <2>2. ASSUME ~\E link \in Maybe : Reopen(link) PROVE mount' = mount
    <3>1. ASSUME NEW s \in Symbols, Select(s) PROVE mount' = mount
      BY <3>1 DEF Select
    <3>2. ASSUME Clear PROVE mount' = mount
      BY <3>2 DEF Clear
    <3>3. ASSUME NEW c \in calls, Receive(c) PROVE mount' = mount
      BY <3>3 DEF Receive, ReceiveAnalysis, ReceiveImpact, ReceiveCompare
    <3>4. QED BY <1>9, <2>2, <3>1, <3>2, <3>3 DEF Next, Maybe
  <2>3. QED BY <1>10, <2>1, <2>2
<1>11. CASE mount = 1
  <2>1. (\E link \in Maybe : Reopen(link)) => mount' # 1
    BY <1>8
  <2>2. QED BY <1>2, <1>4, <1>5, <1>6, <1>7, <1>9, <1>11, <2>1 DEF Next, Maybe
<1>12. QED BY <1>3, <1>10, <1>11

\* The tab implements LatestWins for any number of requests in flight: until it is
\* closed, what appears is what was asked for last, and no older answer comes back.
THEOREM ImplementsLatest == ASSUME Sensible PROVE Spec => LatestSpec
<1> QED BY InitRefines, NextRefines, Inductive, PTL DEF Spec, LatestSpec, Latest!Spec

=============================================================================
