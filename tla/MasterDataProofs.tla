-------------------------- MODULE MasterDataProofs --------------------------
(***************************************************************************)
(* Proofs about MasterData for any outlets, distributors, asset types,     *)
(* categories and requests, and any number of concurrent calls.            *)
(***************************************************************************)
EXTENDS MasterData, TLAPS

(* The inductive invariant, by the call it speaks of.  A call that         *)
(* registers a request has a request of its own that does not exist yet;   *)
(* the requests a call remembers from its start do; a call that saves has  *)
(* a row, and a row about to be deactivated is used by none of those       *)
(* requests that is unfinished; what an open transaction has mapped, no    *)
(* other distributor serves; and what a call has read for a request is     *)
(* still so unless it was overtaken.                                       *)
IsCreating(call) == call.at \in {"readOutlets", "findType", "insert"}

IsForNewRequest(call) ==
  IsCreating(call) => call.request \in Requests /\ requests[call.request].status = ""

Remembers(call) == \A r \in call.before : requests[r].status # ""

SavesARow(call) ==
  call.at \in {"checkMapping", "inUse", "write", "map"} => call.row \in Rows

Deactivates(call) == call.seen = "active" /\ call.is_active = "inactive"

HasAsked(call) ==
  call.at \in {"write", "map"} /\ Deactivates(call)
    => \A r \in call.before \cap Unfinished : ~RefersTo(requests[r], call.row)

MapsItsOwn(call) ==
  call.at = "map" =>
    /\ call.row \in Distributors
    /\ \A o \in call.mapped : servedBy[o] \in {None, call.row}

IsCurrent(call) ==
  IsCreating(call) /\ ~call.overtaken =>
    /\ call.distributor # None =>
         /\ active[call.distributor] = "active"
         /\ \A o \in call.outlets : servedBy[o] = call.distributor
    /\ call.at # "readOutlets" =>
         call.outlet \in call.outlets /\ active[call.outlet] = "active"
    /\ call.at = "insert" =>
         call.type \in Types /\ Exists(call.type) /\ code[call.type] = call.code

CallInv(call) ==
  /\ call.at = "idle" => call = Idle
  /\ IsForNewRequest(call)
  /\ Remembers(call)
  /\ SavesARow(call)
  /\ HasAsked(call)
  /\ MapsItsOwn(call)
  /\ IsCurrent(call)

(* No two calls register one request, and no two open transactions have    *)
(* written one row.                                                        *)
Apart(call, other) ==
  /\ call.request # None => other.request # call.request
  /\ call.at = "map" /\ other.at = "map" =>
       call.row # other.row /\ call.mapped \cap other.mapped = {}

IInv ==
  /\ TypeOK
  /\ \A w \in Workers : CallInv(calls[w])
  /\ \A w \in Workers : \A v \in Workers \ {w} : Apart(calls[w], calls[v])

---------------------------------------------------------------------------
(* A worker at rest.                                                       *)
LEMMA IdleTyped ==
  /\ Idle \in Call /\ Idle.at = "idle" /\ Idle.request = None
  /\ Idle.before = {}
BY DEF Idle, Call, Flag

(* A worker at rest is overtaken by nobody.                                *)
LEMMA IdleStays == Idle.overtaken = FALSE /\ [Idle EXCEPT !.overtaken = FALSE] = Idle
<1>1. Idle.overtaken = FALSE
  BY DEF Idle
<1>2. [Idle EXCEPT !.overtaken = FALSE] = Idle
  <2>1. ASSUME NEW call \in Call, call.overtaken = FALSE
        PROVE  [call EXCEPT !.overtaken = FALSE] = call
    BY <2>1 DEF Call
  <2>2. QED
    BY <1>1, <2>1, IdleTyped
<1>3. QED
  BY <1>1, <1>2

(* None is no row, and rows of different kinds are different.              *)
LEMMA NoneIsNoRow ==
  /\ None \notin Distributors /\ None \notin Requests /\ None \notin Rows
  /\ Distributors \cap Types = {} /\ Distributors \cap Outlets = {}
  /\ Types \cap Outlets = {}
BY MasterDataAssumption DEF Rows

(* A worker at rest has nothing to keep, and is in nobody's way.           *)
LEMMA IdleHolds == CallInv(Idle) /\ CallInv(Idle)'
BY IdleTyped DEF CallInv, IsForNewRequest, Remembers, SavesARow, HasAsked, MapsItsOwn, IsCurrent,
                 IsCreating

(* A call at rest is apart from any other.                                 *)
LEMMA IdleApart == ASSUME NEW call \in Call PROVE Apart(Idle, call) /\ Apart(call, Idle)
BY IdleTyped DEF Apart

(* A call that goes on keeps apart from the others if it has mapped        *)
(* nothing and has a request of its own if any.                            *)
LEMMA StaysApart ==
  ASSUME NEW call, NEW other,
         call.at # "map",
         call.request # None => other.request # call.request
  PROVE  Apart(call, other) /\ Apart(other, call)
BY DEF Apart

(* A call that begins, goes on or ends without writing anything visible.   *)
LEMMA ContinueStep ==
  ASSUME IInv, NEW w \in Workers, NEW call \in Call, Continue(w, call), UNCHANGED tables,
         CallInv(call),
         \A v \in Workers \ {w} : Apart(call, calls[v]) /\ Apart(calls[v], call)
  PROVE  IInv'
<1>1. /\ calls' \in [Workers -> Call]
      /\ calls'[w] = call
      /\ \A v \in Workers \ {w} : calls'[v] = calls[v]
  BY DEF IInv, TypeOK, Continue
<1>2. TypeOK'
  BY <1>1 DEF IInv, TypeOK, tables
<1>3. \A v \in Workers : CallInv(calls'[v])
  BY <1>1 DEF IInv
<1>4. \A v \in Workers : CallInv(calls[v])'
  BY <1>3 DEF CallInv, IsForNewRequest, Remembers, SavesARow, HasAsked, MapsItsOwn, IsCurrent, Exists,
              Unfinished, tables
<1>5. ASSUME NEW u \in Workers, NEW v \in Workers \ {u} PROVE Apart(calls[u], calls[v])'
  <2>1. Apart(calls'[u], calls'[v])
    BY <1>1 DEF IInv
  <2>2. QED
    BY <2>1 DEF Apart
<1>6. QED
  BY <1>2, <1>4, <1>5 DEF IInv

(* A call that goes on in a place that is not the mapping.                 *)
LEMMA AdvanceStep ==
  ASSUME IInv, NEW w \in Workers, NEW call \in Call, Continue(w, call), UNCHANGED tables,
         CallInv(call), call.at # "map",
         call.request \in {None, calls[w].request}
  PROVE  IInv'
<1>1. \A v \in Workers \ {w} : call.request # None => calls[v].request # call.request
  BY DEF IInv, Apart
<1>2. QED
  BY <1>1, StaysApart, ContinueStep

(* A call that begins.                                                     *)
LEMMA BeginStep ==
  ASSUME IInv, NEW w \in Workers, NEW call \in Call,
         Begin(w, call), UNCHANGED tables,
         call.at \notin {"idle", "map"},
         call.at = "write" => ~Deactivates(call),
         IsForNewRequest(call), SavesARow(call),
         call.request # None => \A v \in Workers : calls[v].request # call.request,
         IsCurrent(call)
  PROVE  IInv'
<1> DEFINE begun == [call EXCEPT !.before = Unfinished]
<1>1. /\ begun \in Call
      /\ begun.at = call.at /\ begun.request = call.request /\ begun.row = call.row
      /\ begun.seen = call.seen /\ begun.is_active = call.is_active
      /\ begun.distributor = call.distributor /\ begun.outlets = call.outlets
      /\ begun.outlet = call.outlet /\ begun.type = call.type /\ begun.code = call.code
      /\ begun.before = Unfinished /\ begun.overtaken = call.overtaken
  BY DEF Unfinished, Call
<1>2. Continue(w, begun)
  BY DEF Begin
<1> HIDE DEF begun
<1>3. CallInv(begun)
  BY <1>1 DEF CallInv, IsForNewRequest, IsCreating, Remembers, SavesARow, HasAsked, MapsItsOwn,
              IsCurrent, Deactivates, Unfinished
<1>4. \A v \in Workers \ {w} : Apart(begun, calls[v]) /\ Apart(calls[v], begun)
  BY <1>1, StaysApart
<1>5. QED
  BY <1>1, <1>2, <1>3, <1>4, ContinueStep

(* What a write must leave to a call.                                      *)
IsKept(call) == CallInv(call) => CallInv(call)'

TablesTyped ==
  /\ active \in [Rows -> Flag \cup {""}]
  /\ code \in [Types -> Categories \cup {None}]
  /\ servedBy \in [Outlets -> Distributors \cup {None}]
  /\ requests \in [Requests -> Request]

(* The calls after a step, which for each are those before it but for      *)
(* what was overtaken.                                                     *)
LEMMA StatementStep ==
  ASSUME IInv, TablesTyped',
         calls' \in [Workers -> Call],
         \A v \in Workers : calls'[v] = Idle
           \/ /\ calls'[v].at = calls[v].at /\ calls'[v].request = calls[v].request
              /\ calls'[v].row = calls[v].row /\ calls'[v].mapped = calls[v].mapped,
         \A v \in Workers : \A call \in Call : call = calls'[v] => CallInv(call)'
  PROVE  IInv'
<1>1. TypeOK'
  BY DEF TypeOK, TablesTyped
<1>2. ASSUME NEW v \in Workers PROVE CallInv(calls[v])'
  <2>1. calls'[v] \in Call
    OBVIOUS
  <2>2. ASSUME NEW call \in Call, call = calls'[v] PROVE CallInv(call)'
    BY <2>2
  <2>3. QED
    BY <2>1, <2>2 DEF CallInv, IsForNewRequest, Remembers, SavesARow, HasAsked, MapsItsOwn, IsCurrent
<1>3. ASSUME NEW u \in Workers, NEW v \in Workers \ {u} PROVE Apart(calls[u], calls[v])'
  <2>1. Apart(calls[u], calls[v]) /\ calls'[u] \in Call /\ calls'[v] \in Call
    BY DEF IInv
  <2>2. CASE calls'[u] = Idle \/ calls'[v] = Idle
    <3>1. Apart(calls'[u], calls'[v])
      BY <2>1, <2>2, IdleApart
    <3>2. QED
      BY <3>1 DEF Apart
  <2>3. CASE calls'[u] # Idle /\ calls'[v] # Idle
    BY <2>1, <2>3 DEF Apart
  <2>4. QED
    BY <2>2, <2>3
<1>4. QED
  BY <1>1, <1>2, <1>3 DEF IInv

(* A statement that is no part of a call.                                  *)
LEMMA LoneStep ==
  ASSUME IInv, UNCHANGED calls, TablesTyped',
         \A v \in Workers : \A call \in Call : call = calls[v] => IsKept(call)
  PROVE  IInv'
<1>1. calls' \in [Workers -> Call]
  BY DEF IInv, TypeOK
<1>2. \A v \in Workers : \A call \in Call : call = calls'[v] => CallInv(call)'
  BY DEF IInv, IsKept
<1>3. QED
  BY <1>1, <1>2, StatementStep

(* A call that ends with an INSERT of its own.                             *)
LEMMA ReturnStep ==
  ASSUME IInv, NEW w \in Workers, Return(w), TablesTyped',
         \A v \in Workers \ {w} : \A call \in Call : call = calls[v] => IsKept(call)
  PROVE  IInv'
<1>1. /\ calls' \in [Workers -> Call]
      /\ calls'[w] = Idle
      /\ \A v \in Workers \ {w} : calls'[v] = calls[v]
  BY IdleTyped DEF IInv, TypeOK, Return, Continue
<1>2. \A v \in Workers : \A call \in Call : call = calls'[v] => CallInv(call)'
  BY <1>1, IdleHolds DEF IInv, IsKept
<1>3. QED
  BY <1>1, <1>2, StatementStep

(* A call that has saved its row: it must leave to the others what they    *)
(* keep, except what those have read that have read that row.              *)
IsLeft(call, row) ==
  CallInv(call) =>
    /\ IsForNewRequest(call)' /\ Remembers(call)' /\ HasAsked(call)' /\ MapsItsOwn(call)'
    /\ ~HasRead(call, row) => IsCurrent(call)'

(* A call ends that has saved its row, and whoever has read it is overtaken. *)
LEMMA SavedStep ==
  ASSUME IInv, NEW w \in Workers, ReturnSaved(w), TablesTyped', calls[w].row \in Rows,
         \A v \in Workers \ {w} : \A call \in Call :
            call = calls[v] => IsLeft(call, calls[w].row)
  PROVE  IInv'
<1> DEFINE after(v) == [calls[v] EXCEPT !.overtaken = @ \/ HasRead(calls[v], calls[w].row)]
<1>1. calls'[w] = Idle /\ \A v \in Workers \ {w} : calls'[v] = after(v)
  BY DEF ReturnSaved
<1>2. ASSUME NEW v \in Workers \ {w}
      PROVE  /\ calls'[v] \in Call
             /\ calls'[v].at = calls[v].at /\ calls'[v].request = calls[v].request
             /\ calls'[v].row = calls[v].row /\ calls'[v].mapped = calls[v].mapped
             /\ \A call \in Call : call = calls'[v] => CallInv(call)'
  <2> DEFINE read == HasRead(calls[v], calls[w].row)
             missed == calls[v].overtaken \/ read
  <2>1. calls[v] \in Call /\ CallInv(calls[v]) /\ IsLeft(calls[v], calls[w].row)
    BY DEF IInv, TypeOK
  <2>2. read \in BOOLEAN /\ calls'[v] = [calls[v] EXCEPT !.overtaken = missed]
    BY <1>1 DEF HasRead
  <2>3. missed \in BOOLEAN
    BY <2>1, <2>2 DEF Call
  <2> HIDE DEF missed, read
  <2>4. /\ calls'[v] \in Call
        /\ calls'[v].at = calls[v].at /\ calls'[v].request = calls[v].request
        /\ calls'[v].row = calls[v].row /\ calls'[v].mapped = calls[v].mapped
        /\ calls'[v].before = calls[v].before /\ calls'[v].seen = calls[v].seen
        /\ calls'[v].is_active = calls[v].is_active
        /\ calls'[v].distributor = calls[v].distributor
        /\ calls'[v].outlets = calls[v].outlets /\ calls'[v].outlet = calls[v].outlet
        /\ calls'[v].type = calls[v].type /\ calls'[v].code = calls[v].code
        /\ calls'[v].overtaken = missed
    BY <2>1, <2>2, <2>3 DEF Call
  <2>5. ASSUME NEW call \in Call, call = calls'[v] PROVE CallInv(call)'
    <3>1. ASSUME NEW old \in Call, old = calls[v] PROVE CallInv(call)'
      <4>1. CallInv(old) /\ IsLeft(old, calls[w].row)
        BY <2>1, <3>1
      <4>2. /\ call.at = old.at /\ call.request = old.request
            /\ call.row = old.row /\ call.mapped = old.mapped
            /\ call.before = old.before /\ call.seen = old.seen
            /\ call.is_active = old.is_active
            /\ call.distributor = old.distributor
            /\ call.outlets = old.outlets /\ call.outlet = old.outlet
            /\ call.type = old.type /\ call.code = old.code
            /\ call.overtaken = missed
        BY <2>4, <2>5, <3>1
      <4>3. /\ IsForNewRequest(call)' /\ Remembers(call)' /\ HasAsked(call)'
            /\ MapsItsOwn(call)'
        BY <4>1, <4>2 DEF IsLeft, IsForNewRequest, IsCreating, Remembers, SavesARow, HasAsked, MapsItsOwn,
                          Deactivates
      <4>4. IsCurrent(call)'
        <5>1. CASE missed
          BY <4>2, <5>1 DEF IsCurrent
        <5>2. CASE ~missed
          <6>1. ~HasRead(old, calls[w].row) /\ ~old.overtaken
            BY <3>1, <5>2 DEF missed, read
          <6>2. IsCurrent(old)'
            BY <4>1, <6>1 DEF IsLeft
          <6>3. QED
            BY <4>2, <5>2, <6>1, <6>2 DEF IsCurrent, IsCreating
        <5>3. QED
          BY <5>1, <5>2
      <4>5. call.at = "idle" => call = Idle
        <5>1. ASSUME old.at = "idle" PROVE call = Idle
          <6>1. old = Idle
            BY <4>1, <5>1 DEF CallInv
          <6>2. ~HasRead(Idle, calls[w].row)
            BY NoneIsNoRow DEF HasRead, Idle
          <6>3. Idle.overtaken = FALSE /\ [Idle EXCEPT !.overtaken = FALSE] = Idle
            BY IdleStays
          <6>4. missed = FALSE
            BY <2>3, <3>1, <6>1, <6>2, <6>3 DEF missed, read
          <6>5. QED
            BY <2>2, <2>5, <3>1, <6>1, <6>3, <6>4
        <5>2. QED
          BY <4>2, <5>1
      <4>6. SavesARow(call)'
        BY <4>1, <4>2 DEF CallInv, SavesARow
      <4>7. QED
        BY <4>3, <4>4, <4>5, <4>6 DEF CallInv
    <3>2. QED
      BY <2>1, <3>1
  <2>6. QED
    BY <2>4, <2>5
<1>3. calls' \in [Workers -> Call]
  BY <1>1, <1>2, IdleTyped DEF ReturnSaved
<1>4. \A v \in Workers : \A call \in Call : call = calls'[v] => CallInv(call)'
  BY <1>1, <1>2, IdleHolds
<1>5. QED
  BY <1>1, <1>2, <1>3, <1>4, StatementStep
---------------------------------------------------------------------------
(* The calls that begin.                                                   *)

(* checkOutletMapping, and resolveActive after it, only move a call on.    *)
LEMMA ResolveMoves ==
  ASSUME NEW call \in Call
  PROVE  /\ Resolve(call) \in Call
         /\ Resolve(call).at = IF Deactivates(call) THEN "inUse" ELSE "write"
         /\ Deactivates(Resolve(call)) <=> Deactivates(call)
         /\ Resolve(call).request = call.request /\ Resolve(call).before = call.before
         /\ Resolve(call).row = call.row
<1>1. AsksIfInUse(call) <=> Deactivates(call)
  BY DEF AsksIfInUse, Deactivates
<1>2. CASE Deactivates(call)
  BY <1>1, <1>2 DEF Resolve, Deactivates, Call
<1>3. CASE ~Deactivates(call)
  BY <1>1, <1>3 DEF Resolve, Deactivates, Call
<1>4. QED
  BY <1>2, <1>3

(* Check goes to the mapping's check, or on as Resolve does.               *)
LEMMA CheckMoves ==
  ASSUME NEW call \in Call
  PROVE  /\ Check(call) \in Call
         /\ Check(call).at \in {"checkMapping", "inUse", "write"}
         /\ Check(call).at = "write" => ~Deactivates(Check(call))
         /\ Check(call).request = call.request /\ Check(call).row = call.row
<1>1. CASE call.outlets = {}
  <2>1. Check(call) = Resolve(call)
    BY <1>1 DEF Check
  <2>2. QED
    BY <2>1, ResolveMoves
<1>2. CASE call.outlets # {}
  BY <1>2 DEF Check, Call
<1>3. QED
  BY <1>1, <1>2

(* A call that saves a row.                                                *)
LEMMA SaveBegins ==
  ASSUME IInv, NEW w \in Workers, NEW call \in Call,
         Begin(w, call), UNCHANGED tables,
         call.request = None, call.row \in Rows,
         call.at \in {"checkMapping", "inUse", "write"},
         call.at = "write" => ~Deactivates(call)
  PROVE  IInv'
BY BeginStep DEF IsForNewRequest, SavesARow, IsCurrent, IsCreating

(* CreateDistributor starts a call that saves a row.                       *)
LEMMA CreateDistributorStep ==
  ASSUME IInv, NEW w \in Workers, NEW d \in Distributors, NEW flag \in Flag,
         NEW outlets \in SUBSET Outlets, CreateDistributor(w, d, flag, outlets)
  PROVE  IInv'
<1> DEFINE call == [Idle EXCEPT !.row = d, !.is_active = flag, !.outlets = outlets]
<1>1. call \in Call /\ call.request = None /\ call.row \in Rows
  BY IdleTyped DEF Call, Rows
<1> HIDE DEF call
<1>2. Begin(w, Check(call)) /\ UNCHANGED tables
  BY DEF CreateDistributor, call
<1>3. QED
  BY <1>1, <1>2, CheckMoves, SaveBegins

(* What an update has read.                                                *)
LEMMA UpdateTyped ==
  ASSUME TypeOK, NEW w, NEW row \in Rows, NEW flag \in Flag \cup {""}
  PROVE  /\ Update(w, row, flag) \in Call /\ Update(w, row, flag).request = None
         /\ Update(w, row, flag).row = row
BY IdleTyped DEF Update, Call, TypeOK

(* So do the updates of an outlet, a distributor and a type.               *)
LEMMA MaintainStep ==
  ASSUME IInv, NEW w \in Workers, NEW flag \in Flag \cup {""}, Maintain(w, flag)
  PROVE  IInv'
<1>1. ASSUME NEW o \in Outlets, UpdateOutlet(w, o, flag) PROVE IInv'
  <2>1. /\ Update(w, o, flag) \in Call /\ Update(w, o, flag).request = None
        /\ Update(w, o, flag).row \in Rows
    <3>1. TypeOK /\ o \in Rows
      BY DEF IInv, Rows
    <3>2. QED
      BY <3>1, UpdateTyped
  <2>2. Begin(w, Resolve(Update(w, o, flag))) /\ UNCHANGED tables
    BY <1>1 DEF UpdateOutlet
  <2>3. QED
    BY <2>1, <2>2, ResolveMoves, SaveBegins
<1>2. ASSUME NEW d \in Distributors, NEW outlets \in SUBSET Outlets,
             UpdateDistributor(w, d, flag, outlets)
      PROVE  IInv'
  <2>1. /\ Update(w, d, flag) \in Call /\ Update(w, d, flag).request = None
        /\ Update(w, d, flag).row \in Rows
    <3>1. TypeOK /\ d \in Rows
      BY DEF IInv, Rows
    <3>2. QED
      BY <3>1, UpdateTyped
  <2> DEFINE call == [Update(w, d, flag) EXCEPT !.outlets = outlets]
  <2>2. call \in Call /\ call.request = None /\ call.row \in Rows
    BY <2>1 DEF Call
  <2> HIDE DEF call
  <2>3. Begin(w, Check(call)) /\ UNCHANGED tables
    BY <1>2 DEF UpdateDistributor, call
  <2>4. QED
    BY <2>2, <2>3, CheckMoves, SaveBegins
<1>3. ASSUME NEW t \in Types, NEW c \in Categories, UpdateAssetType(w, t, flag, c)
      PROVE  IInv'
  <2>1. /\ Update(w, t, flag) \in Call /\ Update(w, t, flag).request = None
        /\ Update(w, t, flag).row \in Rows
    <3>1. TypeOK /\ t \in Rows
      BY DEF IInv, Rows
    <3>2. QED
      BY <3>1, UpdateTyped
  <2> DEFINE call == [Update(w, t, flag) EXCEPT !.code = c]
  <2>2. call \in Call /\ call.request = None /\ call.row \in Rows
    BY <2>1 DEF Call
  <2> HIDE DEF call
  <2>3. Begin(w, Resolve(call)) /\ UNCHANGED tables
    BY <1>3 DEF UpdateAssetType, call
  <2>4. QED
    BY <2>2, <2>3, ResolveMoves, SaveBegins
<1>4. QED
  BY <1>1, <1>2, <1>3 DEF Maintain

(* A call that registers a request: the distributor it starts from is      *)
(* active, and the outlets it takes from it are those it serves.           *)
LEMMA CreateStep ==
  ASSUME IInv, NEW w \in Workers, NEW r \in Requests, NEW c \in Offered,
         NEW d \in Distributors \cup {None}, NEW o \in Outlets, Create(w, r, c, d, o)
  PROVE  IInv'
<1> DEFINE outlets == IF d = None THEN Outlets ELSE {p \in Outlets : servedBy[p] = d}
           call == [Idle EXCEPT !.at = "readOutlets", !.request = r, !.code = c,
                      !.distributor = d, !.outlet = o, !.outlets = outlets]
<1>1. /\ call \in Call /\ call.at = "readOutlets" /\ call.request = r
      /\ call.distributor = d /\ call.outlets = outlets
  <2>1. outlets \in SUBSET Outlets /\ c \in Categories
    BY MasterDataAssumption
  <2> HIDE DEF outlets
  <2>2. QED
    BY <2>1 DEF Call, Idle, Flag
<1> HIDE DEF call
<1>2. /\ Begin(w, call) /\ UNCHANGED tables
      /\ requests[r].status = ""
      /\ \A v \in Workers : calls[v].request # r
      /\ d # None => active[d] = "active"
  BY DEF Create, call
<1>3. QED
  <2>1. IsForNewRequest(call) /\ SavesARow(call) /\ IsCurrent(call)
    BY <1>1, <1>2 DEF IsForNewRequest, SavesARow, IsCurrent, IsCreating
  <2>2. QED
    BY <1>1, <1>2, <2>1, BeginStep

(* Any call that starts keeps the invariant.                               *)
LEMMA StartStep ==
  ASSUME IInv, NEW w \in Workers, Start(w)
  PROVE  IInv'
BY MaintainStep, CreateDistributorStep, CreateStep DEF Start
---------------------------------------------------------------------------
(* The steps of a call that write nothing visible.                         *)

(* A call that ends.                                                       *)
LEMMA EndStep ==
  ASSUME IInv, NEW w \in Workers, Return(w), UNCHANGED tables
  PROVE  IInv'
BY AdvanceStep, IdleTyped, IdleHolds DEF Return

(* The check of the mapping goes on or ends the call.                      *)
LEMMA CheckOutletMappingStep ==
  ASSUME IInv, NEW w \in Workers, CheckOutletMapping(w)
  PROVE  IInv'
<1> DEFINE call == Resolve(calls[w])
<1>1. calls[w] \in Call /\ CallInv(calls[w]) /\ calls[w].at = "checkMapping"
  BY DEF IInv, TypeOK, CheckOutletMapping, At
<1>2. /\ call \in Call /\ call.at \in {"inUse", "write"}
      /\ call.at = "write" => ~Deactivates(call)
      /\ call.request = calls[w].request /\ call.before = calls[w].before
      /\ call.row = calls[w].row
  BY <1>1, ResolveMoves
<1> HIDE DEF call
<1>3. CallInv(call)
  BY <1>1, <1>2 DEF CallInv, IsForNewRequest, IsCreating, Remembers, SavesARow, HasAsked, MapsItsOwn,
                    IsCurrent
<1>4. (Continue(w, call) \/ Return(w)) /\ UNCHANGED tables
  BY DEF CheckOutletMapping, call
<1>5. QED
  BY <1>1, <1>2, <1>3, <1>4, AdvanceStep, EndStep

(* Once asked, no request remembered from the start uses the row.          *)
LEMMA InUseStep ==
  ASSUME IInv, NEW w \in Workers, InUse(w)
  PROVE  IInv'
<1> DEFINE call == [calls[w] EXCEPT !.at = "write"]
<1>1. calls[w] \in Call /\ CallInv(calls[w]) /\ calls[w].at = "inUse"
  BY DEF IInv, TypeOK, InUse, At
<1>2. /\ call \in Call /\ call.at = "write"
      /\ call.request = calls[w].request /\ call.before = calls[w].before
      /\ call.row = calls[w].row
  BY <1>1 DEF Call
<1>3. CASE \E r \in Unfinished : RefersTo(requests[r], calls[w].row)
  BY <1>3, EndStep DEF InUse
<1>4. CASE ~\E r \in Unfinished : RefersTo(requests[r], calls[w].row)
  <2>1. Continue(w, call) /\ UNCHANGED tables
    BY <1>4 DEF InUse
  <2> HIDE DEF call
  <2>2. CallInv(call)
    BY <1>1, <1>2, <1>4 DEF CallInv, IsForNewRequest, IsCreating, Remembers, SavesARow, HasAsked,
                            MapsItsOwn, IsCurrent
  <2>3. QED
    BY <1>1, <1>2, <2>1, <2>2, AdvanceStep
<1>5. QED
  BY <1>3, <1>4

(* The transaction has mapped nothing yet, and no other has its row.       *)
LEMMA WriteDistributorStep ==
  ASSUME IInv, NEW w \in Workers, WriteDistributor(w)
  PROVE  IInv'
<1> DEFINE call == [calls[w] EXCEPT !.at = "map", !.mapped = {}]
<1>1. calls[w] \in Call /\ CallInv(calls[w]) /\ calls[w].at = "write"
  BY DEF IInv, TypeOK, WriteDistributor, At
<1>2. /\ call \in Call /\ call.at = "map" /\ call.mapped = {}
      /\ call.request = calls[w].request /\ call.before = calls[w].before
      /\ call.row = calls[w].row /\ call.seen = calls[w].seen
      /\ call.is_active = calls[w].is_active
  BY <1>1 DEF Call
<1>3. /\ Continue(w, call) /\ UNCHANGED tables /\ calls[w].row \in Distributors
      /\ \A v \in Workers : At(v, "map") => calls[v].row # calls[w].row
  BY DEF WriteDistributor
<1> HIDE DEF call
<1>4. CallInv(call)
  BY <1>1, <1>2, <1>3 DEF CallInv, IsForNewRequest, IsCreating, Remembers, SavesARow, HasAsked,
                          MapsItsOwn, IsCurrent, Deactivates
<1>5. ASSUME NEW v \in Workers \ {w} PROVE Apart(call, calls[v]) /\ Apart(calls[v], call)
  BY <1>2, <1>3 DEF IInv, Apart, At
<1>6. QED
  BY <1>2, <1>3, <1>4, <1>5, ContinueStep

(* An outlet is mapped that nobody else serves or is mapping.              *)
LEMMA MapOutletStep ==
  ASSUME IInv, NEW w \in Workers, NEW o \in Outlets, MapOutlet(w, o)
  PROVE  IInv'
<1> DEFINE call == [calls[w] EXCEPT !.mapped = @ \cup {o}]
<1>1. calls[w] \in Call /\ CallInv(calls[w]) /\ calls[w].at = "map"
  BY DEF IInv, TypeOK, MapOutlet, At
<1>2. /\ call \in Call /\ call.at = "map" /\ call.mapped = calls[w].mapped \cup {o}
      /\ call.request = calls[w].request /\ call.before = calls[w].before
      /\ call.row = calls[w].row /\ call.seen = calls[w].seen
      /\ call.is_active = calls[w].is_active
  BY <1>1 DEF Call
<1>3. CASE RefusedByKey(calls[w].row, o)
  BY <1>3, EndStep DEF MapOutlet
<1>4. CASE ~RefusedByKey(calls[w].row, o)
  <2>1. /\ Continue(w, call) /\ UNCHANGED tables
        /\ \A v \in Workers \ {w} : At(v, "map") => o \notin calls[v].mapped
    BY <1>4 DEF MapOutlet, MappedBy
  <2> HIDE DEF call
  <2>2. CallInv(call)
    BY <1>1, <1>2, <1>4 DEF CallInv, IsForNewRequest, IsCreating, Remembers, SavesARow, HasAsked,
                            MapsItsOwn, IsCurrent, Deactivates, RefusedByKey
  <2>3. ASSUME NEW v \in Workers \ {w} PROVE Apart(call, calls[v]) /\ Apart(calls[v], call)
    BY <1>1, <1>2, <2>1 DEF IInv, Apart, At
  <2>4. QED
    BY <1>2, <2>1, <2>2, <2>3, ContinueStep
<1>5. QED
  BY <1>3, <1>4

(* The outlet is active when it is read.                                   *)
LEMMA ReadOutletsStep ==
  ASSUME IInv, NEW w \in Workers, ReadOutlets(w)
  PROVE  IInv'
<1> DEFINE call == [calls[w] EXCEPT !.at = "findType"]
<1>1. calls[w] \in Call /\ CallInv(calls[w]) /\ calls[w].at = "readOutlets"
  BY DEF IInv, TypeOK, ReadOutlets, At
<1>2. /\ call \in Call /\ call.at = "findType"
      /\ call.request = calls[w].request /\ call.before = calls[w].before
      /\ call.distributor = calls[w].distributor /\ call.outlets = calls[w].outlets
      /\ call.outlet = calls[w].outlet
      /\ call.overtaken = calls[w].overtaken
  BY <1>1 DEF Call
<1>3. CASE calls[w].outlet \notin Candidates(calls[w])
  BY <1>3, EndStep DEF ReadOutlets
<1>4. CASE calls[w].outlet \in Candidates(calls[w])
  <2>1. Continue(w, call) /\ UNCHANGED tables
    BY <1>4 DEF ReadOutlets
  <2>2. call.outlet \in call.outlets /\ active[call.outlet] = "active"
    BY <1>2, <1>4 DEF Candidates
  <2> HIDE DEF call
  <2>3. CallInv(call)
    BY <1>1, <1>2, <2>2 DEF CallInv, IsForNewRequest, IsCreating, Remembers, SavesARow, HasAsked,
                            MapsItsOwn, IsCurrent
  <2>4. QED
    BY <1>1, <1>2, <2>1, <2>3, AdvanceStep
<1>5. QED
  BY <1>3, <1>4

(* The type has the category when it is found.                             *)
LEMMA FindTypeStep ==
  ASSUME IInv, NEW w \in Workers, FindType(w)
  PROVE  IInv'
<1>1. calls[w] \in Call /\ CallInv(calls[w]) /\ calls[w].at = "findType"
  BY DEF IInv, TypeOK, FindType, At
<1>2. CASE Return(w)
  BY <1>2, EndStep DEF FindType
<1>3. ASSUME NEW t \in Types, Exists(t), code[t] = calls[w].code,
             Continue(w, [calls[w] EXCEPT !.at = "insert", !.type = t]), UNCHANGED tables
      PROVE  IInv'
  <2> DEFINE call == [calls[w] EXCEPT !.at = "insert", !.type = t]
  <2>1. /\ call \in Call /\ call.at = "insert"
        /\ call.request = calls[w].request /\ call.before = calls[w].before
        /\ call.distributor = calls[w].distributor /\ call.outlets = calls[w].outlets
        /\ call.outlet = calls[w].outlet /\ call.type = t /\ call.code = calls[w].code
        /\ call.overtaken = calls[w].overtaken
    BY <1>1 DEF Call
  <2>2. Continue(w, call) /\ UNCHANGED tables
    BY <1>3
  <2> HIDE DEF call
  <2>3. CallInv(call)
    BY <1>1, <1>3, <2>1 DEF CallInv, IsForNewRequest, IsCreating, Remembers, SavesARow, HasAsked,
                            MapsItsOwn, IsCurrent
  <2>4. QED
    BY <1>1, <2>1, <2>2, <2>3, AdvanceStep
<1>4. QED
  BY <1>2, <1>3 DEF FindType

---------------------------------------------------------------------------
(* The steps that write.                                                   *)

(* The flag a call writes is one.                                          *)
LEMMA FlagTyped ==
  ASSUME NEW call \in Call PROVE IsActiveToWrite(call) \in Flag
BY DEF IsActiveToWrite, Call, Flag

(* Saving an outlet or a type: only who has read that row is overtaken.    *)
LEMMA WriteStep ==
  ASSUME IInv, NEW w \in Workers, Write(w)
  PROVE  IInv'
<1> DEFINE row == calls[w].row
<1>1. calls[w] \in Call /\ TypeOK /\ row \in (Rows \cup {None}) \ Distributors
  BY DEF IInv, TypeOK, Write, Call
<1>2. CASE Return(w) /\ UNCHANGED <<active, code>>
  BY <1>2, EndStep DEF Write, tables
<1>3. CASE /\ active' = [active EXCEPT ![row] = IsActiveToWrite(calls[w])]
           /\ code' = IF row \in Types THEN [code EXCEPT ![row] = calls[w].code] ELSE code
           /\ ReturnSaved(w)
  <2>1. UNCHANGED <<servedBy, requests>>
    BY DEF Write
  <2>2. TablesTyped' /\ \A x \in Rows : x # row => active'[x] = active[x]
    BY <1>1, <1>3, <2>1, FlagTyped DEF TypeOK, TablesTyped, Call
  <2>3. \A t \in Types : t # row => code'[t] = code[t]
    BY <1>1, <1>3 DEF TypeOK
  <2>4. ASSUME NEW v \in Workers \ {w}, NEW call \in Call, call = calls[v]
        PROVE  IsLeft(call, row)
    <3> SUFFICES ASSUME CallInv(call)
                 PROVE  /\ IsForNewRequest(call)' /\ Remembers(call)' /\ HasAsked(call)'
                        /\ MapsItsOwn(call)'
                        /\ ~HasRead(call, row) => IsCurrent(call)'
      BY DEF IsLeft
    <3>1. /\ IsForNewRequest(call)' /\ Remembers(call)' /\ HasAsked(call)'
          /\ MapsItsOwn(call)'
      BY <2>1 DEF CallInv, IsForNewRequest, Remembers, SavesARow, HasAsked, MapsItsOwn, Unfinished
    <3>2. ASSUME ~HasRead(call, row) PROVE IsCurrent(call)'
      <4>1. /\ call.distributor \in Rows => active'[call.distributor] = active[call.distributor]
            /\ call.type \in Types => /\ active'[call.type] = active[call.type]
                                      /\ code'[call.type] = code[call.type]
            /\ call.at # "readOutlets" /\ call.outlet \in Rows
                 => active'[call.outlet] = active[call.outlet]
        BY <2>2, <2>3, <3>2 DEF HasRead, Rows
      <4>2. /\ call.distributor # None => call.distributor \in Rows
            /\ call.outlets \subseteq Rows
        BY DEF Call, Rows
      <4>3. QED
        BY <2>1, <4>1, <4>2 DEF CallInv, IsCurrent, Exists
    <3>3. QED
      BY <3>1, <3>2
  <2>5. QED
    <3>1. row \in Rows
      BY DEF Write, At, IInv, CallInv, SavesARow
    <3>2. QED
      BY <1>3, <2>2, <2>4, <3>1, SavedStep
<1>4. QED
  BY <1>2, <1>3 DEF Write

(* What a transaction commits takes no outlet from another distributor,    *)
(* and none another transaction has mapped.                                *)
LEMMA CommitMoves ==
  ASSUME IInv, NEW w \in Workers, Commit(w)
  PROVE  /\ calls[w] \in Call /\ calls[w].at = "map"
         /\ calls[w].row \in Distributors /\ calls[w].mapped = calls[w].outlets
         /\ UNCHANGED <<code, requests>>
         /\ active' = [active EXCEPT ![calls[w].row] = IsActiveToWrite(calls[w])]
         /\ servedBy' = Mapping(calls[w].row, calls[w].mapped)
         /\ \A o \in calls[w].mapped : servedBy[o] \in {None, calls[w].row}
         /\ ReturnSaved(w)
BY DEF IInv, TypeOK, CallInv, MapsItsOwn, Commit, At, IsMapped

(* A commit makes the flag and the mapping those of the call.              *)
LEMMA CommitStep ==
  ASSUME IInv, NEW w \in Workers, Commit(w)
  PROVE  IInv'
<1> DEFINE d == calls[w].row
           mapped == calls[w].mapped
<1>1. /\ calls[w] \in Call /\ calls[w].at = "map" /\ TypeOK
      /\ d \in Distributors /\ d \in Rows
      /\ UNCHANGED <<code, requests>>
      /\ active' = [active EXCEPT ![d] = IsActiveToWrite(calls[w])]
      /\ servedBy' = Mapping(d, mapped)
      /\ \A o \in mapped : servedBy[o] \in {None, d}
      /\ ReturnSaved(w)
  BY CommitMoves DEF IInv, Rows
<1> HIDE DEF d, mapped
<1>2. TablesTyped' /\ \A x \in Rows : x # d => active'[x] = active[x]
  <2>1. Mapping(d, mapped) \in [Outlets -> Distributors \cup {None}]
    BY <1>1 DEF TypeOK, Mapping
  <2>2. QED
    BY <1>1, <2>1, FlagTyped DEF TypeOK, TablesTyped
<1>3. ASSUME NEW o \in Outlets
      PROVE  servedBy'[o] = IF o \in mapped THEN d
                            ELSE IF servedBy[o] = d THEN None ELSE servedBy[o]
  BY <1>1 DEF Mapping
<1>4. ASSUME NEW v \in Workers \ {w}, NEW call \in Call, call = calls[v]
      PROVE  IsLeft(call, d)
  <2> SUFFICES ASSUME CallInv(call)
               PROVE  /\ IsForNewRequest(call)' /\ Remembers(call)' /\ HasAsked(call)'
                      /\ MapsItsOwn(call)'
                      /\ ~HasRead(call, d) => IsCurrent(call)'
    BY DEF IsLeft
  <2>1. IsForNewRequest(call)' /\ Remembers(call)' /\ HasAsked(call)'
    BY <1>1 DEF CallInv, IsForNewRequest, Remembers, SavesARow, HasAsked, Unfinished
  <2>2. MapsItsOwn(call)'
    <3>1. Apart(calls[w], calls[v])
      BY DEF IInv
    <3>2. call.at = "map" => mapped \cap call.mapped = {} /\ call.mapped \subseteq Outlets
      BY <1>1, <1>4, <3>1 DEF Apart, mapped, Call
    <3>3. QED
      BY <1>3, <3>2 DEF CallInv, MapsItsOwn
  <2>3. ASSUME ~HasRead(call, d) PROVE IsCurrent(call)'
    <3>1. call.distributor # d /\ call.type # d
      BY <2>3 DEF HasRead
    <3>2. /\ call.distributor # None => call.distributor \in Rows
          /\ call.outlets \subseteq Outlets /\ call.outlets \subseteq Rows
          /\ call.type \in Types => call.type \in Rows
          /\ \A o \in Outlets : o # d
      BY <1>1, NoneIsNoRow DEF Call, Rows
    <3>3. ASSUME call.distributor # None, NEW o \in call.outlets,
                 servedBy[o] = call.distributor
          PROVE  servedBy'[o] = call.distributor
      BY <1>1, <1>3, <3>1, <3>2, <3>3
    <3>4. QED
      BY <1>1, <1>2, <3>1, <3>2, <3>3 DEF CallInv, IsCurrent, Exists
  <2>4. QED
    BY <2>1, <2>2, <2>3
<1>5. QED
  BY <1>1, <1>2, <1>4, SavedStep DEF d

(* Registering a request: nobody else remembers it or registers it.        *)
LEMMA InsertStep ==
  ASSUME IInv, NEW w \in Workers, Insert(w)
  PROVE  IInv'
<1> DEFINE r == calls[w].request
           row == [status |-> "unfinished", outlet |-> calls[w].outlet,
                   distributor |-> calls[w].distributor, type |-> calls[w].type]
<1>1. calls[w] \in Call /\ calls[w].at = "insert" /\ TypeOK /\ CallInv(calls[w])
  BY DEF IInv, TypeOK, Insert, At
<1>2. /\ Return(w) /\ UNCHANGED <<active, code, servedBy>>
      /\ requests' = [requests EXCEPT ![r] = row]
  BY DEF Insert
<1>3. r \in Requests /\ requests[r].status = "" /\ r # None
  BY <1>1, NoneIsNoRow DEF CallInv, IsForNewRequest, IsCreating
<1>4. row \in Request /\ row.status = "unfinished"
  BY <1>1 DEF Call, Request
<1> HIDE DEF row
<1>5. TablesTyped'
  BY <1>1, <1>2, <1>4 DEF TypeOK, TablesTyped
<1>6. ASSUME NEW v \in Workers \ {w}, NEW call \in Call, call = calls[v]
      PROVE  IsKept(call)
  <2>1. Apart(calls[w], calls[v])
    BY DEF IInv
  <2>2. call.request # r
    BY <1>3, <1>6, <2>1 DEF Apart
  <2>3. /\ requests'[r].status = "unfinished"
        /\ \A q \in Requests : q # r => requests'[q] = requests[q]
    BY <1>1, <1>2, <1>3, <1>4 DEF TypeOK
  <2>4. call.before \subseteq Requests
    BY DEF Call
  <2> SUFFICES ASSUME CallInv(call) PROVE CallInv(call)'
    BY DEF IsKept
  <2>5. IsForNewRequest(call)' /\ MapsItsOwn(call)' /\ IsCurrent(call)'
    BY <1>2, <2>2, <2>3 DEF CallInv, IsForNewRequest, MapsItsOwn, IsCurrent, Exists
  <2>6. Remembers(call)' /\ r \notin call.before
    BY <1>3, <2>3, <2>4 DEF CallInv, Remembers
  <2>7. HasAsked(call)'
    BY <2>3, <2>4, <2>6 DEF CallInv, HasAsked, Unfinished
  <2>8. QED
    BY <2>5, <2>6, <2>7 DEF CallInv, SavesARow
<1>7. QED
  BY <1>2, <1>5, <1>6, ReturnStep

(* A request that is finished was registered before.                       *)
LEMMA FinishStep ==
  ASSUME IInv, NEW r \in Requests, Finish(r)
  PROVE  IInv'
<1>1. /\ TypeOK /\ UNCHANGED <<active, code, servedBy, calls>>
      /\ requests[r].status = "unfinished"
      /\ requests' = [requests EXCEPT ![r].status = "finished"]
  BY DEF IInv, Finish
<1>2. /\ requests'[r].status = "finished"
      /\ \A q \in Requests : q # r => requests'[q] = requests[q]
      /\ requests' \in [Requests -> Request]
  BY <1>1 DEF TypeOK, Request
<1>3. TablesTyped'
  BY <1>1, <1>2 DEF TypeOK, TablesTyped
<1>4. ASSUME NEW call \in Call PROVE IsKept(call)
  <2>1. call.before \subseteq Requests
    BY DEF Call
  <2> SUFFICES ASSUME CallInv(call) PROVE CallInv(call)'
    BY DEF IsKept
  <2>2. IsForNewRequest(call)' /\ MapsItsOwn(call)' /\ IsCurrent(call)'
    BY <1>1, <1>2 DEF CallInv, IsForNewRequest, MapsItsOwn, IsCurrent, Exists
  <2>3. Remembers(call)'
    BY <1>2, <2>1 DEF CallInv, Remembers
  <2>4. HasAsked(call)'
    BY <1>1, <1>2, <2>1 DEF CallInv, HasAsked, Unfinished
  <2>5. QED
    BY <2>2, <2>3, <2>4 DEF CallInv, SavesARow
<1>5. QED
  BY <1>1, <1>3, <1>4, LoneStep

(* A new row changes no other: the two statements that only insert.        *)
LEMMA NewRowStep ==
  ASSUME IInv, NEW row \in Rows, NEW flag \in Flag, active[row] = "",
         active' = [active EXCEPT ![row] = flag],
         code' \in [Types -> Categories \cup {None}],
         \A t \in Types : t # row => code'[t] = code[t],
         UNCHANGED <<servedBy, requests, calls>>
  PROVE  IInv'
<1>1. TablesTyped'
  BY DEF IInv, TypeOK, TablesTyped
<1>2. \A x \in Rows : active[x] # "" => x # row /\ active'[x] = active[x]
  BY DEF IInv, TypeOK
<1>3. ASSUME NEW call \in Call PROVE IsKept(call)
  <2>1. /\ call.distributor # None => call.distributor \in Rows
        /\ call.outlets \subseteq Rows
        /\ call.type \in Types => call.type \in Rows
    BY DEF Call, Rows
  <2> SUFFICES ASSUME CallInv(call) PROVE CallInv(call)'
    BY DEF IsKept
  <2>2. IsCurrent(call)'
    BY <1>2, <2>1 DEF CallInv, IsCurrent, Exists
  <2>3. QED
    BY <2>2 DEF CallInv, IsForNewRequest, Remembers, SavesARow, HasAsked, MapsItsOwn, Unfinished
<1>4. QED
  BY <1>1, <1>3, LoneStep
---------------------------------------------------------------------------
(* The invariant holds at first and is kept by every step.                 *)
LEMMA InitInv == Init => IInv
<1> SUFFICES ASSUME Init PROVE IInv
  OBVIOUS
<1>1. \A w \in Workers : calls[w] = Idle
  BY DEF Init
<1>2. TypeOK
  <2>1. NoRequest \in Request
    BY DEF NoRequest, Request
  <2>2. QED
    BY <2>1, IdleTyped DEF Init, TypeOK
<1>3. QED
  BY <1>1, <1>2, IdleTyped, IdleHolds, IdleApart DEF IInv

(* Every step keeps the invariant.                                         *)
LEMMA NextInv == IInv /\ [Next]_vars => IInv'
<1> SUFFICES ASSUME IInv, [Next]_vars PROVE IInv'
  OBVIOUS
<1>1. ASSUME NEW o \in Outlets, NEW flag \in Flag, CreateOutlet(o, flag)
      PROVE  IInv'
  <2>1. /\ o \in Rows /\ active[o] = "" /\ active' = [active EXCEPT ![o] = flag]
        /\ UNCHANGED <<code, servedBy, requests, calls>>
    BY <1>1 DEF CreateOutlet, Exists, Rows
  <2>2. code' \in [Types -> Categories \cup {None}]
    BY <2>1 DEF IInv, TypeOK
  <2>3. QED
    BY <2>1, <2>2, NewRowStep
<1>2. ASSUME NEW t \in Types, NEW c \in Categories, NEW flag \in Flag,
             CreateAssetType(t, c, flag)
      PROVE  IInv'
  <2>1. /\ t \in Rows /\ active[t] = "" /\ active' = [active EXCEPT ![t] = flag]
        /\ UNCHANGED <<servedBy, requests, calls>>
    BY <1>2 DEF CreateAssetType, Exists, Rows
  <2>2. /\ code' \in [Types -> Categories \cup {None}]
        /\ \A u \in Types : u # t => code'[u] = code[u]
    BY <1>2 DEF CreateAssetType, IInv, TypeOK
  <2>3. QED
    BY <2>1, <2>2, NewRowStep
<1>3. ASSUME NEW r \in Requests, Finish(r)
      PROVE  IInv'
  BY <1>3, FinishStep
<1>4. ASSUME NEW w \in Workers, Start(w) \/ Step(w) \/ Abandon(w)
      PROVE  IInv'
  BY <1>4, StartStep, CheckOutletMappingStep, InUseStep, WriteStep, WriteDistributorStep,
     MapOutletStep, CommitStep, ReadOutletsStep, FindTypeStep, InsertStep, EndStep
     DEF Step, Abandon
<1>5. CASE UNCHANGED vars
  <2>1. TablesTyped' /\ UNCHANGED <<tables, calls>>
    BY <1>5 DEF vars, tables, IInv, TypeOK, TablesTyped
  <2>2. ASSUME NEW call \in Call PROVE IsKept(call)
    BY <2>1 DEF tables, IsKept, CallInv, IsForNewRequest, Remembers, SavesARow, HasAsked, MapsItsOwn,
                IsCurrent, Exists, Unfinished
  <2>3. QED
    BY <2>1, <2>2, LoneStep
<1>6. QED
  BY <1>1, <1>2, <1>3, <1>4, <1>5 DEF Next

(* The inductive invariant holds in every reachable state, for any number  *)
(* of calls at a time.                                                     *)
THEOREM Invariance == Spec => []IInv
BY InitInv, NextInv, PTL DEF Spec

---------------------------------------------------------------------------
(* Nothing an unfinished request refers to is deactivated by a call that   *)
(* found it active and began after the request: the question whether it is *)
(* in use may be old when the row is written, but a request that was there *)
(* when the call began could only have been finished since.                *)
THEOREM InUseIsNotDeactivated == Spec => RefusedWhileInUse
<1>1. ASSUME IInv, NEW w \in Workers, Write(w) \/ Commit(w),
             active[calls[w].row] = "active", active'[calls[w].row] = "inactive",
             calls[w].seen = "active"
      PROVE  \A r \in calls[w].before \cap Unfinished : ~RefersTo(requests[r], calls[w].row)
  <2>1. /\ calls[w] \in Call /\ CallInv(calls[w])
        /\ calls[w].at \in {"write", "map"} /\ calls[w].row \in Rows
    BY <1>1 DEF IInv, TypeOK, CallInv, SavesARow, Write, Commit, At
  <2>2. active' = [active EXCEPT ![calls[w].row] = IsActiveToWrite(calls[w])]
    BY <1>1 DEF Write, Commit
  <2>3. IsActiveToWrite(calls[w]) = "inactive"
    BY <1>1, <2>1, <2>2 DEF IInv, TypeOK
  <2>4. Deactivates(calls[w])
    BY <1>1, <2>3 DEF IsActiveToWrite, Deactivates
  <2>5. QED
    BY <2>1, <2>4 DEF CallInv, HasAsked
<1>2. IInv /\ [Next]_vars
        => [\A w \in Workers :
              LET call == calls[w]
                  isDeactivated ==
                    /\ Write(w) \/ Commit(w)
                    /\ active[call.row] = "active" /\ active'[call.row] = "inactive"
                  isInUse ==
                    \E r \in call.before \cap Unfinished : RefersTo(requests[r], call.row)
              IN  isDeactivated /\ isInUse => call.seen # "active"]_vars
  BY <1>1
<1>3. QED
  BY <1>2, Invariance, PTL DEF Spec, RefusedWhileInUse

(* A distributor is changed by the commit of a call that saves it, and by  *)
(* nothing else.                                                           *)
LEMMA OnlyCommits ==
  ASSUME IInv, Next
  PROVE  \/ \E w \in Workers : Commit(w)
         \/ /\ UNCHANGED servedBy
            /\ \A d \in Distributors : active'[d] = active[d]
<1>1. ASSUME NEW o \in Outlets, NEW flag \in Flag, CreateOutlet(o, flag)
      PROVE  UNCHANGED servedBy /\ \A d \in Distributors : active'[d] = active[d]
  BY <1>1, NoneIsNoRow DEF CreateOutlet, IInv, TypeOK, Rows
<1>2. ASSUME NEW t \in Types, NEW c \in Categories, NEW flag \in Flag,
             CreateAssetType(t, c, flag)
      PROVE  UNCHANGED servedBy /\ \A d \in Distributors : active'[d] = active[d]
  BY <1>2, NoneIsNoRow DEF CreateAssetType, IInv, TypeOK, Rows
<1>3. ASSUME NEW w \in Workers, Write(w)
      PROVE  UNCHANGED servedBy /\ \A d \in Distributors : active'[d] = active[d]
  BY <1>3 DEF Write, IInv, TypeOK, Rows
<1>4. ASSUME NEW w \in Workers, Start(w) \/ Abandon(w)
      PROVE  UNCHANGED tables
  BY <1>4 DEF Start, Maintain, UpdateOutlet, UpdateDistributor, UpdateAssetType,
              CreateDistributor, Create, Abandon
<1>5. ASSUME NEW w \in Workers, Step(w), ~Write(w), ~Commit(w)
      PROVE  UNCHANGED <<active, servedBy>>
  BY <1>5 DEF Step, CheckOutletMapping, InUse, WriteDistributor, MapOutlet, ReadOutlets,
              FindType, Insert, tables
<1>6. ASSUME NEW r \in Requests, Finish(r)
      PROVE  UNCHANGED <<active, servedBy>>
  BY <1>6 DEF Finish
<1>7. QED
  BY <1>1, <1>2, <1>3, <1>4, <1>5, <1>6 DEF Next, tables

(* No outlet passes from one distributor to another, however many calls    *)
(* claim it: what a commit maps, nobody else served.                       *)
THEOREM NoOutletIsTaken == Spec => OutletsAreNotTaken
<1>1. IInv /\ [Next]_vars
        => [\A o \in Outlets :
              servedBy[o] # None /\ servedBy'[o] # servedBy[o] => servedBy'[o] = None]_vars
  <2> SUFFICES ASSUME IInv, Next, NEW o \in Outlets,
                      servedBy[o] # None, servedBy'[o] # servedBy[o]
               PROVE  servedBy'[o] = None
    OBVIOUS
  <2>1. PICK w \in Workers : Commit(w)
    BY OnlyCommits
  <2>2. /\ servedBy' = Mapping(calls[w].row, calls[w].mapped)
        /\ \A p \in calls[w].mapped : servedBy[p] \in {None, calls[w].row}
    BY <2>1, CommitMoves
  <2>3. QED
    BY <2>2 DEF Mapping
<1>2. QED
  BY <1>1, Invariance, PTL DEF Spec, OutletsAreNotTaken

(* Whenever a distributor changes, it is then as one call asked for, its   *)
(* flag and exactly its outlets, and that call has ended; the distributors *)
(* of other transactions, open or not, are as they were.                   *)
THEOREM DistributorsAreSavedWhole == Spec => SavedWhole
<1>1. ASSUME IInv, Next, NEW d \in Distributors,
             active'[d] # active[d] \/ Serves(d)' # Serves(d)
      PROVE  \E w \in Workers :
               /\ calls[w].row = d /\ calls'[w] = Idle
               /\ active'[d] = IsActiveToWrite(calls[w])
               /\ Serves(d)' = calls[w].outlets
  <2>1. PICK w \in Workers : Commit(w)
    <3>1. ASSUME UNCHANGED servedBy PROVE Serves(d)' = Serves(d)
      BY <3>1 DEF Serves
    <3>2. QED
      BY <1>1, <3>1, OnlyCommits
  <2> DEFINE row == calls[w].row
             mapped == calls[w].mapped
  <2>2. /\ calls[w] \in Call /\ row \in Distributors /\ mapped = calls[w].outlets
        /\ active' = [active EXCEPT ![row] = IsActiveToWrite(calls[w])]
        /\ servedBy' = Mapping(row, mapped)
        /\ \A o \in mapped : servedBy[o] \in {None, row}
        /\ calls'[w] = Idle
    <3>1. ReturnSaved(w)
      BY <1>1, <2>1, CommitMoves
    <3>2. calls'[w] = Idle
      BY <3>1 DEF ReturnSaved
    <3>3. QED
      BY <1>1, <2>1, <3>2, CommitMoves
  <2>3. mapped \subseteq Outlets /\ active \in [Rows -> Flag \cup {""}] /\ d \in Rows
    BY <1>1, <2>2 DEF Call, IInv, TypeOK, Rows
  <2> HIDE DEF row, mapped
  <2>4. \A o \in Outlets : servedBy'[o] = IF o \in mapped THEN row
                             ELSE IF servedBy[o] = row THEN None ELSE servedBy[o]
    BY <2>2 DEF Mapping
  <2>5. d = row
    <3>1. ASSUME d # row PROVE active'[d] = active[d] /\ Serves(d)' = Serves(d)
      <4>1. \A o \in Outlets : servedBy'[o] = d <=> servedBy[o] = d
        BY <2>2, <2>4, <3>1, NoneIsNoRow
      <4>2. QED
        BY <2>2, <2>3, <3>1, <4>1 DEF Serves
    <3>2. QED
      BY <1>1, <3>1
  <2>6. active'[d] = IsActiveToWrite(calls[w])
    BY <2>2, <2>3, <2>5
  <2>7. Serves(d)' = mapped
    BY <2>2, <2>3, <2>4, <2>5, NoneIsNoRow DEF Serves
  <2>8. QED
    BY <2>2, <2>5, <2>6, <2>7 DEF row
<1>2. IInv /\ [Next]_vars
        => [\A d \in Distributors :
              active'[d] # active[d] \/ Serves(d)' # Serves(d)
                => \E w \in Workers :
                     /\ calls[w].row = d /\ calls'[w] = Idle
                     /\ active'[d] = IsActiveToWrite(calls[w])
                     /\ Serves(d)' = calls[w].outlets]_vars
  BY <1>1
<1>3. QED
  BY <1>2, Invariance, PTL DEF Spec, SavedWhole

(* Whatever is saved while a request is being registered, the request is   *)
(* on an active outlet of an active distributor that serves it, and of its *)
(* category, unless one of these rows was itself saved after the call read *)
(* it.                                                                     *)
THEOREM RegisteredIsSound == Spec => RegistersSound
<1>1. IInv /\ [Next]_vars
        => [\A w \in Workers :
              LET call == calls[w] IN
              Insert(w) /\ ~call.overtaken
                => /\ active[call.outlet] = "active"
                   /\ code[call.type] = call.code
                   /\ call.distributor # None
                        => /\ active[call.distributor] = "active"
                           /\ servedBy[call.outlet] = call.distributor]_vars
  BY DEF IInv, CallInv, IsCurrent, IsCreating, Insert, At
<1>2. QED
  BY <1>1, Invariance, PTL DEF Spec, RegistersSound
=============================================================================
