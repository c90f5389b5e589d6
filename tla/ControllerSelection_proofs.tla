---------------------- MODULE ControllerSelection_proofs ----------------------
(***************************************************************************)
(* Proofs about ControllerSelection, for any controllers and claims, any   *)
(* period of validity and any number of disturbances.                      *)
(*                                                                         *)
(* Two caches lie above each other: the plugin trusts what it has read for *)
(* a period, and the manager trusts for a period what the plugin told it.  *)
(* So a state of age a may be a + ValidityAge - 1 ticks old.  The          *)
(* invariant says of each cache how old the last disturbance must be for   *)
(* it to be right: older than its stamp for the plugin, a period more than *)
(* its age for the manager.  A switch of the manager's own keeps it        *)
(* because the state of all it asks for is dropped, and what the plugin    *)
(* stops in addition is recorded in overruled.                             *)
(*                                                                         *)
(* That the search among combinations finds active ones (ActiveLemma)      *)
(* needs sets of controllers and joints that are finite.                   *)
(***************************************************************************)
EXTENDS ControllerSelection, FiniteSetTheorems, TLAPS

-----------------------------------------------------------------------------
(* The inductive invariant.                                                *)

\* The plugin's members i are what the node shows if it was asked less than a second
\* ago, but after the last disturbance, q ticks ago.  A controller that was loaded or
\* unloaded since does not run, as the plugin believes.
PluginOK(i, run, q) ==
  (i.controllers_stamp_ < ValidityAge /\ i.controllers_stamp_ < q) =>
    \A c \in Managed : isActive(i, c) <=> c \in run

\* A state that is younger than a second came from a plugin whose own reading was
\* then younger than a second; it holds unless the plugin has overruled the manager
\* since, o ticks ago.
KnownOK(known, run, q, o) ==
  \A c \in DOMAIN known :
    (known[c].age < ValidityAge /\ q >= known[c].age + ValidityAge /\ o > known[c].age)
      => (known[c].active_ <=> c \in run)

PluginType ==
  [managed_controllers_ : SUBSET Managed, active_controllers_ : SUBSET AllControllers,
   controllers_stamp_ : 0 .. ValidityAge]

ReadingType(r) ==
  /\ r = [known |-> r.known, plugin |-> r.plugin]
  /\ r.plugin \in PluginType
  /\ DOMAIN r.known \subseteq Managed
  /\ r.known \in [DOMAIN r.known -> [active_ : BOOLEAN, age : 0 .. ValidityAge]]

ReadingOK(r, run, q, o) ==
  /\ ReadingType(r)
  /\ PluginOK(r.plugin, run, q)
  /\ KnownOK(r.known, run, q, o)

Types ==
  /\ listed \subseteq Managed
  /\ running \subseteq listed \cup Unmanaged
  /\ disjoint = {set \in SUBSET AllControllers : \A c, d \in set : ~Overlap(c, d)}
  /\ context.controllers \in disjoint
  /\ quiet \in 0 .. Settled
  /\ disturbances \in 0 .. MaxDisturbances
  /\ overruled \in 0 .. Settled

IInv == Types /\ ReadingOK(Reading, running, quiet, overruled) /\ EnsuredIsActive

-----------------------------------------------------------------------------
(* Reading.                                                                *)

\* A response to list_controllers while the controllers in run run; one that fails
\* is a disturbance.
ResponseOK(response, run, q) ==
  /\ run \subseteq listed \cup Unmanaged
  /\ response.controllers \cap Managed \subseteq listed
  /\ response.running \subseteq AllControllers
  /\ q # 0 => /\ listed \subseteq response.controllers
              /\ response.running = run

\* The responses that the actions choose from are such.
LEMMA ResponseLemma ==
  ASSUME NEW run, run \subseteq listed \cup Unmanaged, listed \subseteq Managed,
         NEW response \in Responses(run), NEW q, Failed(response) => q = 0
  PROVE  ResponseOK(response, run, q)
<1>1. CASE response = [controllers |-> listed \cup Unmanaged, running |-> run]
  BY <1>1, RosControlAssumption DEF ResponseOK, AllControllers
<1>2. CASE response = [controllers |-> {}, running |-> {}]
  <2>1. q # 0 => listed \cup Unmanaged = {}
    BY <1>2 DEF Failed
  <2> QED
    BY <1>2, <2>1 DEF ResponseOK
<1> QED
  BY <1>1, <1>2 DEF Responses

\* What the plugin knows once discover() has returned.
Discovered(j, run, q) ==
  /\ j \in PluginType
  /\ j.controllers_stamp_ < ValidityAge
  /\ PluginOK(j, run, q)
  /\ q >= ValidityAge => \A c \in Managed : isActive(j, c) <=> c \in run

\* What it knows when it has asked.
LEMMA AskedLemma ==
  ASSUME listed \subseteq Managed, NEW response, NEW run, NEW q \in Nat,
         ResponseOK(response, run, q), NEW j,
         j = [managed_controllers_ |-> response.controllers \cap Managed,
              active_controllers_ |-> response.running, controllers_stamp_ |-> 0]
  PROVE  Discovered(j, run, q)
<1> ValidityAge \in Nat \ {0}
  BY RosControlAssumption
<1>1. j \in PluginType
  BY DEF PluginType, ResponseOK
<1>2. q # 0 => j.managed_controllers_ = listed /\ j.active_controllers_ = run
  BY DEF ResponseOK
<1>3. q # 0 => \A c \in Managed : isActive(j, c) <=> c \in run
  BY <1>2, RosControlAssumption DEF ResponseOK, isActive
<1> QED
  BY <1>1, <1>3 DEF Discovered, PluginOK

\* The call, throttled and forced.
LEMMA DiscoverLemma ==
  ASSUME listed \subseteq Managed, NEW i \in PluginType,
         NEW response, NEW run, NEW q \in Nat, ResponseOK(response, run, q),
         PluginOK(i, run, q)
  PROVE  /\ Discovered(discover(i, FALSE, response), run, q)
         /\ Discovered(discover(i, TRUE, response), run, q)
<1> DEFINE j == [managed_controllers_ |-> response.controllers \cap Managed,
                 active_controllers_ |-> response.running, controllers_stamp_ |-> 0]
<1> ValidityAge \in Nat \ {0}
  BY RosControlAssumption
<1>1. Discovered(j, run, q)
  BY AskedLemma
<1>2. discover(i, TRUE, response) = j
  BY DEF discover
<1>3. CASE i.controllers_stamp_ = ValidityAge
  BY <1>1, <1>2, <1>3 DEF discover
<1>4. CASE i.controllers_stamp_ # ValidityAge
  <2>1. discover(i, FALSE, response) = i
    BY <1>4 DEF discover
  <2>2. i.controllers_stamp_ < ValidityAge /\ i.controllers_stamp_ \in Nat
    BY <1>4 DEF PluginType
  <2>3. Discovered(i, run, q)
    BY <2>2 DEF Discovered, PluginOK
  <2> QED
    BY <1>1, <1>2, <2>1, <2>3
<1> QED
  BY <1>3, <1>4

\* A reading is as good as another in which less is believed.
LEMMA NoTimeLemma ==
  ASSUME NEW r, ReadingType(r), NEW run, NEW o
  PROVE  ReadingOK(r, run, 0, o)
BY RosControlAssumption DEF ReadingOK, ReadingType, PluginOK, KnownOK, PluginType

\* updateControllerState() leaves no state of the controllers in set stale, and what
\* it reads is right.
LEMMA UpdateLemma ==
  ASSUME listed \subseteq Managed, NEW r, NEW set, NEW response, NEW run, NEW q \in Nat,
         NEW o \in Nat, ResponseOK(response, run, q), ReadingOK(r, run, q, o)
  PROVE  LET u == updateControllerState(r, set, response)
         IN  /\ ReadingOK(u, run, q, o)
             /\ DOMAIN u.known = DOMAIN r.known
             /\ \A c \in DOMAIN r.known \cap set : u.known[c].age < ValidityAge
<1> DEFINE u == updateControllerState(r, set, response)
<1> ValidityAge \in Nat \ {0}
  BY RosControlAssumption
<1>1. CASE \E c \in set : Stale(r, c)
  <2> DEFINE i == discover(r.plugin, FALSE, response)
  <2>1. /\ r.plugin \in PluginType /\ DOMAIN r.known \subseteq Managed
        /\ PluginOK(r.plugin, run, q)
        /\ r.known \in [DOMAIN r.known -> [active_ : BOOLEAN, age : 0 .. ValidityAge]]
        /\ KnownOK(r.known, run, q, o)
    BY DEF ReadingOK, ReadingType
  <2>2. Discovered(i, run, q)
    BY <2>1, DiscoverLemma
  <2> DEFINE known == [c \in DOMAIN r.known |->
                         IF c \in set /\ Stale(r, c)
                         THEN [active_ |-> isActive(i, c), age |-> 0] ELSE r.known[c]]
  <2>3. u = [known |-> known, plugin |-> i]
    BY <1>1 DEF updateControllerState
  <2> HIDE DEF i
  <2>4. known \in [DOMAIN r.known -> [active_ : BOOLEAN, age : 0 .. ValidityAge]]
    BY <2>1 DEF isActive
  <2>5. \A c \in DOMAIN r.known : c \in set => known[c].age < ValidityAge
    BY <2>1 DEF Stale
  <2>6. ASSUME NEW c \in DOMAIN r.known, known[c].age < ValidityAge,
               q >= known[c].age + ValidityAge, o > known[c].age
        PROVE  known[c].active_ <=> c \in run
    <3>1. CASE c \in set /\ Stale(r, c)
      <4>1. known[c].active_ = isActive(i, c) /\ known[c].age = 0
        BY <3>1
      <4>2. isActive(i, c) <=> c \in run
        BY <2>1, <2>2, <2>6, <4>1 DEF Discovered
      <4> QED
        BY <4>1, <4>2 DEF isActive
    <3>2. CASE ~(c \in set /\ Stale(r, c))
      <4>1. known[c] = r.known[c]
        BY <3>2
      <4> QED
        BY <2>1, <2>6, <4>1 DEF KnownOK
    <3> QED
      BY <3>1, <3>2
  <2> HIDE DEF known
  <2>7. /\ u.known = known /\ u.plugin = i /\ DOMAIN known = DOMAIN r.known
    BY <2>3, <2>4
  <2>8. KnownOK(known, run, q, o)
    BY <2>6, <2>7 DEF KnownOK
  <2> QED
    BY <2>1, <2>2, <2>3, <2>4, <2>5, <2>7, <2>8 DEF ReadingOK, ReadingType, Discovered
<1>2. CASE \A c \in set : ~Stale(r, c)
  <2>1. u = r
    BY <1>2 DEF updateControllerState
  <2>2. \A c \in DOMAIN r.known : r.known[c].age \in 0 .. ValidityAge
    BY DEF ReadingOK, ReadingType
  <2> QED
    BY <1>2, <2>1, <2>2 DEF Stale
<1> QED
  BY <1>1, <1>2

\* reloadControllerInformation() forgets every state.
LEMMA ReloadLemma ==
  ASSUME listed \subseteq Managed, NEW r, NEW response, NEW run, NEW q \in Nat,
         NEW o \in Nat, ResponseOK(response, run, q), ReadingOK(r, run, q, o)
  PROVE  ReadingOK(reload(r, response), run, q, o)
<1> DEFINE i == discover(r.plugin, FALSE, response)
           known == [c \in i.managed_controllers_ |-> [active_ |-> FALSE, age |-> ValidityAge]]
<1> ValidityAge \in Nat \ {0}
  BY RosControlAssumption
<1>1. reload(r, response) = [known |-> known, plugin |-> i]
  BY DEF reload
<1>2. i \in PluginType /\ PluginOK(i, run, q)
  <2>1. /\ r.plugin \in PluginType /\ DOMAIN r.known \subseteq Managed
        /\ PluginOK(r.plugin, run, q)
    BY DEF ReadingOK, ReadingType
  <2>2. Discovered(i, run, q)
    BY <2>1, DiscoverLemma
  <2> QED
    BY <2>2 DEF Discovered
<1> HIDE DEF i
<1>3. DOMAIN known = i.managed_controllers_ /\ i.managed_controllers_ \subseteq Managed
  BY <1>2 DEF PluginType
<1>4. \A c \in DOMAIN known : known[c] = [active_ |-> FALSE, age |-> ValidityAge]
  OBVIOUS
<1>5. known \in [DOMAIN known -> [active_ : BOOLEAN, age : 0 .. ValidityAge]]
  BY <1>3
<1> HIDE DEF known
<1>6. KnownOK(known, run, q, o)
  BY <1>4 DEF KnownOK
<1> QED
  BY <1>1, <1>2, <1>3, <1>5, <1>6 DEF ReadingOK, ReadingType

\* The states of a reading that are up to date are those of the controllers when
\* nothing has been disturbed or overruled for long enough.
LEMMA FreshLemma ==
  ASSUME NEW r, NEW run, ReadingOK(r, run, Settled, Settled), NEW c \in DOMAIN r.known,
         r.known[c].age < ValidityAge
  PROVE  c \in Active(r) <=> c \in run
<1> ValidityAge \in Nat \ {0}
  BY RosControlAssumption
<1>1. r.known[c].age \in Nat
  BY DEF ReadingOK, ReadingType
<1> QED
  BY <1>1 DEF Settled, ReadingOK, KnownOK, Active

-----------------------------------------------------------------------------
(* Selecting.                                                              *)

\* What is selected are available controllers that claim no joint twice and cover
\* the joints.
LEMMA SelectLemma ==
  ASSUME NEW joints, NEW available, NEW order, NEW active,
         NEW res \in selectControllers(joints, available, order, active)
  PROVE  res.selected \in Combinations(joints, available)
<1> DEFINE combinations == Combinations(joints, available)
           Options(m) == {s \in combinations : Cardinality(s) = m}
           Found(m) == findControllers(Options(m), active)
           sizes == {Cardinality(s) : s \in combinations}
           n == Min(sizes)
           Checked(m, s) == Compared(Options(m)) \cup ReadInTurn(s, order, active)
           larger == {m \in sizes : m > n /\ \E s \in Found(m) : s \subseteq active}
           tried == {m \in sizes : m > n /\ \A h \in larger : m <= h}
           better == {s \in UNION {Found(m) : m \in tried} : s \subseteq active}
           Examined(s) == Checked(n, s) \cup
             UNION {Checked(Cardinality(t), t) : t \in UNION {Found(m) : m \in tried}}
<1>1. \A m : Found(m) \subseteq combinations
  BY DEF findControllers, Best
<1>2. CASE sizes = {}
  BY <1>2 DEF selectControllers
<1>3. CASE sizes # {} /\ manage_controllers_
  <2>1. \E s \in Found(n) : res.selected = s
    BY <1>3 DEF selectControllers
  <2> QED
    BY <1>1, <2>1
<1>4. CASE sizes # {} /\ ~manage_controllers_
  <2>1. res \in UNION {
          IF s \subseteq active THEN {[selected |-> s, read |-> Checked(n, s)]}
          ELSE {[selected |-> t, read |-> Examined(s)] :
                  t \in IF better = {} THEN {s} ELSE better} : s \in Found(n)}
    BY <1>4 DEF selectControllers
  <2> HIDE DEF Found, Checked, Examined, combinations, tried
  <2>2. better \subseteq combinations
    <3>1. \A m : \A s \in Found(m) : s \in combinations
      BY <1>1
    <3>2. \A s \in better : \E m \in tried : s \in Found(m)
      OBVIOUS
    <3> QED
      BY <3>1, <3>2
  <2> HIDE DEF better
  <2>3. PICK s \in Found(n) :
          res \in IF s \subseteq active THEN {[selected |-> s, read |-> Checked(n, s)]}
                  ELSE {[selected |-> t, read |-> Examined(s)] :
                          t \in IF better = {} THEN {s} ELSE better}
    BY <2>1
  <2>4. res.selected = s \/ res.selected \in better
    BY <2>3
  <2> QED
    BY <1>1, <2>2, <2>4 DEF combinations
<1> QED
  BY <1>2, <1>3, <1>4

\* Selections() returns such controllers and reads what is right.
LEMMA SelectionsLemma ==
  ASSUME listed \subseteq Managed, NEW joints, NEW available, NEW order, NEW r,
         NEW response, NEW run, NEW q \in Nat, NEW o \in Nat,
         ResponseOK(response, run, q), ReadingOK(r, run, q, o),
         NEW res \in Selections(joints, available, order, r, response)
  PROVE  /\ res.controllers \in disjoint
         /\ res.controllers \subseteq available
         /\ joints \subseteq JointsOf(res.controllers)
         /\ ReadingOK(res.reading, run, q, o)
         /\ DOMAIN res.reading.known = DOMAIN r.known
<1> DEFINE active == Active(updateControllerState(r, DOMAIN r.known, response))
<1>1. PICK sel \in selectControllers(joints, available, order, active) :
        res = [controllers |-> sel.selected,
               reading |-> updateControllerState(r, sel.read, response)]
  BY DEF Selections
<1>2. sel.selected \in Combinations(joints, available)
  BY SelectLemma
<1> QED
  BY <1>1, <1>2, UpdateLemma DEF Combinations

-----------------------------------------------------------------------------
(* Selecting active controllers.                                           *)

\* A set of natural numbers has a least element.
LEMMA LeastLemma ==
  ASSUME NEW S \in SUBSET Nat, S # {}
  PROVE  \E m \in S : \A n \in S : m <= n
<1>1. PICK m \in S : \A n \in S : <<n, m>> \notin OpToRel(<, Nat)
  BY NatLessThanWellFounded, WFMin
<1>2. \A n \in S : ~(n < m)
  BY <1>1 DEF OpToRel
<1> QED
  BY <1>2

\* One of several options is the first when they are sorted.
LEMMA BestLemma ==
  ASSUME NEW options, options # {}, NEW active,
         \A s \in options : JointCount(s) \in Nat /\ Cardinality(s \cap active) \in Nat
  PROVE  Best(options, active) # {}
<1> DEFINE counts == {JointCount(s) : s \in options}
<1>1. PICK m \in counts : \A k \in counts : m <= k
  <2>1. counts \in SUBSET Nat /\ counts # {}
    OBVIOUS
  <2> HIDE DEF counts
  <2> QED
    BY <2>1, LeastLemma
<1> DEFINE few == {s \in options : JointCount(s) = m}
           actives == {Cardinality(s \cap active) : s \in few}
<1>2. PICK k \in actives : \A l \in actives : k <= l
  <2>1. few # {}
    BY <1>1
  <2>2. actives \in SUBSET Nat /\ actives # {}
    BY <2>1
  <2> HIDE DEF actives
  <2> QED
    BY <2>2, LeastLemma
<1>3. PICK s \in few : Cardinality(s \cap active) = k
  BY <1>2
<1>4. ASSUME NEW t \in options
      PROVE  ~Before(t, s, active)
  <2>1. JointCount(s) = m /\ m <= JointCount(t) /\ JointCount(t) \in Nat /\ m \in Nat
    BY <1>1, <1>3
  <2>2. JointCount(t) = m => k <= Cardinality(t \cap active)
    BY <1>2
  <2>3. Cardinality(t \cap active) \in Nat /\ k \in Nat
    BY <1>3
  <2> QED
    BY <1>3, <2>1, <2>2, <2>3 DEF Before
<1> QED
  BY <1>3, <1>4 DEF Best

\* Combinations can be counted and compared.
LEMMA CountLemma ==
  ASSUME NEW joints, NEW available, available \subseteq Managed, claimed_resources \in Claims,
         NEW active, NEW s \in Combinations(joints, available)
  PROVE  /\ Cardinality(s) \in Nat /\ JointCount(s) \in Nat
         /\ Cardinality(s \cap active) \in Nat
<1>1. s \subseteq Managed /\ IsFiniteSet(Managed)
  BY ControllerSelectionAssumption DEF Combinations
<1>2. IsFiniteSet(s) /\ IsFiniteSet(s \cap active)
  BY <1>1, FS_Subset
<1>3. JointsOf(s) \subseteq UNION {claimed_resources[c] : c \in Managed}
  BY <1>1 DEF JointsOf, Joints
<1>4. IsFiniteSet(JointsOf(s))
  BY <1>3, FS_Subset, ControllerSelectionAssumption
<1> QED
  BY <1>2, <1>4, FS_CardinalityType DEF JointCount

\* If available controllers that are active can move the joints, a manager that may
\* not switch selects active ones.
LEMMA ActiveLemma ==
  ASSUME ~manage_controllers_, claimed_resources \in Claims,
         NEW joints, NEW available, available \subseteq Managed, NEW order, NEW active,
         NEW res \in selectControllers(joints, available, order, active),
         NEW w \in Combinations(joints, available), w \subseteq active
  PROVE  res.selected \subseteq active
<1> DEFINE combinations == Combinations(joints, available)
           Options(m) == {s \in combinations : Cardinality(s) = m}
           Found(m) == findControllers(Options(m), active)
           sizes == {Cardinality(s) : s \in combinations}
           n == Min(sizes)
           Checked(m, s) == Compared(Options(m)) \cup ReadInTurn(s, order, active)
           larger == {m \in sizes : m > n /\ \E s \in Found(m) : s \subseteq active}
           tried == {m \in sizes : m > n /\ \A h \in larger : m <= h}
           better == {s \in UNION {Found(m) : m \in tried} : s \subseteq active}
           Examined(s) == Checked(n, s) \cup
             UNION {Checked(Cardinality(t), t) : t \in UNION {Found(m) : m \in tried}}
<1>1. sizes \in SUBSET Nat /\ Cardinality(w) \in sizes
  BY CountLemma
<1>2. n \in sizes /\ \A m \in sizes : n <= m
  <2> HIDE DEF sizes
  <2>1. \E m \in sizes : \A k \in sizes : m <= k
    BY <1>1, LeastLemma
  <2> QED
    BY <2>1 DEF Min
<1>3. ASSUME NEW m, \E s \in Options(m) : s \subseteq active
      PROVE  /\ \A s \in Found(m) : s \subseteq active
             /\ Found(m) # {}
  <2> DEFINE loaded == {s \in Options(m) : s \subseteq active}
  <2>1. Found(m) = Best(loaded, active) /\ loaded # {}
    BY <1>3 DEF findControllers
  <2>2. \A s \in loaded : JointCount(s) \in Nat /\ Cardinality(s \cap active) \in Nat
    BY CountLemma
  <2>3. Best(loaded, active) # {}
    <3> HIDE DEF loaded
    <3> QED
      BY <2>1, <2>2, BestLemma
  <2>4. \A s \in Best(loaded, active) : s \subseteq active
    BY DEF Best
  <2> QED
    BY <2>1, <2>3, <2>4
<1>4. w \in Options(Cardinality(w))
  OBVIOUS
<1>5. res \in UNION {
        IF s \subseteq active THEN {[selected |-> s, read |-> Checked(n, s)]}
        ELSE {[selected |-> t, read |-> Examined(s)] :
                t \in IF better = {} THEN {s} ELSE better} : s \in Found(n)}
  BY <1>1 DEF selectControllers
<1> HIDE DEF Checked, Examined
<1>6. better # {} \/ \A s \in Found(n) : s \subseteq active
  <2>1. CASE Cardinality(w) = n
    BY <1>3, <1>4, <2>1
  <2>2. CASE Cardinality(w) # n
    <3>1. Cardinality(w) > n
      BY <1>1, <1>2, <2>2
    <3>2. Cardinality(w) \in larger
      <4>1. PICK s \in Found(Cardinality(w)) : s \subseteq active
        BY <1>3, <1>4
      <4> QED
        BY <1>1, <3>1, <4>1
    <3>3. PICK m \in larger : \A h \in larger : m <= h
      <4>1. larger \in SUBSET Nat /\ larger # {}
        BY <1>1, <3>2
      <4> HIDE DEF larger
      <4> QED
        BY <4>1, LeastLemma
    <3>4. m \in tried
      BY <3>3
    <3>5. PICK s \in Found(m) : s \subseteq active
      BY <3>3
    <3> HIDE DEF tried, Found
    <3>6. s \in better
      BY <3>4, <3>5
    <3> QED
      BY <3>6
  <2> QED
    BY <2>1, <2>2
<1>7. \A s \in better : s \subseteq active
  OBVIOUS
<1> HIDE DEF better, Found
<1>8. PICK s \in Found(n) :
        res \in IF s \subseteq active THEN {[selected |-> s, read |-> Checked(n, s)]}
                ELSE {[selected |-> t, read |-> Examined(s)] :
                        t \in IF better = {} THEN {s} ELSE better}
  BY <1>5
<1> QED
  BY <1>6, <1>7, <1>8

-----------------------------------------------------------------------------
(* Switching.                                                              *)

\* The readings are as good as can be, and a controller is active for the manager
\* just when it runs.
Knows(r) == Active(r) = DOMAIN r.known \cap running

\* What a call leaves behind.
Left ==
  /\ ReadingOK(Reading, running, quiet, overruled)'
  /\ quiet' \in {0, quiet} /\ overruled' \in {0, overruled}
  /\ disturbances' \in 0 .. MaxDisturbances
  /\ running' \subseteq listed \cup Unmanaged
  /\ EnsuredIsActive'

\* The joints of known controllers that run are those of controllers that run then, or
\* of known ones that are no longer loaded.
JointsKept ==
  (quiet = Settled /\ overruled = Settled /\ quiet' # 0 /\ overruled' # 0) =>
    JointsOf(running \cap DOMAIN known_controllers_)
      \subseteq JointsOf(running' \cup Unloaded)

\* Settled is a number of ticks.
LEMMA SettledLemma == Settled \in Nat \ {0} /\ 0 # Settled
  BY RosControlAssumption DEF Settled

\* What a response does to the count of ticks since a disturbance.
LEMMA HeardLemma ==
  ASSUME Types, NEW response, Heard(response)
  PROVE  /\ quiet' \in {0, quiet} /\ quiet' \in Nat
         /\ disturbances' \in 0 .. MaxDisturbances
         /\ Failed(response) => quiet' = 0
  BY ControllerSelectionAssumption, SettledLemma DEF Heard, Disturb, disturbanceVars, Types

\* A call that leaves the node alone.
LEMMA AnswerLemma ==
  ASSUME Types, NEW controllers, NEW ok, NEW r, NEW response,
         Answer(controllers, ok, r, response),
         ReadingOK(r, running, quiet', overruled),
         DOMAIN r.known = DOMAIN known_controllers_,
         (quiet' = Settled /\ overruled = Settled /\ ok)
           => controllers \subseteq running \cup Unloaded
  PROVE  Left /\ JointsKept
<1>1. /\ known_controllers_' = r.known /\ interface' = r.plugin
      /\ Heard(response) /\ ensured' = IF ok THEN controllers ELSE {}
      /\ listed' = listed /\ running' = running /\ overruled' = overruled
  BY DEF Answer, Read, nodeVars
<1>2. Reading' = r
  BY <1>1 DEF Reading, ReadingOK, ReadingType
<1>3. ReadingOK(Reading, running, quiet, overruled)'
  BY <1>1, <1>2 DEF ReadingOK, ReadingType, PluginType, PluginOK, isActive, KnownOK
<1>4. EnsuredIsActive'
  BY <1>1 DEF EnsuredIsActive, Settled, Unloaded
<1>5. JointsKept
  BY <1>1 DEF JointsKept, JointsOf, Answer, nodeVars
<1> QED
  BY <1>1, <1>3, <1>4, <1>5, HeardLemma DEF Left, Types

\* A switch is well prepared: nothing that is switched is held up to date, the
\* controllers asked for are to be started or active, none is to be stopped, and the
\* joints of what is to be stopped are taken over.
Prepared(controllers, start, deactivate, r, q) ==
  /\ ReadingOK(r, running, q, overruled)
  /\ DOMAIN r.known = DOMAIN known_controllers_
  /\ start \subseteq DOMAIN r.known
  /\ \A c \in DOMAIN r.known : c \in start \cup deactivate => r.known[c].age = ValidityAge
  /\ controllers \subseteq start \cup Active(r)
  /\ controllers \cap deactivate = {}
  /\ JointsOf(deactivate) \subseteq JointsOf(start)
  /\ (q = Settled /\ overruled = Settled) => Knows(r)

\* A switch.
LEMMA SwitchLemma ==
  ASSUME Types, NEW controllers, NEW start, NEW deactivate, NEW r,
         NEW response \in Responses(running), NEW q \in Nat,
         q = (IF Failed(response) THEN 0 ELSE quiet),
         Prepared(controllers, start, deactivate, r, q),
         switchControllers(controllers, start, deactivate, r, response)
  PROVE  Left /\ JointsKept
<1> DEFINE i == discover(r.plugin, TRUE, response)
           starts == StartList(i, start)
           stops == StopList(i, start, deactivate)
           res == SwitchResult(starts, stops)
           unasked == (stops \ (start \cup deactivate)) \cap Active(r)
<1> ValidityAge \in Nat \ {0}
  BY RosControlAssumption
<1>u. Unloaded = DOMAIN r.known \ listed
  BY DEF Prepared, Unloaded
<1>h. /\ DOMAIN r.known = DOMAIN known_controllers_
      /\ start \subseteq DOMAIN r.known
      /\ \A c \in DOMAIN r.known :
           c \in start \cup deactivate => r.known[c].age = ValidityAge
      /\ controllers \subseteq start \cup Active(r)
      /\ controllers \cap deactivate = {}
      /\ JointsOf(deactivate) \subseteq JointsOf(start)
      /\ (q = Settled /\ overruled = Settled) => Knows(r)
  BY DEF Prepared
<1>r. /\ r = [known |-> r.known, plugin |-> r.plugin] /\ r.plugin \in PluginType
      /\ DOMAIN r.known \subseteq Managed
      /\ r.known \in [DOMAIN r.known -> [active_ : BOOLEAN, age : 0 .. ValidityAge]]
      /\ PluginOK(r.plugin, running, q)
      /\ KnownOK(r.known, running, q, overruled)
  BY DEF Prepared, ReadingOK, ReadingType
<1>p. ResponseOK(response, running, q)
  BY ResponseLemma DEF Types
<1>i. /\ Discovered(i, running, q)
      /\ q # 0 => i.managed_controllers_ = listed /\ i.active_controllers_ = running
  <2>1. /\ listed \subseteq Managed
        /\ r.plugin \in PluginType /\ PluginOK(r.plugin, running, q)
    BY <1>r DEF Types
  <2> HIDE DEF i
  <2>2. Discovered(i, running, q)
    BY <1>p, <2>1, DiscoverLemma DEF i
  <2>3. q # 0 => i.managed_controllers_ = listed /\ i.active_controllers_ = running
    <3>1. i = [managed_controllers_ |-> response.controllers \cap Managed,
               active_controllers_ |-> response.running, controllers_stamp_ |-> 0]
      BY DEF discover, i
    <3> QED
      BY <1>p, <2>1, <3>1 DEF ResponseOK
  <2> QED
    BY <2>2, <2>3
<1>s. q # 0 => starts = start \cap listed
  BY <1>h, <1>i, <1>r DEF StartList
<1>t. /\ starts \cup stops = {} => Answer(controllers, TRUE, [r EXCEPT !.plugin = i], response)
      /\ starts \cup stops # {} => \E last \in Responses(res.running) :
           /\ Read([r EXCEPT !.plugin = discover(i, TRUE, last)])
           /\ Heard(last)
           /\ running' = res.running
           /\ ensured' = IF res.ok THEN controllers ELSE {}
           /\ overruled' = IF res.ok /\ unasked # {} THEN 0 ELSE overruled
           /\ UNCHANGED <<claimed_resources, disjoint, listed>>
  <2> HIDE DEF i
  <2> QED
    BY DEF switchControllers, i
<1> HIDE DEF i
<1>1. CASE Answer(controllers, TRUE, [r EXCEPT !.plugin = i], response)
             /\ starts \cup stops = {}
  <2>1. [r EXCEPT !.plugin = i] = [known |-> r.known, plugin |-> i]
    BY <1>r
  <2>2. quiet' \in {0, q}
    BY <1>1, HeardLemma DEF Answer
  <2>3. ReadingOK([known |-> r.known, plugin |-> i], running, q, overruled)
    BY <1>r, <1>i DEF ReadingOK, ReadingType, Discovered
  <2>4. ReadingOK([known |-> r.known, plugin |-> i], running, quiet', overruled)
    BY <2>2, <2>3, NoTimeLemma DEF ReadingOK
  <2>5. (quiet' = Settled /\ overruled = Settled)
          => controllers \subseteq running \cup Unloaded
    BY <1>1, <1>h, <1>s, <1>u, <2>2, SettledLemma DEF Knows
  <2> QED
    BY <1>1, <1>h, <2>1, <2>4, <2>5, AnswerLemma
<1>2. ASSUME NEW last \in Responses(res.running),
             starts \cup stops # {},
             Read([r EXCEPT !.plugin = discover(i, TRUE, last)]),
             Heard(last), running' = res.running,
             ensured' = (IF res.ok THEN controllers ELSE {}),
             overruled' = (IF res.ok /\ unasked # {} THEN 0 ELSE overruled),
             UNCHANGED <<claimed_resources, disjoint, listed>>
      PROVE  Left /\ JointsKept
  <2> DEFINE j == discover(i, TRUE, last)
  <2>1. ~Failed(response) /\ q = quiet
    <3>1. CASE response = [controllers |-> {}, running |-> {}]
      <4>1. i = [managed_controllers_ |-> {}, active_controllers_ |-> {},
                 controllers_stamp_ |-> 0]
        BY <3>1 DEF i, discover
      <4>2. starts = {} /\ stops = {}
        BY <4>1 DEF StartList, StopList
      <4> QED
        BY <1>2, <4>2
    <3>2. CASE response = [controllers |-> listed \cup Unmanaged, running |-> running]
      BY <3>2 DEF Failed
    <3> QED
      BY <3>1, <3>2 DEF Responses
  <2>2. running' \subseteq listed \cup Unmanaged
    <3>1. starts \subseteq listed
      <4>1. response.controllers \cap Managed \subseteq listed
        BY <1>p DEF ResponseOK
      <4> QED
        BY <4>1 DEF StartList, i, discover
    <3> QED
      BY <1>2, <3>1 DEF SwitchResult, Switched, Types
  <2>3. Reading' = [known |-> r.known, plugin |-> j]
    BY <1>2, <1>r DEF Read, Reading
  <2>r. /\ res.ok => /\ stops \subseteq running
                     /\ running' = (running \ stops) \cup starts
        /\ ~res.ok => running' = running
    BY <1>2 DEF SwitchResult, Accepts, Switched
  <2>4. quiet' \in {0, quiet} /\ disturbances' \in 0 .. MaxDisturbances
    BY <1>2, HeardLemma
  <2>5. ReadingOK(Reading, running, quiet, overruled)'
    <3>1. ResponseOK(last, running', quiet')
      BY <1>2, <2>2, HeardLemma, ResponseLemma DEF Types, Failed
    <3>2. PluginOK(i, running', 0) /\ i \in PluginType
      BY <1>i DEF Discovered, PluginOK, PluginType
    <3>3. /\ j \in PluginType
          /\ PluginOK(j, running', quiet')
      <4>1. listed \subseteq Managed /\ quiet' \in Nat
        BY <1>2, HeardLemma DEF Types
      <4>2. j = [managed_controllers_ |-> last.controllers \cap Managed,
                 active_controllers_ |-> last.running, controllers_stamp_ |-> 0]
        BY DEF discover
      <4>3. Discovered(j, running', quiet')
        BY <1>r, <3>1, <4>1, <4>2, AskedLemma
      <4> QED
        BY <4>3 DEF Discovered
    <3>4. ASSUME NEW c \in DOMAIN r.known, r.known[c].age < ValidityAge,
                 quiet' >= r.known[c].age + ValidityAge, overruled' > r.known[c].age
          PROVE  r.known[c].active_ <=> c \in running'
      <4>1. r.known[c].age \in Nat /\ overruled \in Nat /\ quiet' \in Nat
        BY <1>r, <1>2, HeardLemma, SettledLemma DEF Types
      <4>2. quiet' = q /\ q # 0 /\ c \notin start \cup deactivate
        BY <1>h, <2>1, <2>4, <3>4, <4>1
      <4>3. overruled' = overruled /\ (res.ok => unasked = {})
        BY <1>2, <3>4, <4>1
      <4>4. r.known[c].active_ <=> c \in running
        BY <1>r, <3>4, <4>2, <4>3 DEF KnownOK
      <4>5. ASSUME res.ok, c \in stops
            PROVE  FALSE
        <5>1. c \in Active(r)
          BY <2>r, <4>4, <4>5 DEF Active
        <5> QED
          BY <4>2, <4>3, <4>5, <5>1
      <4> QED
        BY <1>s, <2>r, <4>2, <4>4, <4>5
    <3>5. PluginType' = PluginType /\ listed' = listed
      BY <1>2 DEF PluginType
    <3> QED
      BY <1>r, <2>3, <3>3, <3>4, <3>5 DEF ReadingOK, ReadingType, PluginOK, KnownOK
  <2>6. EnsuredIsActive'
    <3> SUFFICES ASSUME quiet' = Settled, overruled' = Settled, NEW c \in controllers, res.ok
                 PROVE  c \in running' \cup Unloaded
      <4>1. Unloaded' = Unloaded
        BY <1>2, <1>u, <2>3 DEF Unloaded, Reading
      <4> QED
        BY <1>2, <4>1 DEF EnsuredIsActive, Settled
    <3>1. q = Settled /\ q # 0 /\ overruled = Settled /\ unasked = {}
      BY <1>2, <2>1, <2>4, SettledLemma
    <3>2. CASE c \in start
      BY <1>h, <1>s, <1>u, <2>r, <3>1, <3>2
    <3>3. CASE c \in Active(r) /\ c \notin start
      BY <1>h, <2>r, <3>1, <3>3 DEF Knows
    <3> QED
      BY <1>h, <3>2, <3>3
  <2>7. JointsKept
    <3> SUFFICES ASSUME quiet = Settled, overruled = Settled, quiet' # 0, overruled' # 0,
                        res.ok, NEW c \in running \cap DOMAIN r.known, NEW k \in Joints(c)
                 PROVE  k \in JointsOf(running' \cup Unloaded)
      <4>1. ~res.ok => JointsKept
        BY <2>r DEF JointsKept, JointsOf
      <4> QED
        BY <1>h, <4>1 DEF JointsKept, JointsOf
    <3>1. q # 0 /\ unasked = {} /\ starts = start \cap listed /\ c \in Active(r)
      BY <1>2, <1>h, <1>s, <2>1, <2>4, SettledLemma DEF Knows
    <3>2. CASE c \notin stops \/ c \in start
      <4>1. c \in running' \cup Unloaded
        BY <1>h, <1>u, <2>r, <3>1, <3>2
      <4> QED
        BY <4>1 DEF JointsOf
    <3>3. CASE c \in deactivate
      <4>1. PICK b \in start : k \in Joints(b)
        BY <1>h, <3>3 DEF JointsOf
      <4>2. b \in running' \cup Unloaded
        BY <1>h, <1>u, <2>r, <3>1, <4>1
      <4> QED
        BY <4>1, <4>2 DEF JointsOf
    <3> QED
      BY <3>1, <3>2, <3>3
  <2> QED
    BY <1>2, <2>2, <2>4, <2>5, <2>6, <2>7 DEF Left
<1> QED
  BY <1>t, <1>1, <1>2

-----------------------------------------------------------------------------
(* ensureActiveControllers().                                              *)

\* The readings after the reset are as good as before, and show the same.
LEMMA ResetLemma ==
  ASSUME NEW r, NEW start, NEW deactivate, NEW run, NEW q \in Nat, NEW o \in Nat,
         ReadingOK(r, run, q, o), NEW s, s = Reset(r, start, deactivate)
  PROVE  /\ ReadingOK(s, run, q, o)
         /\ DOMAIN s.known = DOMAIN r.known
         /\ Active(s) = Active(r)
         /\ \A c \in DOMAIN s.known :
              c \in start \cup deactivate => s.known[c].age = ValidityAge
<1> ValidityAge \in Nat \ {0}
  BY RosControlAssumption
<1> DEFINE known == [c \in DOMAIN r.known |->
              IF c \in start \cup deactivate
              THEN [r.known[c] EXCEPT !.age = ValidityAge] ELSE r.known[c]]
<1>r. /\ r = [known |-> r.known, plugin |-> r.plugin]
      /\ r.known \in [DOMAIN r.known -> [active_ : BOOLEAN, age : 0 .. ValidityAge]]
  BY DEF ReadingOK, ReadingType
<1>1. s = [known |-> known, plugin |-> r.plugin]
  BY <1>r DEF Reset
<1>2. \A c \in DOMAIN r.known :
        /\ known[c] \in [active_ : BOOLEAN, age : 0 .. ValidityAge]
        /\ known[c].active_ = r.known[c].active_
        /\ c \in start \cup deactivate => known[c].age = ValidityAge
        /\ c \notin start \cup deactivate => known[c] = r.known[c]
  BY <1>r
<1>3. DOMAIN known = DOMAIN r.known
      /\ known \in [DOMAIN known -> [active_ : BOOLEAN, age : 0 .. ValidityAge]]
  BY <1>2
<1> HIDE DEF known
<1>4. KnownOK(known, run, q, o)
  BY <1>2, <1>3 DEF KnownOK, ReadingOK
<1>5. s.known = known /\ s.plugin = r.plugin
  BY <1>1
<1>6. ReadingOK(s, run, q, o)
  BY <1>1, <1>3, <1>4, <1>5 DEF ReadingOK, ReadingType
<1>7. Active(s) = Active(r)
  BY <1>2, <1>3, <1>5 DEF Active
<1> QED
  BY <1>2, <1>3, <1>5, <1>6, <1>7

\* Readings that are all up to date show which controllers run.
LEMMA KnowsLemma ==
  ASSUME Types, NEW r, NEW q \in Nat, ReadingOK(r, running, q, overruled),
         \A c \in DOMAIN r.known : r.known[c].age < ValidityAge
  PROVE  (q = Settled /\ overruled = Settled) => Knows(r)
<1> SUFFICES ASSUME q = Settled, overruled = Settled
             PROVE  Active(r) = DOMAIN r.known \cap running
  BY DEF Knows
<1>1. \A c \in DOMAIN r.known : c \in Active(r) <=> c \in running
  BY FreshLemma
<1> QED
  BY <1>1 DEF Active

\* Whatever it does, the readings stay right, what it promises is active, and the
\* joints keep their controllers.
LEMMA EnsureLemma ==
  ASSUME Types, NEW controllers \in disjoint, NEW order, NEW r0, NEW response \in Answers,
         NEW q \in Nat, q = (IF Failed(response) THEN 0 ELSE quiet),
         ReadingOK(r0, running, q, overruled),
         DOMAIN r0.known = DOMAIN known_controllers_,
         ensureActiveControllers(controllers, order, r0, response)
  PROVE  Left /\ JointsKept
<1> DEFINE r == updateControllerState(r0, DOMAIN r0.known, response)
           activate == controllers \ Active(r)
           deactivate == {d \in Active(r) : \E c \in activate : Overlap(c, d)}
           uncovered == Uncovered(activate, deactivate)
           possible == {c \in DOMAIN r.known : \A a \in activate : ~Overlap(c, a)}
           additional == IF uncovered = {} THEN {{}}
                         ELSE {res.controllers :
                                 res \in Selections(uncovered, possible, ByName, r, response)}
<1>t. /\ listed \subseteq Managed /\ overruled \in Nat /\ response \in Responses(running)
      /\ running \subseteq listed \cup Unmanaged
  BY SettledLemma DEF Types, Answers
<1>p. ResponseOK(response, running, q)
  BY <1>t, ResponseLemma
<1>r. /\ ReadingOK(r, running, q, overruled)
      /\ DOMAIN r.known = DOMAIN known_controllers_
      /\ \A c \in DOMAIN r.known : r.known[c].age < ValidityAge
  BY <1>t, <1>p, UpdateLemma
<1>k. (q = Settled /\ overruled = Settled) => Knows(r)
  BY <1>r, KnowsLemma
<1>e. \/ Answer(controllers, Includes(Active(r), controllers, order), r, response)
      \/ Answer(controllers, FALSE, r, response)
      \/ /\ controllers \subseteq DOMAIN r.known
         /\ \E more \in additional :
              \/ /\ activate = {}
                 /\ Answer(controllers, TRUE, r, response)
              \/ switchControllers(controllers, activate \cup more, deactivate,
                   Reset(r, activate \cup more, deactivate), response)
  BY DEF ensureActiveControllers
<1> HIDE DEF r
<1>a. ASSUME NEW ok, Answer(controllers, ok, r, response),
             ok => controllers \subseteq Active(r)
      PROVE  Left /\ JointsKept
  <2>1. quiet' \in {0, q}
    BY <1>a, HeardLemma DEF Answer
  <2>2. ReadingOK(r, running, quiet', overruled)
    BY <1>r, <2>1, NoTimeLemma DEF ReadingOK
  <2>3. (quiet' = Settled /\ overruled = Settled /\ ok) => controllers \subseteq running
    BY <1>a, <1>k, <2>1, SettledLemma DEF Knows
  <2> QED
    BY <1>a, <1>r, <2>2, <2>3, AnswerLemma
<1>1. CASE Answer(controllers, Includes(Active(r), controllers, order), r, response)
  BY <1>1, <1>a DEF Includes
<1>2. CASE Answer(controllers, FALSE, r, response)
  BY <1>2, <1>a
<1>3. CASE activate = {} /\ Answer(controllers, TRUE, r, response)
  BY <1>3, <1>a
<1>4. ASSUME NEW more \in additional, controllers \subseteq DOMAIN r.known,
             NEW start, start = activate \cup more,
             switchControllers(controllers, start, deactivate,
               Reset(r, start, deactivate), response)
      PROVE  Left /\ JointsKept
  <2>1. more \subseteq DOMAIN r.known /\ uncovered \subseteq JointsOf(more)
    <3>1. CASE uncovered = {}
      BY <1>4, <3>1
    <3>2. CASE uncovered # {}
      <4>1. PICK res \in Selections(uncovered, possible, ByName, r, response) :
              more = res.controllers
        BY <1>4, <3>2
      <4> HIDE DEF uncovered, possible
      <4>2. res.controllers \subseteq possible /\ uncovered \subseteq JointsOf(res.controllers)
        BY <1>p, <1>r, <1>t, SelectionsLemma
      <4> QED
        BY <4>1, <4>2 DEF possible
    <3> QED
      BY <3>1, <3>2
  <2>2. JointsOf(deactivate) \subseteq JointsOf(start)
    BY <1>4, <2>1 DEF Uncovered, JointsOf
  <2>3. controllers \cap deactivate = {}
    <3>1. \A c, d \in controllers : ~Overlap(c, d)
      BY DEF Types
    <3> QED
      BY <3>1
  <2>4. PICK s : s = Reset(r, start, deactivate)
    OBVIOUS
  <2> HIDE DEF deactivate
  <2>5. /\ ReadingOK(s, running, q, overruled)
        /\ DOMAIN s.known = DOMAIN r.known
        /\ Active(s) = Active(r)
        /\ \A c \in DOMAIN s.known :
             c \in start \cup deactivate => s.known[c].age = ValidityAge
    <3>1. ReadingOK(r, running, q, overruled) /\ overruled \in Nat
      BY <1>r, <1>t
    <3> QED
      BY <2>4, <3>1, ResetLemma
  <2>6. (q = Settled /\ overruled = Settled) => Knows(s)
    BY <1>k, <2>5 DEF Knows
  <2>7. start \subseteq DOMAIN s.known /\ controllers \subseteq start \cup Active(s)
    BY <1>4, <2>1, <2>5
  <2>8. switchControllers(controllers, start, deactivate, s, response)
    BY <1>4, <2>4
  <2>9. Prepared(controllers, start, deactivate, s, q)
    BY <1>r, <2>2, <2>3, <2>5, <2>6, <2>7 DEF Prepared
  <2> QED
    BY <1>t, <2>8, <2>9, SwitchLemma
<1> QED
  BY <1>e, <1>1, <1>2, <1>3, <1>4

-----------------------------------------------------------------------------
(* The invariant holds at first and is kept by every step.                 *)

LEMMA InitLemma == Init => IInv
<1> SUFFICES ASSUME Init PROVE IInv
  OBVIOUS
<1> ValidityAge \in Nat \ {0} /\ Loaded \subseteq Managed
  BY RosControlAssumption
<1> DEFINE i == [managed_controllers_ |-> listed \cap Managed,
                 active_controllers_ |-> running, controllers_stamp_ |-> 0]
           known == [c \in listed \cap Managed |-> [active_ |-> FALSE, age |-> ValidityAge]]
<1>1. /\ listed \subseteq Managed /\ running \subseteq listed \cup Unmanaged
      /\ disjoint = {set \in SUBSET AllControllers : \A c, d \in set : ~Overlap(c, d)}
  BY DEF Init, NodeInit
<1>2. known_controllers_ = known /\ interface = i
  <2> DEFINE r == reload([known |-> <<>>, plugin |-> Unread],
                         [controllers |-> listed, running |-> running])
  <2>1. r.plugin = i
    BY DEF reload, discover, Unread
  <2>2. r.known = [c \in i.managed_controllers_ |->
                     [active_ |-> FALSE, age |-> ValidityAge]]
    BY DEF reload, discover, Unread
  <2> QED
    BY <2>1, <2>2 DEF Init
<1>3. i \in PluginType
  BY <1>1 DEF PluginType, AllControllers
<1>4. known \in [DOMAIN known -> [active_ : BOOLEAN, age : 0 .. ValidityAge]]
      /\ DOMAIN known \subseteq Managed
  OBVIOUS
<1>5. KnownOK(known, running, quiet, overruled)
  BY DEF KnownOK
<1>6. PluginOK(i, running, quiet)
  <2>1. \A c \in Managed : isActive(i, c) <=> c \in running
    BY <1>1, RosControlAssumption DEF isActive
  <2> QED
    BY <2>1 DEF PluginOK
<1> HIDE DEF i, known
<1>7. ReadingOK(Reading, running, quiet, overruled)
  BY <1>2, <1>3, <1>4, <1>5, <1>6 DEF Reading, ReadingOK, ReadingType
<1>8. EnsuredIsActive
  BY DEF Init, EnsuredIsActive
<1>9. context.controllers \in disjoint
  BY <1>1 DEF Init, NoContext
<1>10. MaxDisturbances \in Nat
  BY ControllerSelectionAssumption
<1> QED
  BY <1>1, <1>7, <1>8, <1>9, <1>10, SettledLemma DEF Init, IInv, Types

\* The readings of a call whose response is heard are right for the new count.
LEMMA CallLemma ==
  ASSUME IInv, NEW response \in Answers,
         NEW q, q = (IF Failed(response) THEN 0 ELSE quiet)
  PROVE  /\ q \in Nat /\ ResponseOK(response, running, q)
         /\ ReadingOK(Reading, running, q, overruled)
         /\ listed \subseteq Managed /\ overruled \in Nat
<1>1. /\ q \in Nat /\ listed \subseteq Managed /\ running \subseteq listed \cup Unmanaged
      /\ response \in Responses(running) /\ overruled \in Nat
  BY SettledLemma DEF IInv, Types, Answers
<1>2. ResponseOK(response, running, q)
  BY <1>1, ResponseLemma
<1>3. ReadingOK(Reading, running, q, overruled)
  BY NoTimeLemma DEF IInv, ReadingOK
<1> QED
  BY <1>1, <1>2, <1>3

\* What is left of a call keeps the invariant.
LEMMA LeftLemma ==
  ASSUME IInv, Left, listed' = listed, disjoint' = disjoint,
         claimed_resources' = claimed_resources, context'.controllers \in disjoint
  PROVE  IInv'
<1>1. (\A c, d : Overlap(c, d) <=> Overlap(c, d)')
  BY DEF Overlap, Joints
<1>2. Types'
  BY <1>1, SettledLemma DEF IInv, Types, Left
<1> QED
  BY <1>2 DEF IInv, Left

\* push() configures a trajectory.
LEMMA ConfigureLemma ==
  ASSUME IInv, Configure
  PROVE  IInv' /\ JointsKept
<1>1. PICK joints \in Goals, request \in Requests, response \in Answers :
        configure(joints, request, response)
  BY DEF Configure
<1> DEFINE q == IF Failed(response) THEN 0 ELSE quiet
           Available(r) == IF request = <<>> THEN DOMAIN r.known ELSE Names(request)
           Found(r) == IF Names(request) \subseteq DOMAIN r.known
                       THEN Selections(joints, Available(r), Order(request), r, response)
                       ELSE {}
<1>2. /\ q \in Nat /\ ResponseOK(response, running, q)
      /\ ReadingOK(Reading, running, q, overruled)
      /\ listed \subseteq Managed /\ overruled \in Nat
  BY CallLemma
<1>3. PICK r \in {Reading, reload(Reading, response)} :
        \/ Read(r) /\ UNCHANGED context
        \/ \E res \in Found(r) : Read(res.reading) /\ context'.controllers = res.controllers
  BY <1>1 DEF configure
<1>4. ReadingOK(r, running, q, overruled)
  BY <1>2, ReloadLemma
<1>5. /\ Heard(response) /\ ensured' = {} /\ overruled' = overruled
      /\ UNCHANGED <<claimed_resources, disjoint, listed, running>>
  BY <1>1 DEF configure, Forget, nodeVars
<1>6. quiet' \in {0, quiet} /\ quiet' \in {0, q} /\ disturbances' \in 0 .. MaxDisturbances
  BY <1>5, HeardLemma DEF IInv
<1> HIDE DEF q
<1>7. PICK u : /\ ReadingOK(u, running, q, overruled) /\ Read(u)
               /\ context'.controllers \in disjoint
  <2>1. CASE Read(r) /\ UNCHANGED context
    BY <1>4, <2>1 DEF IInv, Types
  <2>2. ASSUME NEW res \in Selections(joints, Available(r), Order(request), r, response),
               Read(res.reading), context'.controllers = res.controllers
        PROVE  \E u : /\ ReadingOK(u, running, q, overruled) /\ Read(u)
                      /\ context'.controllers \in disjoint
    <3> HIDE DEF Available
    <3>1. /\ ReadingOK(res.reading, running, q, overruled)
          /\ res.controllers \in disjoint
      BY <1>2, <1>4, SelectionsLemma
    <3> QED
      BY <2>2, <3>1
  <2> QED
    BY <1>3, <2>1, <2>2
<1>8. ReadingOK(u, running, quiet', overruled)
  BY <1>6, <1>7, NoTimeLemma DEF ReadingOK
<1>9. Reading' = u
  BY <1>7 DEF Read, Reading, ReadingOK, ReadingType
<1>10. ReadingOK(Reading, running, quiet, overruled)'
  BY <1>5, <1>8, <1>9 DEF ReadingOK, ReadingType, PluginType, PluginOK, isActive, KnownOK
<1>11. Left
  BY <1>5, <1>6, <1>10 DEF Left, IInv, Types, EnsuredIsActive
<1>12. JointsKept
  BY <1>5 DEF JointsKept, JointsOf
<1> QED
  BY <1>5, <1>7, <1>11, <1>12, LeftLemma

\* A step in which the manager ensures controllers.
LEMMA EnsuringLemma ==
  ASSUME IInv, EnsureContext \/ EnsureForJoints
  PROVE  IInv' /\ JointsKept
<1>1. ASSUME NEW controllers \in disjoint, NEW order, NEW r0, NEW response \in Answers,
             ReadingOK(r0, running, IF Failed(response) THEN 0 ELSE quiet, overruled),
             DOMAIN r0.known = DOMAIN known_controllers_,
             ensureActiveControllers(controllers, order, r0, response)
      PROVE  IInv' /\ JointsKept
  <2>1. Left /\ JointsKept
    BY <1>1, CallLemma, EnsureLemma DEF IInv
  <2>2. UNCHANGED <<listed, disjoint, claimed_resources, context>>
    BY <1>1 DEF ensureActiveControllers, Answer, switchControllers, nodeVars
  <2> QED
    BY <2>1, <2>2, LeftLemma DEF IInv, Types
<1>2. DOMAIN Reading.known = DOMAIN known_controllers_
  BY DEF Reading
<1>3. CASE EnsureContext
  <2>1. PICK response \in Answers :
          ensureActiveControllers(context.controllers, Order(context.request), Reading,
                                  response)
    BY <1>3 DEF EnsureContext
  <2> QED
    BY <1>1, <1>2, <2>1, CallLemma DEF IInv, Types
<1>4. CASE EnsureForJoints
  <2>1. PICK joints \in Goals, response \in Answers :
          LET found == Selections(joints, DOMAIN known_controllers_, ByName, Reading, response)
          IN  \/ /\ Answer({}, FALSE, Reading, response)
                 /\ UNCHANGED context
              \/ \E res \in found :
                   ensureActiveControllers(res.controllers, ByName, res.reading, response)
    BY <1>4 DEF EnsureForJoints
  <2> DEFINE q == IF Failed(response) THEN 0 ELSE quiet
  <2>2. /\ q \in Nat /\ ResponseOK(response, running, q)
        /\ ReadingOK(Reading, running, q, overruled)
        /\ listed \subseteq Managed /\ overruled \in Nat
    BY CallLemma
  <2>3. CASE Answer({}, FALSE, Reading, response) /\ UNCHANGED context
    <3>1. quiet' \in {0, q} /\ Heard(response)
      BY <2>3, HeardLemma DEF IInv, Answer
    <3>2. ReadingOK(Reading, running, quiet', overruled)
      BY <2>2, <3>1, NoTimeLemma DEF ReadingOK
    <3>3. Left /\ JointsKept
      BY <1>2, <2>3, <3>2, AnswerLemma DEF IInv
    <3> QED
      BY <2>3, <3>3, LeftLemma DEF IInv, Types, Answer, nodeVars
  <2>4. ASSUME NEW res \in Selections(joints, DOMAIN known_controllers_, ByName, Reading,
                                      response),
               ensureActiveControllers(res.controllers, ByName, res.reading, response)
        PROVE  IInv' /\ JointsKept
    <3> HIDE DEF q
    <3>1. /\ ReadingOK(res.reading, running, q, overruled)
          /\ DOMAIN res.reading.known = DOMAIN known_controllers_
          /\ res.controllers \in disjoint
      BY <1>2, <2>2, SelectionsLemma
    <3> QED
      BY <1>1, <2>4, <3>1 DEF q
  <2> QED
    BY <2>1, <2>3, <2>4
<1> QED
  BY <1>3, <1>4

\* The clock.
LEMMA TickLemma ==
  ASSUME IInv, Tick
  PROVE  IInv' /\ JointsKept
<1> ValidityAge \in Nat \ {0}
  BY RosControlAssumption
<1> DEFINE known == [c \in DOMAIN known_controllers_ |->
                       [known_controllers_[c] EXCEPT !.age = Later(@, ValidityAge)]]
           i == [interface EXCEPT !.controllers_stamp_ = Later(@, ValidityAge)]
<1>r. /\ interface \in PluginType /\ DOMAIN known_controllers_ \subseteq Managed
      /\ known_controllers_ \in
           [DOMAIN known_controllers_ -> [active_ : BOOLEAN, age : 0 .. ValidityAge]]
      /\ PluginOK(interface, running, quiet)
      /\ KnownOK(known_controllers_, running, quiet, overruled)
  BY DEF IInv, Reading, ReadingOK, ReadingType
<1>1. /\ known_controllers_' = known /\ interface' = i
      /\ quiet' = Later(quiet, Settled) /\ overruled' = Later(overruled, Settled)
      /\ ensured' = {}
      /\ UNCHANGED <<claimed_resources, disjoint, listed, running, context, disturbances>>
  BY DEF Tick, Forget, nodeVars
<1>2. /\ quiet \in 0 .. Settled /\ overruled \in 0 .. Settled
      /\ Settled = 2 * ValidityAge - 1
  BY DEF IInv, Types, Settled
<1>3. \A c \in DOMAIN known_controllers_ :
        /\ known[c] \in [active_ : BOOLEAN, age : 0 .. ValidityAge]
        /\ known[c].active_ = known_controllers_[c].active_
        /\ known[c].age < ValidityAge => known[c].age = known_controllers_[c].age + 1
  BY <1>r DEF Later
<1>4. DOMAIN known = DOMAIN known_controllers_
      /\ known \in [DOMAIN known -> [active_ : BOOLEAN, age : 0 .. ValidityAge]]
  BY <1>3
<1>5. /\ i \in PluginType
      /\ i.managed_controllers_ = interface.managed_controllers_
      /\ i.active_controllers_ = interface.active_controllers_
      /\ i.controllers_stamp_ < ValidityAge =>
           i.controllers_stamp_ = interface.controllers_stamp_ + 1
  BY <1>r DEF PluginType, Later
<1> HIDE DEF known, i
<1>6. PluginOK(i, running, quiet')
  <2> SUFFICES ASSUME i.controllers_stamp_ < ValidityAge, i.controllers_stamp_ < quiet'
               PROVE  \A c \in Managed : isActive(i, c) <=> c \in running
    BY DEF PluginOK
  <2>1. interface.controllers_stamp_ < ValidityAge /\ interface.controllers_stamp_ < quiet
    BY <1>r, <1>1, <1>2, <1>5 DEF PluginType, Later
  <2> QED
    BY <1>r, <1>5, <2>1 DEF PluginOK, isActive
<1>7. ASSUME NEW c \in DOMAIN known, known[c].age < ValidityAge,
             quiet' >= known[c].age + ValidityAge, overruled' > known[c].age
      PROVE  known[c].active_ <=> c \in running
  <2>1. known_controllers_[c].age \in Nat /\ known[c].age = known_controllers_[c].age + 1
    BY <1>r, <1>3, <1>4, <1>7
  <2>2. quiet >= known_controllers_[c].age + ValidityAge
    BY <1>1, <1>2, <1>7, <2>1 DEF Later
  <2>3. overruled > known_controllers_[c].age
    BY <1>1, <1>2, <1>7, <2>1 DEF Later
  <2> QED
    BY <1>r, <1>3, <1>4, <1>7, <2>1, <2>2, <2>3 DEF KnownOK
<1>8. ReadingOK(Reading, running, quiet, overruled)'
  BY <1>r, <1>1, <1>4, <1>5, <1>6, <1>7
     DEF Reading, ReadingOK, ReadingType, PluginType, PluginOK, isActive, KnownOK
<1>9. Types'
  BY <1>1, <1>2 DEF IInv, Types, Overlap, Joints, Later, Settled
<1>10. EnsuredIsActive' /\ JointsKept
  BY <1>1 DEF EnsuredIsActive, JointsKept, JointsOf
<1> QED
  BY <1>8, <1>9, <1>10 DEF IInv

\* The node changes by itself.
LEMMA NodeLemma ==
  ASSUME IInv, NodeSwitches \/ NodeLoads \/ NodeUnloads
  PROVE  IInv' /\ JointsKept
<1>1. CASE NodeSwitches
  <2>1. /\ quiet' = 0 /\ ensured' = {} /\ disturbances > 0
        /\ disturbances' = disturbances - 1 /\ running' \subseteq listed \cup Unmanaged
        /\ UNCHANGED <<claimed_resources, disjoint, listed, interface, known_controllers_,
                       context, overruled>>
    BY <1>1 DEF NodeSwitches, SomebodySwitches, Forget, Disturb, IInv, Types
  <2>2. ReadingOK(Reading, running', 0, overruled)
    BY NoTimeLemma DEF IInv, ReadingOK
  <2>3. ReadingOK(Reading, running, quiet, overruled)'
    BY <2>1, <2>2 DEF Reading, ReadingOK, ReadingType, PluginType, PluginOK, isActive, KnownOK
  <2>4. Types'
    BY <2>1, SettledLemma, ControllerSelectionAssumption
       DEF IInv, Types, Overlap, Joints, Settled
  <2> QED
    BY <2>1, <2>3, <2>4 DEF IInv, EnsuredIsActive, JointsKept
<1>2. CASE NodeLoads
  <2>1. /\ ensured' = {} /\ listed \subseteq listed' /\ listed' \subseteq Managed
        /\ UNCHANGED <<claimed_resources, disjoint, running, interface, known_controllers_,
                       context, quiet, disturbances, overruled>>
    BY <1>2 DEF NodeLoads, SomebodyLoads, Forget, disturbanceVars, IInv, Types
  <2>2. ReadingOK(Reading, running, quiet, overruled)'
    BY <2>1 DEF IInv, Reading, ReadingOK, ReadingType, PluginType, PluginOK, isActive, KnownOK
  <2>3. Types'
    BY <2>1 DEF IInv, Types, Overlap, Joints, Settled
  <2> QED
    BY <2>1, <2>2, <2>3 DEF IInv, EnsuredIsActive, JointsKept, JointsOf
<1>3. CASE NodeUnloads
  <2>1. /\ ensured' = {} /\ disturbances > 0 /\ disturbances' = disturbances - 1
        /\ listed' \subseteq listed /\ running \subseteq listed' \cup Unmanaged
        /\ UNCHANGED <<claimed_resources, disjoint, running, interface, known_controllers_,
                       context, quiet, overruled>>
    BY <1>3 DEF NodeUnloads, SomebodyUnloads, Forget, IInv, Types
  <2>2. ReadingOK(Reading, running, quiet, overruled)'
    BY <2>1 DEF IInv, Reading, ReadingOK, ReadingType, PluginType, PluginOK, isActive, KnownOK
  <2>3. Types'
    BY <2>1, ControllerSelectionAssumption
       DEF IInv, Types, Overlap, Joints, Settled
  <2> QED
    BY <2>1, <2>2, <2>3 DEF IInv, EnsuredIsActive, JointsKept, JointsOf
<1> QED
  BY <1>1, <1>2, <1>3

\* Every step keeps the invariant and the joints.
LEMMA StepLemma ==
  ASSUME IInv, [Next]_vars
  PROVE  IInv' /\ JointsKept
<1>1. CASE UNCHANGED vars
  <2>1. IInv'
    BY <1>1 DEF vars, nodeVars, historyVars, disturbanceVars, IInv, Types, Overlap, Joints,
                Settled, Reading, ReadingOK, ReadingType, PluginType, PluginOK, isActive,
                KnownOK, EnsuredIsActive, Unloaded
  <2>2. JointsKept
    BY <1>1 DEF vars, nodeVars, JointsKept, JointsOf
  <2> QED
    BY <2>1, <2>2
<1> QED
  BY <1>1, ConfigureLemma, EnsuringLemma, TickLemma, NodeLemma DEF Next

\* The invariant holds in every reachable state.
LEMMA InvariantLemma == Spec => []IInv
<1>1. IInv /\ [Next]_vars => IInv'
  BY StepLemma
<1> QED
  BY InitLemma, <1>1, PTL DEF Spec

-----------------------------------------------------------------------------
(* What push() selects.                                                    *)

\* The node runs no two controllers that claim the same joint, and a manager that may
\* not switch is never overruled by a switch of its own.
NodeInv ==
  /\ claimed_resources \in Claims
  /\ running \in disjoint
  /\ manage_controllers_ \/ overruled = Settled

\* Nothing that happens violates that.
LEMMA NodeInvLemma ==
  /\ Init => NodeInv
  /\ NodeInv /\ [Next]_vars => NodeInv'
<1>1. Init => NodeInv
  BY DEF Init, NodeInit, NodeInv, Disjoint
<1> SUFFICES ASSUME NodeInv, [Next]_vars PROVE NodeInv'
  BY <1>1
<1>2. ASSUME NEW controllers, NEW ok, NEW r, NEW response, Answer(controllers, ok, r, response),
             manage_controllers_' = manage_controllers_
      PROVE  NodeInv'
  BY <1>2 DEF Answer, nodeVars, NodeInv
<1>3. ASSUME NEW controllers, NEW start, NEW stop, NEW r, NEW response, manage_controllers_,
             switchControllers(controllers, start, stop, r, response),
             manage_controllers_' = manage_controllers_
      PROVE  NodeInv'
  <2> DEFINE i == discover(r.plugin, TRUE, response)
             starts == StartList(i, start)
             stops == StopList(i, start, stop)
  <2>1. CASE starts \cup stops = {}
    BY <1>2, <1>3, <2>1 DEF switchControllers
  <2>2. CASE starts \cup stops # {}
    <3>1. /\ running' = SwitchResult(starts, stops).running
          /\ claimed_resources' = claimed_resources /\ disjoint' = disjoint
      BY <1>3, <2>2 DEF switchControllers
    <3> HIDE DEF starts, stops
    <3>2. running' \in disjoint
      BY <3>1 DEF SwitchResult, Accepts, Disjoint, NodeInv
    <3> QED
      BY <1>3, <3>1, <3>2 DEF NodeInv
  <2> QED
    BY <2>1, <2>2
<1>4. ASSUME NEW controllers, NEW order, NEW r0, NEW response,
             ensureActiveControllers(controllers, order, r0, response)
      PROVE  NodeInv'
  <2>1. manage_controllers_' = manage_controllers_
    BY <1>4 DEF ensureActiveControllers
  <2>2. \/ \E ok, r : Answer(controllers, ok, r, response)
        \/ manage_controllers_ /\ \E start, stop, r :
             switchControllers(controllers, start, stop, r, response)
    BY <1>4 DEF ensureActiveControllers
  <2> QED
    BY <1>2, <1>3, <2>1, <2>2
<1>5. CASE Configure
  BY <1>5 DEF Configure, configure, nodeVars, NodeInv
<1>6. CASE EnsureContext
  BY <1>4, <1>6 DEF EnsureContext
<1>7. CASE EnsureForJoints
  BY <1>2, <1>4, <1>7 DEF EnsureForJoints
<1>8. CASE NodeSwitches
  BY <1>8 DEF NodeSwitches, SomebodySwitches, NodeInv, Disjoint
<1>9. CASE NodeLoads
  BY <1>9 DEF NodeLoads, SomebodyLoads, NodeInv
<1>10. CASE NodeUnloads
  BY <1>10 DEF NodeUnloads, SomebodyUnloads, NodeInv
<1>11. CASE Tick
  <2>1. overruled = Settled => overruled' = Settled
    BY <1>11, SettledLemma DEF Tick, Later
  <2> QED
    BY <1>11, <2>1, SettledLemma DEF Tick, nodeVars, NodeInv, Settled
<1>12. CASE UNCHANGED vars
  BY <1>12, SettledLemma DEF vars, nodeVars, historyVars, NodeInv, Settled
<1> QED
  BY <1>5, <1>6, <1>7, <1>8, <1>9, <1>10, <1>11, <1>12 DEF Next

\* The controllers that a manager which may not switch configures for a trajectory.
LEMMA FindsLemma ==
  ASSUME IInv, NodeInv, Configure, context' # context, ~manage_controllers_,
         quiet' = Settled
  PROVE  \/ context'.controllers \subseteq running
         \/ LET available == IF context'.request = <<>> THEN DOMAIN known_controllers_'
                             ELSE Names(context'.request)
            IN  ~(context'.joints \subseteq JointsOf(running \cap available))
<1>1. PICK joints \in Goals, request \in Requests, response \in Answers :
        configure(joints, request, response)
  BY DEF Configure
<1> DEFINE Available(r) == IF request = <<>> THEN DOMAIN r.known ELSE Names(request)
           Found(r) == IF Names(request) \subseteq DOMAIN r.known
                       THEN Selections(joints, Available(r), Order(request), r, response)
                       ELSE {}
<1>2. ~Failed(response) /\ quiet = Settled /\ overruled = Settled
  <2>1. Heard(response)
    BY <1>1 DEF configure
  <2> QED
    BY <2>1, SettledLemma DEF Heard, Disturb, disturbanceVars, NodeInv
<1>3. /\ ResponseOK(response, running, Settled) /\ Settled \in Nat
      /\ ReadingOK(Reading, running, Settled, Settled) /\ listed \subseteq Managed
  BY <1>2, CallLemma
<1>4. PICK r \in {Reading, reload(Reading, response)} : \E res \in Found(r) :
        /\ Read(res.reading)
        /\ context' = [joints |-> joints, request |-> request, controllers |-> res.controllers]
  BY <1>1 DEF configure
<1>5. ReadingOK(r, running, Settled, Settled)
  BY <1>3, ReloadLemma
<1> DEFINE u == updateControllerState(r, DOMAIN r.known, response)
           active == Active(u)
<1>6. active = running \cap DOMAIN r.known
  <2>1. /\ ReadingOK(u, running, Settled, Settled) /\ DOMAIN u.known = DOMAIN r.known
        /\ \A c \in DOMAIN r.known : u.known[c].age < ValidityAge
    BY <1>3, <1>5, UpdateLemma
  <2> HIDE DEF u
  <2>2. \A c \in DOMAIN u.known : c \in Active(u) <=> c \in running
    BY <2>1, FreshLemma
  <2> QED
    BY <2>1, <2>2 DEF Active
<1>7. PICK res \in Selections(joints, Available(r), Order(request), r, response) :
        /\ Read(res.reading) /\ Names(request) \subseteq DOMAIN r.known
        /\ context' = [joints |-> joints, request |-> request, controllers |-> res.controllers]
  BY <1>4
<1>8. Available(r) \subseteq DOMAIN r.known /\ DOMAIN r.known \subseteq Managed
  BY <1>3, <1>5, <1>7 DEF ReadingOK, ReadingType
<1>9. PICK sel \in selectControllers(joints, Available(r), Order(request), active) :
        res.controllers = sel.selected
  BY <1>7 DEF Selections
<1>10. (IF context'.request = <<>> THEN DOMAIN known_controllers_' ELSE Names(context'.request))
         = Available(r)
  <2> DEFINE available == Available(r)
  <2>1. known_controllers_' = res.reading.known /\ context'.request = request
    BY <1>7 DEF Read
  <2>2. DOMAIN res.reading.known = DOMAIN r.known
    <3> HIDE DEF Available
    <3> QED
      BY <1>3, <1>5, <1>7, SelectionsLemma
  <2> QED
    BY <2>1, <2>2
<1> HIDE DEF Available, active
<1>11. ASSUME joints \subseteq JointsOf(running \cap Available(r))
       PROVE  sel.selected \subseteq running
  <2>1. running \cap Available(r) \subseteq active
    BY <1>6, <1>8
  <2>2. running \cap Available(r) \in Combinations(joints, Available(r))
    BY <1>11 DEF IInv, Types, NodeInv, Combinations
  <2>3. sel.selected \subseteq active
    BY <1>8, <1>9, <2>1, <2>2, ActiveLemma DEF NodeInv
  <2> QED
    BY <1>6, <2>3
<1> QED
  BY <1>7, <1>9, <1>10, <1>11

-----------------------------------------------------------------------------
(* The theorems.                                                           *)

\* The variables have their types, and the controllers selected for a trajectory
\* claim no joint twice (generateControllerCombination, lines 392-422).
THEOREM TypeCorrect == Spec => []TypeOK
<1>1. IInv => TypeOK
  <2> SUFFICES ASSUME IInv PROVE TypeOK
    OBVIOUS
  <2>1. /\ interface \in PluginType /\ DOMAIN known_controllers_ \subseteq Managed
        /\ known_controllers_ \in
             [DOMAIN known_controllers_ -> [active_ : BOOLEAN, age : 0 .. ValidityAge]]
    BY DEF IInv, Reading, ReadingOK, ReadingType
  <2> QED
    BY <2>1 DEF IInv, Types, TypeOK, PluginType
<1> QED
  BY InvariantLemma, <1>1, PTL

\* A state that is held to be up to date is that of the controller, unless the node
\* was disturbed or overruled the manager less than two periods of validity ago.
THEOREM ReadingsAgreeAlways == Spec => []ReadingsAgree
<1>1. IInv => ReadingsAgree
  <2> SUFFICES ASSUME IInv, quiet = Settled, overruled = Settled,
                      NEW c \in DOMAIN known_controllers_,
                      known_controllers_[c].age < ValidityAge
               PROVE  known_controllers_[c].active_ <=> c \in running
    BY DEF ReadingsAgree
  <2>1. known_controllers_[c].age \in Nat
    BY DEF IInv, Reading, ReadingOK, ReadingType
  <2> QED
    BY <2>1, RosControlAssumption DEF IInv, Reading, ReadingOK, KnownOK, Settled
<1> QED
  BY InvariantLemma, <1>1, PTL

\* What ensureActiveControllers() has promised is active, with the same reservation,
\* but for controllers that were unloaded since the manager read the list.
THEOREM EnsuredIsActiveAlways == Spec => []EnsuredIsActive
<1>1. IInv => EnsuredIsActive
  BY DEF IInv
<1> QED
  BY InvariantLemma, <1>1, PTL

\* A switch takes a joint from under the control of the controllers that are known only
\* to give it to one that was unloaded since the manager read the list.
THEOREM JointsStayActuatedAlways == Spec => JointsStayActuated
<1>1. IInv /\ [Next]_vars => JointsKept
  BY StepLemma
<1>2. JointsKept =>
        [(quiet = Settled /\ overruled = Settled /\ quiet' # 0 /\ overruled' # 0) =>
           JointsOf(running \cap DOMAIN known_controllers_)
             \subseteq JointsOf(running' \cup Unloaded)]_vars
  BY DEF JointsKept
<1> QED
  BY InvariantLemma, <1>1, <1>2, PTL DEF Spec, JointsStayActuated

\* A manager that may not switch controllers, and whose node was left alone for two
\* periods of validity, configures active controllers for a trajectory whenever active
\* ones, of those available, can move its joints.
THEOREM ConfigureFindsActiveAlways == Spec => ConfigureFindsActive
<1> DEFINE Finds ==
      (context' # context /\ ~manage_controllers_ /\ quiet' = Settled) =>
        \/ context'.controllers \subseteq running
        \/ LET available == IF context'.request = <<>> THEN DOMAIN known_controllers_'
                            ELSE Names(context'.request)
           IN  ~(context'.joints \subseteq JointsOf(running \cap available))
<1>1. ASSUME IInv, NodeInv, [Next]_vars
      PROVE  Finds
  <2>1. CASE Configure
    BY <1>1, <2>1, FindsLemma
  <2>2. CASE ~Configure
    <3>1. ASSUME NEW controllers, NEW order, NEW r0, NEW response,
                 ensureActiveControllers(controllers, order, r0, response)
          PROVE  context' = context
      BY <3>1 DEF ensureActiveControllers
    <3>2. CASE EnsureContext \/ EnsureForJoints
      BY <3>1, <3>2 DEF EnsureContext, EnsureForJoints
    <3>3. CASE NodeSwitches \/ NodeLoads \/ NodeUnloads \/ Tick
      BY <3>3 DEF NodeSwitches, NodeLoads, NodeUnloads, Tick
    <3>4. CASE UNCHANGED vars
      BY <3>4 DEF vars
    <3>5. Next \/ UNCHANGED vars
      BY <1>1
    <3>6. CASE Next
      BY <2>2, <3>2, <3>3, <3>6 DEF Next
    <3> QED
      BY <3>4, <3>5, <3>6
  <2> QED
    BY <2>1, <2>2
<1>2. IInv /\ NodeInv /\ [Next]_vars => [Finds]_vars
  BY <1>1
<1>3. Spec => []NodeInv
  BY NodeInvLemma, PTL DEF Spec
<1> QED
  BY InvariantLemma, <1>2, <1>3, PTL DEF Spec, ConfigureFindsActive
===============================================================================
