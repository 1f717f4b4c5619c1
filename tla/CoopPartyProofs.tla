--------------------------- MODULE CoopPartyProofs ---------------------------
(***************************************************************************)
(* What the co-op policy keeps in every game, whatever happens in it: the  *)
(* six words that name the leader go together, the carrier's hands stay    *)
(* open, and the animal gets its rectangle back.  A Kong in the air must   *)
(* be the follower, held by the leader, with no reaction queued that could *)
(* change the lead; and all of it must hold of a snapshot, too.  On that:  *)
(* an accepted reaction finds its Kong, an item's owner is its holder, and *)
(* a lost Kong waits for its rescue.                                       *)
(***************************************************************************)
EXTENDS CoopParty, FiniteSetTheorems, TLAPS

Paired(g) ==
  /\ g.inactive = Other(g.active)
  /\ g.work = g.active /\ g.otherWork = g.inactive
  /\ g.port = Port(g.active)

InTheAir(g, k) ==
  /\ g.state[Other(k)] = "wait"
  /\ g.object = k /\ g.inactive = k
  /\ g.present /\ g.reaction = None

HandsOpen(g) == \A k \in Kongs : g.state[k] = "leap" => InTheAir(g, k)

GuestOK(g) == g \in Guests /\ Paired(g) /\ HandsOpen(g)

RectKept ==
  /\ pass => kept = "animal"
  /\ ~pass => guest.rect = "animal"
  /\ ~guest.group => guest.rect = "animal"

SavedOK == saved # None => /\ saved \in Snapshots
                           /\ GuestOK(saved.guest)
                           /\ saved.guest.rect = "animal" /\ saved.guest.group = FALSE

CoopInv == TypeOK /\ GuestOK(guest) /\ RectKept /\ SavedOK

LEMMA TwoKongs ==
  \A k \in Kongs : /\ Other(k) \in Kongs /\ Other(k) # k /\ Other(Other(k)) = k
                   /\ Port(k) \in {1, 2} /\ \A j \in Kongs : j = k \/ j = Other(k)
BY CoopAssumption DEF Kongs, Other, Port

\* A handoff keeps every word in its range and the six words together.
LEMMA LedIsPaired ==
  ASSUME NEW g \in Guests, Paired(g), NEW k \in Kongs
  PROVE  /\ Led(g, k) \in Guests /\ Paired(Led(g, k)) /\ Led(g, k).active = k
         /\ Led(g, k).state = g.state /\ Led(g, k).object = g.object
         /\ Led(g, k).present = g.present /\ Led(g, k).reaction = g.reaction
         /\ Led(g, k).rect = g.rect /\ Led(g, k).group = g.group
<1>1. g.active \in Kongs /\ g.inactive \in Kongs /\ g.work \in Kongs /\ g.otherWork \in Kongs
  BY DEF Guests
<1>2. CASE k # g.inactive
  <2>1. g.active = k
    BY <1>1, <1>2, TwoKongs DEF Paired
  <2> QED BY <1>2, <2>1 DEF Led
<1>3. CASE k = g.inactive
  <2>1. Led(g, k) = [g EXCEPT !.active = k, !.inactive = g.active, !.work = g.otherWork,
                              !.otherWork = g.work, !.port = Port(k)]
    BY <1>3 DEF Led
  <2>2. Led(g, k) \in Guests
    <3>1. Port(k) \in {1, 2}
      BY TwoKongs
    <3>2. [g EXCEPT !.active = k, !.inactive = g.active] \in Guests
      BY <1>1 DEF Guests
    <3>3. \A h \in Guests : [h EXCEPT !.work = g.otherWork, !.otherWork = g.work] \in Guests
      BY <1>1 DEF Guests
    <3>4. \A h \in Guests : [h EXCEPT !.port = Port(k)] \in Guests
      BY <3>1 DEF Guests
    <3>5. Led(g, k) = [[[g EXCEPT !.active = k, !.inactive = g.active]
                        EXCEPT !.work = g.otherWork, !.otherWork = g.work] EXCEPT !.port = Port(k)]
      BY <2>1 DEF Guests
    <3> QED BY <3>2, <3>3, <3>4, <3>5
  <2>3. /\ Led(g, k).active = k /\ Led(g, k).inactive = g.active
        /\ Led(g, k).work = g.otherWork /\ Led(g, k).otherWork = g.work
        /\ Led(g, k).port = Port(k)
        /\ Led(g, k).state = g.state /\ Led(g, k).object = g.object
        /\ Led(g, k).present = g.present /\ Led(g, k).reaction = g.reaction
        /\ Led(g, k).rect = g.rect /\ Led(g, k).group = g.group
    BY <2>1 DEF Guests
  <2>4. Paired(Led(g, k))
    BY <1>1, <1>3, <2>3, TwoKongs DEF Paired
  <2> QED BY <2>2, <2>3, <2>4
<1> QED BY <1>2, <1>3

\* Hands stay open while the words they are about stay, but for states of
\* Kongs that are neither waiting below one in the air nor in the air.
LEMMA HandsStay ==
  ASSUME NEW g \in Guests, HandsOpen(g), NEW h \in Guests,
         h.object = g.object, h.inactive = g.inactive, h.present = g.present \/ h.present = TRUE,
         h.reaction = g.reaction,
         \A k \in Kongs : h.state[k] = "leap" => g.state[k] = "leap",
         \A k \in Kongs : g.state[k] = "wait" /\ InTheAir(g, Other(k)) => h.state[k] = "wait"
  PROVE  HandsOpen(h)
<1> SUFFICES ASSUME NEW k \in Kongs, h.state[k] = "leap" PROVE InTheAir(h, k)
  BY DEF HandsOpen
<1>1. g.state[k] = "leap" /\ InTheAir(g, k)
  BY DEF HandsOpen
<1>2. Other(k) \in Kongs /\ Other(Other(k)) = k
  BY TwoKongs
<1>3. g.state[Other(k)] = "wait" /\ g.object = k /\ g.inactive = k /\ g.present /\ g.reaction = None
  BY <1>1 DEF InTheAir
<1>4. h.state[Other(k)] = "wait"
  BY <1>1, <1>2, <1>3
<1> QED BY <1>3, <1>4 DEF InTheAir

-----------------------------------------------------------------------------
(* The policy.                                                             *)

LEMMA SelectedIs ==
  ASSUME NEW k \in Kongs, guest \in Guests, NEW hold \in BOOLEAN, NEW grounded \in BOOLEAN
  PROVE  /\ Selected(k, hold, grounded) \in Actions
         /\ Selected(k, hold, grounded) = "leap" => guest.state[k] = "leap"
<1>1. guest.state[k] \in Actions
  BY DEF Guests
<1> QED BY <1>1 DEF Selected, Actions

\* The Kong that waits below its partner is kept waiting.
LEMMA WaitsBelow ==
  ASSUME NEW k \in Kongs, guest \in Guests, Paired(guest), Sim, guest.state[k] = "wait",
         InTheAir(guest, Other(k))
  PROVE  KeepsWaiting(k)
<1>1. guest.object = Other(k) /\ guest.inactive = Other(k) /\ Other(k) \in Kongs
  BY TwoKongs DEF InTheAir
<1>2. guest.active \in Kongs
  BY DEF Guests
<1>3. guest.active = k
  BY <1>1, <1>2, TwoKongs DEF Paired
<1>4. guest.object # None /\ guest.active = Other(guest.object)
  BY <1>1, <1>3, TwoKongs, CoopAssumption
<1>5. HeldOwner = k
  BY <1>1, <1>3, <1>4 DEF HeldOwner
<1> QED BY <1>1, <1>5 DEF KeepsWaiting

LEMMA DispatchKeeps ==
  ASSUME CoopInv, NEW k \in Kongs, NEW hold \in BOOLEAN, NEW grounded \in BOOLEAN,
         Dispatch(k, hold, grounded)
  PROVE  CoopInv'
<1> DEFINE resumed == [guest EXCEPT !.due = @ \ {k},
                         !.parked = IF Sim /\ guest.state[k] = "rope" THEN @ \ {k} ELSE @]
           state == Selected(k, hold, grounded)
<1>1. /\ TypeOK /\ guest \in Guests /\ Paired(guest) /\ HandsOpen(guest) /\ RectKept /\ SavedOK
      /\ UNCHANGED <<mode, records, saved, saves, history>>
  BY DEF CoopInv, GuestOK, Dispatch
<1>2. guest' = IF ~Sim \/ KeepsWaiting(k) THEN resumed ELSE Joined(resumed, k, state)
  BY DEF Dispatch
<1>3. lost' \subseteq Kongs
  BY <1>1 DEF Dispatch, LostAfter, TypeOK
<1>4. /\ resumed \in Guests /\ resumed.state = guest.state /\ resumed.object = guest.object
      /\ resumed.active = guest.active /\ resumed.inactive = guest.inactive
      /\ resumed.work = guest.work /\ resumed.otherWork = guest.otherWork
      /\ resumed.port = guest.port /\ resumed.present = guest.present
      /\ resumed.reaction = guest.reaction /\ resumed.rect = guest.rect
      /\ resumed.group = guest.group
  <2>1. resumed \in Guests
    BY <1>1 DEF Guests
  <2> QED BY <1>1, <2>1 DEF Guests
<1>5. state \in Actions /\ (state = "leap" => guest.state[k] = "leap")
  BY <1>1, SelectedIs
<1> HIDE DEF resumed, state
<1> DEFINE joined == Joined(resumed, k, state)
<1>6. /\ joined \in Guests /\ joined.object = guest.object
      /\ joined.active = guest.active /\ joined.inactive = guest.inactive
      /\ joined.work = guest.work /\ joined.otherWork = guest.otherWork
      /\ joined.port = guest.port
      /\ (joined.present = guest.present \/ joined.present = TRUE)
      /\ joined.reaction = guest.reaction /\ joined.rect = guest.rect
      /\ joined.group = guest.group
      /\ joined.state = [guest.state EXCEPT ![k] = state]
  <2> DEFINE original == resumed.state[k]
             mask == IF original = "thrown" /\ state # original
                     THEN Or24(resumed.mask[k]) ELSE resumed.mask[k]
             joins == state = "idle" /\ k = resumed.inactive
             prompt == resumed.prompt /\ original # "turn"
             newMask == IF joins /\ mask \in {0, 6} THEN 30 ELSE mask
             present == resumed.present \/ joins
             back == IF joins THEN resumed.back \ {k} ELSE resumed.back
  <2>1. resumed.mask[k] \in {0, 6, 24, 30} /\ prompt \in BOOLEAN /\ present \in BOOLEAN
    BY <1>4 DEF Guests
  <2>2. newMask \in {0, 6, 24, 30} /\ back \subseteq Kongs
    BY <1>4, <2>1 DEF Or24, Guests
  <2>3. joined = [resumed EXCEPT !.state[k] = state, !.prompt = prompt, !.mask[k] = newMask,
                                 !.present = present, !.back = back]
    BY DEF Joined
  <2>4. present = resumed.present \/ present = TRUE
    BY <1>4 DEF Guests
  <2> HIDE DEF joined, prompt, newMask, present, back
  <2> DEFINE states == [resumed.state EXCEPT ![k] = state]
             masks == [resumed.mask EXCEPT ![k] = newMask]
  <2>5. /\ states \in [Kongs -> Actions] /\ masks \in [Kongs -> {0, 6, 24, 30}]
        /\ back \in SUBSET Kongs
    BY <1>4, <1>5, <2>2 DEF Guests
  <2>6. joined = [resumed EXCEPT !.state = states, !.prompt = prompt, !.mask = masks,
                                 !.present = present, !.back = back]
    BY <2>3
  <2> HIDE DEF states, masks
  <2>7. joined \in Guests
    <3>1. \A h \in Guests : [h EXCEPT !.state = states, !.mask = masks] \in Guests
      BY <2>5 DEF Guests
    <3>2. \A h \in Guests : [h EXCEPT !.prompt = prompt, !.present = present] \in Guests
      BY <2>1 DEF Guests
    <3>3. \A h \in Guests : [h EXCEPT !.back = back] \in Guests
      BY <2>5 DEF Guests
    <3>4. joined = [[[resumed EXCEPT !.state = states, !.mask = masks]
                     EXCEPT !.prompt = prompt, !.present = present] EXCEPT !.back = back]
      BY <1>4, <2>6 DEF Guests
    <3> QED BY <1>4, <3>1, <3>2, <3>3, <3>4
  <2>8. /\ joined.object = resumed.object /\ joined.active = resumed.active
        /\ joined.inactive = resumed.inactive /\ joined.work = resumed.work
        /\ joined.otherWork = resumed.otherWork /\ joined.port = resumed.port
        /\ joined.present = present /\ joined.reaction = resumed.reaction
        /\ joined.rect = resumed.rect /\ joined.group = resumed.group /\ joined.state = states
    BY <1>4, <2>6 DEF Guests
  <2> QED BY <1>4, <2>4, <2>7, <2>8 DEF states
<1> HIDE DEF joined
<1>7. guest' = resumed \/ (guest' = joined /\ Sim /\ ~KeepsWaiting(k))
  BY <1>2 DEF joined
<1>8. guest' \in Guests /\ Paired(guest') /\ guest'.rect = guest.rect /\ guest'.group = guest.group
  BY <1>1, <1>4, <1>6, <1>7 DEF Paired
<1>9. HandsOpen(guest')
  <2>1. CASE guest' = resumed
    BY <1>1, <1>4, <1>8, <2>1, HandsStay
  <2>2. CASE guest' = joined /\ Sim /\ ~KeepsWaiting(k)
    <3>1. ASSUME NEW j \in Kongs, guest'.state[j] = "leap" PROVE guest.state[j] = "leap"
      BY <1>1, <1>5, <1>6, <2>2, <3>1 DEF Guests
    <3>2. ASSUME NEW j \in Kongs, guest.state[j] = "wait", InTheAir(guest, Other(j))
          PROVE  guest'.state[j] = "wait"
      <4>1. j # k
        BY <1>1, <2>2, <3>2, WaitsBelow
      <4> QED BY <1>1, <1>6, <2>2, <3>2, <4>1 DEF Guests
    <3> QED BY <1>1, <1>6, <1>8, <2>2, <3>1, <3>2, HandsStay
  <2> QED BY <1>7, <2>1, <2>2
<1>10. TypeOK'
  BY <1>1, <1>3, <1>8 DEF TypeOK, records, history
<1>11. RectKept' /\ SavedOK'
  BY <1>1, <1>8 DEF RectKept, SavedOK, records, history
<1> QED BY <1>8, <1>9, <1>10, <1>11 DEF CoopInv, GuestOK

\* A Kong in the air is there only while the words above say so.
LEMMA NoneInTheAir ==
  ASSUME NEW g \in Guests, HandsOpen(g),
         \/ g.object \notin Kongs \/ ~g.present \/ g.reaction # None
         \/ \E k \in Kongs : g.state[k] \notin {"wait", "leap"}
  PROVE  \A k \in Kongs : g.state[k] # "leap"
<1> SUFFICES ASSUME NEW k \in Kongs, g.state[k] = "leap" PROVE FALSE
  OBVIOUS
<1>1. g.state[Other(k)] = "wait" /\ g.object = k /\ g.present /\ g.reaction = None
  BY DEF HandsOpen, InTheAir
<1>2. PICK j \in Kongs : g.state[j] \notin {"wait", "leap"}
  BY <1>1
<1> QED BY <1>1, <1>2, TwoKongs

\* What a step that changes only the cartridge's words has to keep.
LEMMA WordsKeep ==
  ASSUME CoopInv, NEW g \in Guests, Paired(g), HandsOpen(g), guest' = g,
         g.rect = guest.rect, g.group = guest.group,
         UNCHANGED <<mode, lost, pass, kept, saved, saves>>,
         stomp' \in [source : {"enemy", "animal"}, kong : Kongs] \cup {None},
         mount' \in [source : {"enemy", "animal"}, kong : Kongs] \cup {None},
         pickup' \in [id : {1, 2}, kong : Kongs] \cup {None},
         events' \subseteq {1, 2}, gone' \subseteq Kongs, holder' \in Kongs \cup {None},
         struck' \in Strikes
  PROVE  CoopInv'
<1>1. TypeOK /\ RectKept /\ SavedOK
  BY DEF CoopInv
<1>2. TypeOK'
  BY <1>1 DEF TypeOK
<1>3. RectKept' /\ SavedOK'
  BY <1>1 DEF RectKept, SavedOK
<1> QED BY <1>2, <1>3 DEF CoopInv, GuestOK

LEMMA RecordsTyped ==
  ASSUME CoopInv
  PROVE  /\ stomp \in [source : {"enemy", "animal"}, kong : Kongs] \cup {None}
         /\ mount \in [source : {"enemy", "animal"}, kong : Kongs] \cup {None}
         /\ pickup \in [id : {1, 2}, kong : Kongs] \cup {None}
         /\ events \subseteq {1, 2} /\ gone \subseteq Kongs /\ holder \in Kongs \cup {None}
         /\ struck \in Strikes
         /\ guest \in Guests /\ Paired(guest) /\ HandsOpen(guest)
BY DEF CoopInv, TypeOK, GuestOK

LEMMA PickUpKeeps ==
  ASSUME CoopInv, NEW k \in Kongs, PickUp(k)
  PROVE  CoopInv'
<1> DEFINE g == [guest EXCEPT !.object = "item"]
<1>1. guest \in Guests /\ Paired(guest) /\ HandsOpen(guest) /\ guest.object \notin Kongs
  BY RecordsTyped, CoopAssumption DEF PickUp, Kongs
<1>2. \A j \in Kongs : guest.state[j] # "leap"
  BY <1>1, NoneInTheAir
<1>3. g \in Guests /\ Paired(g) /\ g.state = guest.state /\ g.rect = guest.rect /\ g.group = guest.group
  BY <1>1 DEF Guests, Paired
<1>4. HandsOpen(g)
  BY <1>2, <1>3 DEF HandsOpen
<1>5. pickup' \in [id : {1, 2}, kong : Kongs] \cup {None} /\ holder' \in Kongs \cup {None}
  BY <1>1 DEF PickUp, Guests
<1>6. /\ guest' = g
      /\ UNCHANGED <<mode, lost, stomp, mount, pass, kept, events, saved, saves, gone, struck>>
  BY DEF PickUp
<1> HIDE DEF g
<1> QED BY <1>3, <1>4, <1>5, <1>6, RecordsTyped, WordsKeep

\* The partner leaps into the hands of the Kong that takes the lead.
LEMMA TeamUpKeeps ==
  ASSUME CoopInv, NEW k \in Kongs, TeamUp(k)
  PROVE  CoopInv'
<1> DEFINE led == Led(guest, k)
           states == [q \in Kongs |-> IF q = k THEN "wait" ELSE "leap"]
           g == [led EXCEPT !.object = Other(k), !.due = Kongs, !.state = states]
<1>1. guest \in Guests /\ Paired(guest) /\ guest.present = TRUE /\ guest.reaction = None
  BY RecordsTyped DEF TeamUp, Guests
<1>2. /\ led \in Guests /\ Paired(led) /\ led.active = k /\ led.present = TRUE /\ led.reaction = None
      /\ led.rect = guest.rect /\ led.group = guest.group
  BY <1>1, LedIsPaired
<1>3. guest' = g /\ UNCHANGED <<mode, lost, records, saved, saves, history>>
  BY DEF TeamUp
<1> HIDE DEF led
<1>4. states \in [Kongs -> Actions]
  BY DEF Actions
<1> HIDE DEF states
<1>5. /\ g \in Guests /\ g.active = led.active /\ g.inactive = led.inactive /\ g.work = led.work
      /\ g.otherWork = led.otherWork /\ g.port = led.port /\ g.present = led.present
      /\ g.reaction = led.reaction /\ g.rect = led.rect /\ g.group = led.group
      /\ g.object = Other(k) /\ g.state = states
  <2>1. Other(k) \in Kongs /\ led \in Guests
    BY <1>2, TwoKongs
  <2>2. g \in Guests
    BY <1>4, <2>1 DEF Guests
  <2> QED BY <1>4, <2>1, <2>2 DEF Guests
<1> HIDE DEF g
<1>6. Paired(g) /\ g.inactive = Other(k)
  BY <1>2, <1>5 DEF Paired
<1>7. HandsOpen(g)
  <2> SUFFICES ASSUME NEW j \in Kongs, g.state[j] = "leap" PROVE InTheAir(g, j)
    BY DEF HandsOpen
  <2>1. j = Other(k)
    BY <1>5, TwoKongs DEF states
  <2>2. Other(j) = k /\ g.state[k] = "wait"
    BY <1>5, <2>1, TwoKongs DEF states
  <2>3. g.object = j /\ g.inactive = j /\ g.reaction = None
    BY <1>2, <1>5, <1>6, <2>1
  <2>4. g.present = TRUE
    BY <1>2, <1>5
  <2> QED BY <2>2, <2>3, <2>4 DEF InTheAir
<1>8. UNCHANGED <<mode, lost, pass, kept, saved, saves, stomp, mount, pickup, events,
                  gone, holder, struck>>
  BY <1>3 DEF records, history
<1>9. g \in Guests /\ Paired(g) /\ guest' = g /\ g.rect = guest.rect /\ g.group = guest.group
  BY <1>2, <1>3, <1>5, <1>6
<1> QED BY <1>7, <1>8, <1>9, RecordsTyped, WordsKeep

LEMMA AcceptKeeps ==
  ASSUME CoopInv, NEW kind \in {"stomp", "mount"}, NEW kong \in Kongs, Accept(kind, kong)
  PROVE  CoopInv'
<1> DEFINE source == IF kind = "stomp" THEN "enemy" ELSE "animal"
           g == [guest EXCEPT !.reaction = kind, !.source = source]
<1>1. guest \in Guests /\ Paired(guest) /\ HandsOpen(guest) /\ guest.object \notin Kongs
  BY RecordsTyped, CoopAssumption DEF Accept
<1>2. \A j \in Kongs : guest.state[j] # "leap"
  BY <1>1, NoneInTheAir
<1>3. g \in Guests /\ Paired(g) /\ g.state = guest.state /\ g.rect = guest.rect /\ g.group = guest.group
  BY <1>1 DEF Guests, Paired
<1>4. HandsOpen(g)
  BY <1>2, <1>3 DEF HandsOpen
<1>5. /\ guest' = g /\ struck' \in Strikes
      /\ UNCHANGED <<mode, lost, pickup, pass, kept, events, saved, saves, gone, holder>>
  BY DEF Accept, Strikes, NoStrike
<1>6. /\ stomp' \in [source : {"enemy", "animal"}, kong : Kongs] \cup {None}
      /\ mount' \in [source : {"enemy", "animal"}, kong : Kongs] \cup {None}
  BY DEF Accept, RecordInteraction
<1> HIDE DEF g, source
<1> QED BY <1>3, <1>4, <1>5, <1>6, RecordsTyped, WordsKeep

LEMMA StompKeeps ==
  ASSUME CoopInv, Stomp
  PROVE  CoopInv'
<1> DEFINE g == [guest EXCEPT !.reaction = None]
           kong == Bouncer
<1>1. /\ guest \in Guests /\ Paired(guest) /\ HandsOpen(guest) /\ guest.reaction # None
      /\ guest.active \in Kongs /\ guest.inactive \in Kongs /\ guest.port \in {1, 2}
  BY RecordsTyped, CoopAssumption DEF Stomp, Guests
<1>2. \A j \in Kongs : guest.state[j] # "leap"
  BY <1>1, NoneInTheAir
<1>3. g \in Guests /\ Paired(g) /\ g.state = guest.state /\ g.rect = guest.rect /\ g.group = guest.group
  BY <1>1 DEF Guests, Paired
<1>4. HandsOpen(g)
  BY <1>2, <1>3 DEF HandsOpen
<1>5. kong \in Kongs /\ Controller(kong) \in {1, 2}
  BY <1>1, TwoKongs DEF Controller, Bouncer
<1>6. /\ guest' = g /\ stomp' = None /\ struck' = NoStrike
      /\ events' = events \cup {Controller(kong)}
      /\ UNCHANGED <<mode, lost, mount, pickup, pass, kept, saved, saves, gone, holder>>
  BY DEF Stomp
<1> HIDE DEF g, kong
<1>7. events' \subseteq {1, 2} /\ struck' \in Strikes
  BY <1>5, <1>6, RecordsTyped DEF Strikes, NoStrike
<1> QED BY <1>3, <1>4, <1>6, <1>7, RecordsTyped, WordsKeep

\* A mount hands the lead over only while no Kong is in the air.
LEMMA MountKeeps ==
  ASSUME CoopInv, Mount
  PROVE  CoopInv'
<1> DEFINE led == RideLeads
           g == [led EXCEPT !.reaction = None, !.riding = TRUE]
<1>1. /\ guest \in Guests /\ Paired(guest) /\ HandsOpen(guest) /\ guest.reaction # None
  BY RecordsTyped, CoopAssumption DEF Mount
<1>2. \A j \in Kongs : guest.state[j] # "leap"
  BY <1>1, NoneInTheAir
<1>3. /\ led \in Guests /\ Paired(led) /\ led.state = guest.state
      /\ led.rect = guest.rect /\ led.group = guest.group
  <2>1. CASE Sim /\ mount # None /\ mount.source = guest.source /\ ~guest.riding
    <3>1. mount.kong \in Kongs
      BY <2>1, RecordsTyped
    <3> QED BY <1>1, <2>1, <3>1, LedIsPaired DEF RideLeads
  <2>2. CASE ~(Sim /\ mount # None /\ mount.source = guest.source /\ ~guest.riding)
    BY <1>1, <2>2 DEF RideLeads
  <2> QED BY <2>1, <2>2
<1>4. /\ guest' = g /\ mount' = None /\ struck' = NoStrike
      /\ UNCHANGED <<mode, lost, stomp, pickup, pass, kept, events, saved, saves, gone, holder>>
  BY DEF Mount
<1> HIDE DEF led
<1>5. /\ g \in Guests /\ g.active = led.active /\ g.inactive = led.inactive /\ g.work = led.work
      /\ g.otherWork = led.otherWork /\ g.port = led.port /\ g.state = led.state
      /\ g.rect = led.rect /\ g.group = led.group
  BY <1>3 DEF Guests
<1> HIDE DEF g
<1>6. Paired(g) /\ HandsOpen(g)
  BY <1>2, <1>3, <1>5 DEF Paired, HandsOpen
<1>7. struck' \in Strikes
  BY <1>4 DEF Strikes, NoStrike
<1>8. g \in Guests /\ g.rect = guest.rect /\ g.group = guest.group
  BY <1>3, <1>5
<1> QED BY <1>4, <1>6, <1>7, <1>8, RecordsTyped, WordsKeep

LEMMA TakeStompEventsKeeps ==
  ASSUME CoopInv, TakeStompEvents
  PROVE  CoopInv'
<1>1. /\ events' = {} /\ guest' = guest
      /\ UNCHANGED <<mode, lost, stomp, mount, pickup, pass, kept, saved, saves,
                     gone, holder, struck>>
  BY DEF TakeStompEvents, history
<1> QED BY <1>1, RecordsTyped, WordsKeep

\* The extra pass keeps the animal's rectangle for as long as the follower's
\* stands in its place.
LEMMA BananaSecondWidthKeeps ==
  ASSUME CoopInv, BananaSecondWidth
  PROVE  CoopInv'
<1> DEFINE extra == Sim /\ guest.riding /\ guest.mask[guest.inactive] # 0 /\ guest.inactive \notin lost
           rect == IF extra THEN "follower" ELSE guest.rect
           g == [guest EXCEPT !.group = TRUE, !.rect = rect]
<1>1. TypeOK /\ RectKept /\ SavedOK /\ guest \in Guests /\ Paired(guest) /\ HandsOpen(guest)
  BY RecordsTyped DEF CoopInv
<1>2. guest.rect = "animal" /\ guest.rect \in {"animal", "follower"}
  BY <1>1 DEF BananaSecondWidth, RectKept, Guests
<1>3. rect \in {"animal", "follower"}
  BY <1>2
<1>4. /\ pass' = extra /\ kept' = (IF extra THEN guest.rect ELSE kept) /\ guest' = g
      /\ UNCHANGED <<mode, lost, stomp, mount, pickup, events, saved, saves, history>>
  BY DEF BananaSecondWidth
<1>5. extra \in BOOLEAN /\ (~extra => rect = guest.rect)
  OBVIOUS
<1> HIDE DEF extra, rect
<1>6. g \in Guests /\ g.rect = rect /\ g.group = TRUE
  BY <1>1, <1>3 DEF Guests
<1>7. Paired(g) /\ HandsOpen(g)
  <2>1. /\ g.active = guest.active /\ g.inactive = guest.inactive /\ g.work = guest.work
        /\ g.otherWork = guest.otherWork /\ g.port = guest.port /\ g.state = guest.state
        /\ g.object = guest.object /\ g.present = guest.present /\ g.reaction = guest.reaction
    BY <1>1 DEF Guests
  <2> HIDE DEF g
  <2>2. HandsOpen(g)
    BY <1>1, <1>6, <2>1, HandsStay
  <2> QED BY <1>1, <2>1, <2>2 DEF Paired
<1> HIDE DEF g
<1>8. kept' \in {"animal", "follower"}
  BY <1>1, <1>2, <1>4 DEF TypeOK
<1>9. TypeOK'
  BY <1>1, <1>4, <1>5, <1>6, <1>8 DEF TypeOK, history
<1>10. RectKept'
  BY <1>1, <1>2, <1>4, <1>5, <1>6 DEF RectKept
<1>11. SavedOK'
  BY <1>1, <1>4 DEF SavedOK
<1> QED BY <1>4, <1>6, <1>7, <1>9, <1>10, <1>11 DEF CoopInv, GuestOK

LEMMA BananaNextPassKeeps ==
  ASSUME CoopInv, BananaNextPass
  PROVE  CoopInv'
<1> DEFINE g == [guest EXCEPT !.rect = RectAfter, !.group = pass]
<1>1. /\ TypeOK /\ RectKept /\ SavedOK /\ guest \in Guests /\ Paired(guest) /\ HandsOpen(guest)
      /\ pass \in BOOLEAN
  BY RecordsTyped DEF CoopInv, TypeOK
<1>2. RectAfter = "animal"
  BY <1>1 DEF RectAfter, RectKept
<1>3. /\ pass' = FALSE /\ guest' = g
      /\ UNCHANGED <<mode, lost, stomp, mount, pickup, kept, events, saved, saves, history>>
  BY DEF BananaNextPass
<1>4. g \in Guests /\ g.rect = "animal"
  BY <1>1, <1>2 DEF Guests
<1>5. Paired(g) /\ HandsOpen(g)
  <2>1. /\ g.active = guest.active /\ g.inactive = guest.inactive /\ g.work = guest.work
        /\ g.otherWork = guest.otherWork /\ g.port = guest.port /\ g.state = guest.state
        /\ g.object = guest.object /\ g.present = guest.present /\ g.reaction = guest.reaction
    BY <1>1 DEF Guests
  <2> HIDE DEF g
  <2>2. HandsOpen(g)
    BY <1>1, <1>4, <2>1, HandsStay
  <2> QED BY <1>1, <2>1, <2>2 DEF Paired
<1> HIDE DEF g
<1>6. TypeOK'
  <2>1. UNCHANGED <<gone, holder, struck>> /\ pass' \in BOOLEAN /\ guest' \in Guests
    BY <1>3, <1>4 DEF history
  <2> QED BY <1>1, <1>3, <2>1 DEF TypeOK
<1>7. RectKept' /\ SavedOK'
  BY <1>1, <1>3, <1>4 DEF RectKept, SavedOK
<1> QED BY <1>3, <1>4, <1>5, <1>6, <1>7 DEF CoopInv, GuestOK

\* A frame in which every Kong is dispatched again.
LEMMA AllDue ==
  ASSUME NEW g, GuestOK(g)
  PROVE  /\ GuestOK([g EXCEPT !.due = Kongs]) /\ [g EXCEPT !.due = Kongs] \in Guests
         /\ [g EXCEPT !.due = Kongs].rect = g.rect /\ [g EXCEPT !.due = Kongs].group = g.group
<1> DEFINE h == [g EXCEPT !.due = Kongs]
<1>1. g \in Guests /\ Paired(g) /\ HandsOpen(g)
  BY DEF GuestOK
<1>2. h \in Guests
  BY <1>1 DEF Guests
<1>3. /\ h.active = g.active /\ h.inactive = g.inactive /\ h.work = g.work
      /\ h.otherWork = g.otherWork /\ h.port = g.port /\ h.state = g.state
      /\ h.object = g.object /\ h.present = g.present /\ h.reaction = g.reaction
      /\ h.rect = g.rect /\ h.group = g.group
  BY <1>1 DEF Guests
<1> HIDE DEF h
<1>4. HandsOpen(h)
  BY <1>1, <1>2, <1>3, HandsStay
<1>5. Paired(h)
  BY <1>1, <1>3 DEF Paired
<1>6. GuestOK(h) /\ h \in Guests /\ h.rect = g.rect /\ h.group = g.group
  BY <1>2, <1>3, <1>4, <1>5 DEF GuestOK
<1> QED BY <1>6 DEF h

LEMMA SetModeKeeps ==
  ASSUME CoopInv, SetMode
  PROVE  CoopInv'
<1>1. TypeOK /\ GuestOK(guest) /\ RectKept /\ SavedOK
  BY DEF CoopInv
<1>2. /\ mode' \in {"simultaneous", "classic"} /\ ~guest.group
      /\ struck' = [struck EXCEPT !.known = FALSE]
      /\ guest' = [guest EXCEPT !.due = Kongs]
      /\ stomp' = None /\ mount' = None /\ pickup' = None /\ pass' = FALSE /\ events' = {}
      /\ UNCHANGED <<lost, kept, saved, saves, gone, holder>>
  BY DEF SetMode, Cleared
<1>3. /\ GuestOK(guest') /\ guest' \in Guests
      /\ guest'.rect = guest.rect /\ guest'.group = guest.group
  BY <1>1, <1>2, AllDue
<1>4. TypeOK'
  <2>1. struck' \in Strikes
    BY <1>1, <1>2 DEF TypeOK, Strikes
  <2> QED BY <1>1, <1>2, <1>3, <2>1 DEF TypeOK
<1>5. RectKept' /\ SavedOK'
  BY <1>1, <1>2, <1>3 DEF RectKept, SavedOK
<1> QED BY <1>3, <1>4, <1>5 DEF CoopInv

\* What is saved between frames is fit to be loaded.
LEMMA SaveKeeps ==
  ASSUME CoopInv, Save
  PROVE  CoopInv'
<1>1. TypeOK /\ GuestOK(guest) /\ RectKept /\ SavedOK
  BY DEF CoopInv
<1>2. /\ ~guest.group /\ saves < MaxSaves /\ saves' = saves + 1
      /\ saved' = [guest |-> guest, lost |-> lost, gone |-> gone, holder |-> holder,
                   struck |-> struck.kong]
      /\ UNCHANGED <<mode, lost, records, guest, history>>
  BY DEF Save
<1>3. guest \in Guests /\ guest.rect = "animal" /\ guest.group = FALSE
  BY <1>1, <1>2 DEF GuestOK, RectKept, Guests
<1>4. saved' \in Snapshots /\ saved'.guest = guest
  BY <1>1, <1>2, <1>3 DEF TypeOK, Snapshots, Strikes
<1>5. saves' \in 0 .. MaxSaves
  BY <1>1, <1>2, CoopAssumption DEF TypeOK
<1>6. /\ mode' = mode /\ lost' = lost /\ guest' = guest
      /\ UNCHANGED <<stomp, mount, pickup, pass, kept, events, gone, holder, struck>>
  BY <1>2 DEF records, history
<1>7. TypeOK'
  BY <1>1, <1>4, <1>5, <1>6 DEF TypeOK
<1>8. RectKept'
  BY <1>1, <1>6 DEF RectKept
<1>9. SavedOK'
  BY <1>1, <1>3, <1>4 DEF SavedOK
<1> QED BY <1>1, <1>6, <1>7, <1>8, <1>9 DEF CoopInv

LEMMA LoadKeeps ==
  ASSUME CoopInv, NEW recorded \in BOOLEAN, Load(recorded)
  PROVE  CoopInv'
<1>1. TypeOK /\ GuestOK(guest) /\ RectKept /\ SavedOK
  BY DEF CoopInv
<1>2. /\ saved # None /\ guest' = [saved.guest EXCEPT !.due = Kongs]
      /\ lost' = Loaded(recorded) /\ gone' = saved.gone /\ holder' = saved.holder
      /\ struck' = [kong |-> saved.struck, known |-> FALSE]
      /\ stomp' = None /\ mount' = None /\ pickup' = None /\ pass' = FALSE /\ events' = {}
      /\ UNCHANGED <<mode, kept, saved, saves>>
  BY DEF Load, Cleared
<1>3. /\ saved \in Snapshots /\ GuestOK(saved.guest)
      /\ saved.guest.rect = "animal" /\ saved.guest.group = FALSE
  BY <1>1, <1>2 DEF SavedOK
<1>4. /\ saved.lost \subseteq Kongs /\ saved.gone \subseteq Kongs
      /\ saved.holder \in Kongs \cup {None} /\ saved.guest \in Guests
      /\ saved.struck \in Kongs \cup {None}
  BY <1>3 DEF Snapshots
<1>5. saved.guest.inactive \in Kongs
  BY <1>4 DEF Guests
<1>6. lost' \subseteq Kongs
  BY <1>2, <1>4, <1>5 DEF Loaded
<1>7. GuestOK(guest') /\ guest' \in Guests /\ guest'.rect = "animal" /\ guest'.group = FALSE
  BY <1>2, <1>3, AllDue
<1>8. TypeOK'
  <2>1. struck' \in Strikes
    BY <1>2, <1>4 DEF Strikes
  <2> QED BY <1>1, <1>2, <1>4, <1>6, <1>7, <2>1 DEF TypeOK
<1>9. RectKept' /\ SavedOK'
  BY <1>1, <1>2, <1>7 DEF RectKept, SavedOK
<1> QED BY <1>7, <1>8, <1>9 DEF CoopInv

-----------------------------------------------------------------------------
(* The cartridge.                                                          *)

LEMMA CartridgeKeeps ==
  ASSUME CoopInv, NEW g \in Guests, Paired(g), HandsOpen(g), Cartridge(g),
         g.rect = guest.rect, g.group = guest.group,
         gone' \subseteq Kongs, holder' \in Kongs \cup {None}
  PROVE  CoopInv'
<1>1. /\ guest' = g
      /\ UNCHANGED <<mode, lost, stomp, mount, pickup, pass, kept, events, saved, saves,
                     struck>>
  BY DEF Cartridge, records
<1> QED BY <1>1, RecordsTyped, WordsKeep

LEMMA BecomesIs ==
  ASSUME guest \in Guests, NEW k \in Kongs, NEW state \in Actions
  PROVE  /\ Becomes(k, state) \in Guests
         /\ Becomes(k, state).state = [guest.state EXCEPT ![k] = state]
         /\ Becomes(k, state).active = guest.active /\ Becomes(k, state).inactive = guest.inactive
         /\ Becomes(k, state).work = guest.work /\ Becomes(k, state).otherWork = guest.otherWork
         /\ Becomes(k, state).port = guest.port /\ Becomes(k, state).object = guest.object
         /\ Becomes(k, state).present = guest.present
         /\ Becomes(k, state).reaction = guest.reaction
         /\ Becomes(k, state).rect = guest.rect /\ Becomes(k, state).group = guest.group
<1>1. Becomes(k, state) \in Guests
  BY DEF Becomes, Guests
<1> QED BY <1>1 DEF Becomes, Guests

\* A Kong that is neither below nor in the air changes its state, and words
\* the hands do not depend on change with it.
LEMMA BecomesKeeps ==
  ASSUME CoopInv, NEW k \in Kongs, NEW state \in Actions, state # "leap",
         guest.state[k] # "wait" \/ guest.object \notin Kongs,
         NEW g \in Guests, Cartridge(g),
         g.state = [guest.state EXCEPT ![k] = state],
         g.active = guest.active, g.inactive = guest.inactive,
         g.work = guest.work, g.otherWork = guest.otherWork, g.port = guest.port,
         g.object = guest.object, g.present = guest.present \/ g.present = TRUE,
         g.reaction = guest.reaction, g.rect = guest.rect, g.group = guest.group,
         UNCHANGED <<gone, holder>>
  PROVE  CoopInv'
<1>1. guest \in Guests /\ Paired(guest) /\ HandsOpen(guest)
  BY RecordsTyped
<1>2. Paired(g)
  BY <1>1 DEF Paired
<1>3. ASSUME NEW j \in Kongs, g.state[j] = "leap" PROVE guest.state[j] = "leap"
  BY <1>1, <1>3 DEF Guests
<1>4. ASSUME NEW j \in Kongs, guest.state[j] = "wait", InTheAir(guest, Other(j))
      PROVE  g.state[j] = "wait"
  <2>1. guest.object \in Kongs
    BY <1>4, TwoKongs DEF InTheAir
  <2>2. j # k
    BY <1>4, <2>1
  <2> QED BY <1>1, <1>4, <2>2 DEF Guests
<1>5. HandsOpen(g)
  BY <1>1, <1>3, <1>4, HandsStay
<1> QED BY <1>2, <1>5, RecordsTyped, CartridgeKeeps

\* A step after which no Kong is in the air.
LEMMA OnTheGround ==
  ASSUME CoopInv, NEW g \in Guests, Paired(g), Cartridge(g),
         \A j \in Kongs : g.state[j] # "leap",
         g.rect = guest.rect, g.group = guest.group,
         gone' \subseteq Kongs, holder' \in Kongs \cup {None}
  PROVE  CoopInv'
<1>1. HandsOpen(g)
  BY DEF HandsOpen
<1> QED BY <1>1, CartridgeKeeps

LEMMA HurtKeeps ==
  ASSUME CoopInv, NEW k \in Kongs, Hurt(k)
  PROVE  CoopInv'
<1> DEFINE b == Becomes(k, "hurt")
           object == IF b.object \in Kongs \/ (b.object = "item" /\ holder = k)
                     THEN None ELSE b.object
           other == IF b.state[Other(k)] = "carried" THEN "thrown" ELSE b.state[Other(k)]
           g == [b EXCEPT !.object = object, !.state[Other(k)] = other]
<1>1. guest \in Guests /\ Paired(guest) /\ HandsOpen(guest)
  BY RecordsTyped
<1>2. /\ Cartridge(g) /\ gone' = gone \cup {k} /\ holder' = (IF holder = k THEN None ELSE holder)
      /\ guest.state[k] \in {"idle", "carry", "follow"}
  BY DEF Hurt
<1>3. \A j \in Kongs : guest.state[j] # "leap"
  BY <1>1, <1>2, NoneInTheAir
<1>4. /\ b \in Guests /\ b.state = [guest.state EXCEPT ![k] = "hurt"]
      /\ b.active = guest.active /\ b.inactive = guest.inactive
      /\ b.work = guest.work /\ b.otherWork = guest.otherWork /\ b.port = guest.port
      /\ b.rect = guest.rect /\ b.group = guest.group
  BY <1>1, BecomesIs DEF Actions
<1> HIDE DEF b
<1>5. Other(k) \in Kongs /\ Other(k) # k
  BY TwoKongs
<1>6. object \in Kongs \cup {"item", None} /\ other \in Actions /\ other # "leap"
  <2>1. b.object \in Kongs \cup {"item", None} /\ b.state[Other(k)] \in Actions
    BY <1>4, <1>5 DEF Guests
  <2>2. b.state[Other(k)] # "leap"
    BY <1>1, <1>3, <1>4, <1>5 DEF Guests
  <2> QED BY <2>1, <2>2 DEF Actions
<1> HIDE DEF object, other
<1>7. g \in Guests
  BY <1>4, <1>5, <1>6 DEF Guests
<1>8. /\ g.active = b.active /\ g.inactive = b.inactive /\ g.work = b.work
      /\ g.otherWork = b.otherWork /\ g.port = b.port /\ g.rect = b.rect /\ g.group = b.group
      /\ g.state = [b.state EXCEPT ![Other(k)] = other]
  BY <1>4, <1>7 DEF Guests
<1> HIDE DEF g
<1>9. \A j \in Kongs : g.state[j] # "leap"
  BY <1>1, <1>3, <1>4, <1>6, <1>8 DEF Guests
<1>10. Paired(g) /\ g.rect = guest.rect /\ g.group = guest.group
  BY <1>1, <1>4, <1>8 DEF Paired
<1>11. gone' \subseteq Kongs /\ holder' \in Kongs \cup {None}
  BY <1>2, RecordsTyped
<1> QED BY <1>2, <1>7, <1>9, <1>10, <1>11, OnTheGround

LEMMA RescueKeeps ==
  ASSUME CoopInv, NEW k \in Kongs, Rescue(k)
  PROVE  CoopInv'
<1> DEFINE b == Becomes(k, "rescued")
           g == [b EXCEPT !.present = TRUE]
<1>1. guest \in Guests /\ Paired(guest) /\ HandsOpen(guest) /\ ~guest.present
  BY RecordsTyped DEF Rescue
<1>2. Cartridge(g) /\ gone' \subseteq Kongs /\ holder' \in Kongs \cup {None}
  BY RecordsTyped DEF Rescue
<1>3. \A j \in Kongs : guest.state[j] # "leap"
  BY <1>1, NoneInTheAir
<1>4. /\ b \in Guests /\ b.state = [guest.state EXCEPT ![k] = "rescued"]
      /\ b.active = guest.active /\ b.inactive = guest.inactive
      /\ b.work = guest.work /\ b.otherWork = guest.otherWork /\ b.port = guest.port
      /\ b.rect = guest.rect /\ b.group = guest.group
  BY <1>1, BecomesIs DEF Actions
<1> HIDE DEF b
<1>5. /\ g \in Guests /\ g.active = b.active /\ g.inactive = b.inactive /\ g.work = b.work
      /\ g.otherWork = b.otherWork /\ g.port = b.port /\ g.rect = b.rect /\ g.group = b.group
      /\ g.state = b.state
  BY <1>4 DEF Guests
<1> HIDE DEF g
<1>6. \A j \in Kongs : g.state[j] # "leap"
  BY <1>1, <1>3, <1>4, <1>5 DEF Guests
<1>7. Paired(g) /\ g.rect = guest.rect /\ g.group = guest.group
  BY <1>1, <1>4, <1>5 DEF Paired
<1> QED BY <1>2, <1>5, <1>6, <1>7, OnTheGround

LEMMA SetActiveIs ==
  ASSUME NEW g \in Guests, NEW k \in Kongs
  PROVE  /\ SetActive(g, k) \in Guests /\ Paired(SetActive(g, k))
         /\ SetActive(g, k).state = g.state /\ SetActive(g, k).rect = g.rect
         /\ SetActive(g, k).group = g.group
<1> DEFINE h == SetActive(g, k)
<1>1. Other(k) \in Kongs /\ Port(k) \in {1, 2}
  BY TwoKongs
<1>2. h \in Guests
  BY <1>1 DEF SetActive, Guests
<1>3. /\ h.active = k /\ h.inactive = Other(k) /\ h.work = k /\ h.otherWork = Other(k)
      /\ h.port = Port(k) /\ h.state = g.state /\ h.rect = g.rect /\ h.group = g.group
  BY <1>2 DEF SetActive, Guests
<1> HIDE DEF h
<1>4. h \in Guests /\ Paired(h) /\ h.state = g.state /\ h.rect = g.rect /\ h.group = g.group
  BY <1>2, <1>3 DEF Paired
<1> QED BY <1>4 DEF h

LEMMA LeavesKeeps ==
  ASSUME CoopInv, NEW k \in Kongs, Leaves(k)
  PROVE  CoopInv'
<1> DEFINE b == Becomes(k, "wait")
           a == SetActive(b, Other(k))
           prompt == "swap" \in guest.scenes
           other == IF "swap" \in guest.scenes /\ a.state[Other(k)] = "idle"
                    THEN "turn" ELSE a.state[Other(k)]
           due == a.due \cup (IF "swap" \in guest.scenes /\ guest.state[Other(k)] = "idle"
                              THEN {k, Other(k)} ELSE {k})
           g == [a EXCEPT !.present = FALSE, !.mask[k] = 0, !.prompt = prompt,
                          !.state[Other(k)] = other, !.due = due]
<1>1. guest \in Guests /\ Paired(guest) /\ HandsOpen(guest)
  BY RecordsTyped
<1>2. Cartridge(g) /\ gone' = gone /\ holder' = holder /\ guest.state[k] = "hurt"
  BY DEF Leaves, Now
<1>3. \A j \in Kongs : guest.state[j] # "leap"
  BY <1>1, <1>2, NoneInTheAir
<1>4. /\ b \in Guests /\ b.state = [guest.state EXCEPT ![k] = "wait"]
      /\ b.rect = guest.rect /\ b.group = guest.group
  BY <1>1, BecomesIs DEF Actions
<1> HIDE DEF b
<1>5. Other(k) \in Kongs
  BY TwoKongs
<1>6. /\ a \in Guests /\ Paired(a) /\ a.state = b.state /\ a.rect = b.rect /\ a.group = b.group
  BY <1>4, <1>5, SetActiveIs
<1> HIDE DEF a
<1>7. \A j \in Kongs : a.state[j] # "leap"
  BY <1>1, <1>3, <1>4, <1>6 DEF Guests
<1>8. other \in Actions /\ other # "leap" /\ due \subseteq Kongs /\ prompt \in BOOLEAN
  <2>1. a.state[Other(k)] \in Actions /\ a.due \subseteq Kongs
    BY <1>5, <1>6 DEF Guests
  <2> QED BY <1>5, <1>7, <2>1 DEF Actions
<1> HIDE DEF other, due, prompt
<1>9. g \in Guests
  BY <1>5, <1>6, <1>8 DEF Guests
<1>10. /\ g.active = a.active /\ g.inactive = a.inactive /\ g.work = a.work
       /\ g.otherWork = a.otherWork /\ g.port = a.port /\ g.rect = a.rect /\ g.group = a.group
       /\ g.state = [a.state EXCEPT ![Other(k)] = other]
  BY <1>6, <1>9 DEF Guests
<1> HIDE DEF g
<1>11. \A j \in Kongs : g.state[j] # "leap"
  BY <1>6, <1>7, <1>8, <1>10 DEF Guests
<1>12. Paired(g) /\ g.rect = guest.rect /\ g.group = guest.group
  BY <1>4, <1>6, <1>10 DEF Paired
<1>13. gone' \subseteq Kongs /\ holder' \in Kongs \cup {None}
  BY <1>2, RecordsTyped
<1> QED BY <1>2, <1>9, <1>11, <1>12, <1>13, OnTheGround

LEMMA ItemKeeps ==
  ASSUME CoopInv, NEW k \in Kongs, Item(k)
  PROVE  CoopInv'
<1>1. guest \in Guests /\ Paired(guest) /\ HandsOpen(guest) /\ guest.object \notin Kongs
  BY RecordsTyped, CoopAssumption DEF Item
<1>2. \A j \in Kongs : guest.state[j] # "leap"
  BY <1>1, NoneInTheAir
<1>3. CASE Now(k, "idle") /\ Cartridge(Becomes(k, "carry")) /\ UNCHANGED holder
  <2>1. /\ Becomes(k, "carry") \in Guests
        /\ Becomes(k, "carry").state = [guest.state EXCEPT ![k] = "carry"]
        /\ Paired(Becomes(k, "carry"))
        /\ Becomes(k, "carry").rect = guest.rect /\ Becomes(k, "carry").group = guest.group
    BY <1>1, BecomesIs DEF Actions, Paired
  <2>2. \A j \in Kongs : Becomes(k, "carry").state[j] # "leap"
    BY <1>1, <1>2, <2>1 DEF Guests
  <2>3. gone' \subseteq Kongs /\ holder' \in Kongs \cup {None}
    BY <1>3, RecordsTyped DEF Item
  <2> QED BY <1>3, <2>1, <2>2, <2>3, OnTheGround
<1>4. ASSUME NEW id \in {1, 2}, holder' = None,
             Cartridge([Becomes(k, "idle") EXCEPT !.object = None, !.id = id])
      PROVE  CoopInv'
  <2> DEFINE b == Becomes(k, "idle")
             g == [b EXCEPT !.object = None, !.id = id]
  <2>1. /\ b \in Guests /\ b.state = [guest.state EXCEPT ![k] = "idle"] /\ Paired(b)
        /\ b.rect = guest.rect /\ b.group = guest.group
    BY <1>1, BecomesIs DEF Actions, Paired
  <2>2. Cartridge(g)
    BY <1>4
  <2> HIDE DEF b
  <2>3. /\ g \in Guests /\ g.active = b.active /\ g.inactive = b.inactive /\ g.work = b.work
        /\ g.otherWork = b.otherWork /\ g.port = b.port /\ g.rect = b.rect /\ g.group = b.group
        /\ g.state = b.state
    BY <2>1 DEF Guests
  <2> HIDE DEF g
  <2>4. \A j \in Kongs : g.state[j] # "leap"
    BY <1>1, <1>2, <2>1, <2>3 DEF Guests
  <2>5. Paired(g) /\ g.rect = guest.rect /\ g.group = guest.group
    BY <2>1, <2>3 DEF Paired
  <2>6. gone' \subseteq Kongs /\ holder' \in Kongs \cup {None}
    BY <1>4, RecordsTyped DEF Item
  <2> QED BY <2>2, <2>3, <2>4, <2>5, <2>6, OnTheGround
<1> QED BY <1>3, <1>4 DEF Item

LEMMA DismountKeeps ==
  ASSUME CoopInv, Dismount
  PROVE  CoopInv'
<1> DEFINE g == [guest EXCEPT !.riding = FALSE]
<1>1. guest \in Guests /\ Paired(guest) /\ HandsOpen(guest)
  BY RecordsTyped
<1>2. Cartridge(g) /\ gone' \subseteq Kongs /\ holder' \in Kongs \cup {None}
  BY RecordsTyped DEF Dismount
<1>3. /\ g \in Guests /\ g.active = guest.active /\ g.inactive = guest.inactive
      /\ g.work = guest.work /\ g.otherWork = guest.otherWork /\ g.port = guest.port
      /\ g.state = guest.state /\ g.object = guest.object /\ g.present = guest.present
      /\ g.reaction = guest.reaction /\ g.rect = guest.rect /\ g.group = guest.group
  BY <1>1 DEF Guests
<1> HIDE DEF g
<1>4. HandsOpen(g)
  BY <1>1, <1>3, HandsStay
<1>5. Paired(g)
  BY <1>1, <1>3 DEF Paired
<1> QED BY <1>2, <1>3, <1>4, <1>5, CartridgeKeeps

LEMMA SwapKeeps ==
  ASSUME CoopInv, Swap
  PROVE  CoopInv'
<1> DEFINE a == SetActive(guest, guest.inactive)
           states == [k \in Kongs |-> IF k = guest.inactive THEN "idle" ELSE "follow"]
           masks == [k \in Kongs |-> IF k = guest.inactive THEN 30 ELSE 6]
           back == {guest.active}
           g == [a EXCEPT !.state = states, !.mask = masks, !.back = back, !.due = Kongs]
<1>1. guest \in Guests /\ guest.inactive \in Kongs /\ guest.active \in Kongs
  BY RecordsTyped DEF Guests
<1>2. Cartridge(g) /\ gone' \subseteq Kongs /\ holder' \in Kongs \cup {None}
  BY RecordsTyped DEF Swap
<1>3. a \in Guests /\ Paired(a) /\ a.rect = guest.rect /\ a.group = guest.group
  BY <1>1, SetActiveIs
<1> HIDE DEF a
<1>4. /\ states \in [Kongs -> Actions] /\ masks \in [Kongs -> {0, 6, 24, 30}]
      /\ \A j \in Kongs : states[j] # "leap"
  BY DEF Actions
<1>5. back \subseteq Kongs
  BY <1>1
<1> HIDE DEF states, masks, back
<1>6. /\ g \in Guests /\ g.active = a.active /\ g.inactive = a.inactive /\ g.work = a.work
      /\ g.otherWork = a.otherWork /\ g.port = a.port /\ g.rect = a.rect /\ g.group = a.group
      /\ g.state = states
  BY <1>3, <1>4, <1>5 DEF Guests
<1> HIDE DEF g
<1>7. Paired(g) /\ \A j \in Kongs : g.state[j] # "leap"
  BY <1>3, <1>4, <1>6 DEF Paired
<1>8. g.rect = guest.rect /\ g.group = guest.group
  BY <1>3, <1>6
<1> QED BY <1>2, <1>6, <1>7, <1>8, OnTheGround

LEMMA PlaysKeeps ==
  ASSUME CoopInv, NEW k \in Kongs, Plays(k)
  PROVE  CoopInv'
<1>1. guest \in Guests /\ Paired(guest) /\ HandsOpen(guest)
  BY RecordsTyped
<1>2. UNCHANGED <<gone, holder>> /\ gone' \subseteq Kongs /\ holder' \in Kongs \cup {None}
  BY RecordsTyped DEF Plays
<1>3. ASSUME NEW state \in Actions, state # "leap", Cartridge(Becomes(k, state)),
             guest.state[k] # "wait"
      PROVE  CoopInv'
  BY <1>1, <1>2, <1>3, BecomesIs, BecomesKeeps
<1>4. CASE Now(k, "rescued") /\ Cartridge(Becomes(k, "follow"))
  BY <1>3, <1>4 DEF Now, Actions
<1>5. CASE /\ Now(k, "wait") /\ guest.object = None
           /\ Cartridge([Becomes(k, "follow") EXCEPT !.present = TRUE])
  <2> DEFINE b == Becomes(k, "follow")
             g == [b EXCEPT !.present = TRUE]
  <2>1. /\ b \in Guests /\ b.state = [guest.state EXCEPT ![k] = "follow"]
        /\ b.active = guest.active /\ b.inactive = guest.inactive
        /\ b.work = guest.work /\ b.otherWork = guest.otherWork /\ b.port = guest.port
        /\ b.object = guest.object /\ b.reaction = guest.reaction
        /\ b.rect = guest.rect /\ b.group = guest.group
    BY <1>1, BecomesIs DEF Actions
  <2>2. Cartridge(g) /\ guest.object \notin Kongs
    BY <1>5, CoopAssumption
  <2> HIDE DEF b
  <2>3. /\ g \in Guests /\ g.state = b.state /\ g.active = b.active /\ g.inactive = b.inactive
        /\ g.work = b.work /\ g.otherWork = b.otherWork /\ g.port = b.port
        /\ g.object = b.object /\ g.present = TRUE /\ g.reaction = b.reaction
        /\ g.rect = b.rect /\ g.group = b.group
    BY <2>1 DEF Guests
  <2> HIDE DEF g
  <2>4. "follow" \in Actions /\ "follow" # "leap"
    BY DEF Actions
  <2>5. /\ g \in Guests /\ g.state = [guest.state EXCEPT ![k] = "follow"]
        /\ g.active = guest.active /\ g.inactive = guest.inactive
        /\ g.work = guest.work /\ g.otherWork = guest.otherWork /\ g.port = guest.port
        /\ g.object = guest.object /\ g.reaction = guest.reaction
        /\ g.rect = guest.rect /\ g.group = guest.group
        /\ (g.present = guest.present \/ g.present = TRUE)
    BY <2>1, <2>3
  <2> QED BY <1>2, <2>2, <2>4, <2>5, BecomesKeeps
<1>6. CASE /\ guest.state[k] \in {"idle", "carry"}
           /\ Cartridge([Becomes(k, "follow") EXCEPT !.mask[k] = 6])
  <2> DEFINE b == Becomes(k, "follow")
             g == [b EXCEPT !.mask[k] = 6]
  <2>1. /\ b \in Guests /\ b.state = [guest.state EXCEPT ![k] = "follow"]
        /\ b.active = guest.active /\ b.inactive = guest.inactive
        /\ b.work = guest.work /\ b.otherWork = guest.otherWork /\ b.port = guest.port
        /\ b.object = guest.object /\ b.present = guest.present /\ b.reaction = guest.reaction
        /\ b.rect = guest.rect /\ b.group = guest.group
    BY <1>1, BecomesIs DEF Actions
  <2>2. Cartridge(g) /\ guest.state[k] # "wait"
    BY <1>6
  <2> HIDE DEF b
  <2>3. /\ g \in Guests /\ g.state = b.state /\ g.active = b.active /\ g.inactive = b.inactive
        /\ g.work = b.work /\ g.otherWork = b.otherWork /\ g.port = b.port
        /\ g.object = b.object /\ g.present = b.present /\ g.reaction = b.reaction
        /\ g.rect = b.rect /\ g.group = b.group
    BY <2>1 DEF Guests
  <2> HIDE DEF g
  <2>4. "follow" \in Actions /\ "follow" # "leap"
    BY DEF Actions
  <2>5. /\ g \in Guests /\ g.state = [guest.state EXCEPT ![k] = "follow"]
        /\ g.active = guest.active /\ g.inactive = guest.inactive
        /\ g.work = guest.work /\ g.otherWork = guest.otherWork /\ g.port = guest.port
        /\ g.object = guest.object /\ g.reaction = guest.reaction
        /\ g.rect = guest.rect /\ g.group = guest.group
        /\ (g.present = guest.present \/ g.present = TRUE)
    BY <2>1, <2>3
  <2> QED BY <1>2, <2>2, <2>4, <2>5, BecomesKeeps
<1>7. CASE Now(k, "jump") /\ Cartridge(Becomes(k, "idle"))
  BY <1>3, <1>7 DEF Now, Actions
<1>8. CASE Cartridge([Becomes(k, "carry") EXCEPT !.due = Kongs, !.state[Other(k)] = "carried"])
  <2> DEFINE b == Becomes(k, "carry")
             g == [b EXCEPT !.due = Kongs, !.state[Other(k)] = "carried"]
  <2>1. /\ b \in Guests /\ b.state = [guest.state EXCEPT ![k] = "carry"] /\ Paired(b)
        /\ b.rect = guest.rect /\ b.group = guest.group
    BY <1>1, BecomesIs DEF Actions, Paired
  <2>2. Cartridge(g) /\ Other(k) \in Kongs
    BY <1>8, TwoKongs
  <2> HIDE DEF b
  <2>3. g \in Guests
    BY <2>1, <2>2 DEF Guests, Actions
  <2>4. /\ g.active = b.active /\ g.inactive = b.inactive /\ g.work = b.work
        /\ g.otherWork = b.otherWork /\ g.port = b.port /\ g.rect = b.rect /\ g.group = b.group
        /\ g.state = [b.state EXCEPT ![Other(k)] = "carried"]
    BY <2>1 DEF Guests
  <2> HIDE DEF g
  <2>5. \A j \in Kongs : g.state[j] # "leap"
    BY <1>1, <2>1, <2>4, TwoKongs DEF Guests
  <2>6. Paired(g) /\ g.rect = guest.rect /\ g.group = guest.group
    BY <2>1, <2>4 DEF Paired
  <2> QED BY <1>2, <2>2, <2>3, <2>5, <2>6, OnTheGround
<1>9. CASE Cartridge([Becomes(k, "idle") EXCEPT !.object = None, !.due = Kongs,
                                                !.state[Other(k)] = "thrown"])
  <2> DEFINE b == Becomes(k, "idle")
             g == [b EXCEPT !.object = None, !.due = Kongs, !.state[Other(k)] = "thrown"]
  <2>1. /\ b \in Guests /\ b.state = [guest.state EXCEPT ![k] = "idle"] /\ Paired(b)
        /\ b.rect = guest.rect /\ b.group = guest.group
    BY <1>1, BecomesIs DEF Actions, Paired
  <2>2. Cartridge(g) /\ Other(k) \in Kongs
    BY <1>9, TwoKongs
  <2> HIDE DEF b
  <2>3. g \in Guests
    BY <2>1, <2>2 DEF Guests, Actions
  <2>4. /\ g.active = b.active /\ g.inactive = b.inactive /\ g.work = b.work
        /\ g.otherWork = b.otherWork /\ g.port = b.port /\ g.rect = b.rect /\ g.group = b.group
        /\ g.state = [b.state EXCEPT ![Other(k)] = "thrown"]
    BY <2>1 DEF Guests
  <2> HIDE DEF g
  <2>5. \A j \in Kongs : g.state[j] # "leap"
    BY <1>1, <2>1, <2>4, TwoKongs DEF Guests
  <2>6. Paired(g) /\ g.rect = guest.rect /\ g.group = guest.group
    BY <2>1, <2>4 DEF Paired
  <2> QED BY <1>2, <2>2, <2>3, <2>5, <2>6, OnTheGround
<1>10. CASE Now(k, "thrown") /\ Cartridge(Becomes(k, "follow"))
  BY <1>3, <1>10 DEF Now, Actions
<1>11. ASSUME Now(k, "idle"), NEW p \in SUBSET {k},
              Cartridge([Becomes(k, "rope") EXCEPT !.parked = @ \cup p])
       PROVE  CoopInv'
  <2> DEFINE b == Becomes(k, "rope")
             parked == b.parked \cup p
             g == [b EXCEPT !.parked = parked]
  <2>1. /\ b \in Guests /\ b.state = [guest.state EXCEPT ![k] = "rope"]
        /\ b.active = guest.active /\ b.inactive = guest.inactive
        /\ b.work = guest.work /\ b.otherWork = guest.otherWork /\ b.port = guest.port
        /\ b.object = guest.object /\ b.present = guest.present /\ b.reaction = guest.reaction
        /\ b.rect = guest.rect /\ b.group = guest.group
    BY <1>1, BecomesIs DEF Actions
  <2>2. Cartridge(g) /\ guest.state[k] # "wait"
    BY <1>11 DEF Now
  <2> HIDE DEF b
  <2>3. parked \subseteq Kongs
    BY <2>1 DEF Guests
  <2> HIDE DEF parked
  <2>4. /\ g \in Guests /\ g.state = b.state /\ g.active = b.active /\ g.inactive = b.inactive
        /\ g.work = b.work /\ g.otherWork = b.otherWork /\ g.port = b.port
        /\ g.object = b.object /\ g.present = b.present /\ g.reaction = b.reaction
        /\ g.rect = b.rect /\ g.group = b.group
    BY <2>1, <2>3 DEF Guests
  <2> HIDE DEF g
  <2>5. "rope" \in Actions /\ "rope" # "leap"
    BY DEF Actions
  <2>6. /\ g \in Guests /\ g.state = [guest.state EXCEPT ![k] = "rope"]
        /\ g.active = guest.active /\ g.inactive = guest.inactive
        /\ g.work = guest.work /\ g.otherWork = guest.otherWork /\ g.port = guest.port
        /\ g.object = guest.object /\ g.reaction = guest.reaction
        /\ g.rect = guest.rect /\ g.group = guest.group
        /\ (g.present = guest.present \/ g.present = TRUE)
    BY <2>1, <2>4
  <2> QED BY <1>2, <2>2, <2>5, <2>6, BecomesKeeps
<1>12. CASE Now(k, "rope") /\ Cartridge(Becomes(k, "idle"))
  BY <1>3, <1>12 DEF Now, Actions
<1> QED BY <1>4, <1>5, <1>6, <1>7, <1>8, <1>9, <1>10, <1>11, <1>12 DEF Plays

-----------------------------------------------------------------------------
LEMMA CoopStarts == Init => CoopInv
<1> SUFFICES ASSUME Init PROVE CoopInv
  OBVIOUS
<1> DEFINE states == [k \in Kongs |-> IF k = A THEN "idle" ELSE "wait"]
           masks == [k \in Kongs |-> IF k = A THEN 30 ELSE 0]
<1>1. PICK game \in Games :
        /\ mode \in {"simultaneous", "classic"}
        /\ lost = {} /\ stomp = None /\ mount = None /\ pickup = None
        /\ pass = FALSE /\ kept = "animal" /\ events = {}
        /\ guest = [scenes |-> game, active |-> A, inactive |-> B, work |-> A, otherWork |-> B,
                    port |-> 1, state |-> states, due |-> Kongs, mask |-> masks,
                    back |-> {B}, present |-> FALSE, prompt |-> FALSE, parked |-> {},
                    object |-> None, id |-> 1, reaction |-> None, source |-> None,
                    riding |-> FALSE, rect |-> "animal", group |-> FALSE]
        /\ saved = None /\ saves = 0
        /\ gone = {} /\ holder = None /\ struck = NoStrike
  BY DEF Init
<1>2. /\ states \in [Kongs -> Actions] /\ masks \in [Kongs -> {0, 6, 24, 30}]
      /\ \A j \in Kongs : states[j] # "leap"
  BY DEF Actions
<1> HIDE DEF states, masks
<1>3. A \in Kongs /\ B \in Kongs /\ B = Other(A) /\ Port(A) = 1
  BY CoopAssumption DEF Kongs, Other, Port
<1>4. guest \in Guests
  BY <1>1, <1>2, <1>3 DEF Guests
<1>5. Paired(guest) /\ HandsOpen(guest)
  BY <1>1, <1>2, <1>3 DEF Paired, HandsOpen
<1>6. saves \in 0 .. MaxSaves
  BY <1>1, CoopAssumption
<1>7. TypeOK
  <2>1. NoStrike \in Strikes
    BY DEF NoStrike, Strikes
  <2> QED BY <1>1, <1>4, <1>6, <2>1 DEF TypeOK
<1>8. RectKept /\ SavedOK
  BY <1>1 DEF RectKept, SavedOK
<1> QED BY <1>4, <1>5, <1>7, <1>8 DEF CoopInv, GuestOK

LEMMA CoopSteps == CoopInv /\ [Next]_vars => CoopInv'
<1> SUFFICES ASSUME CoopInv, [Next]_vars PROVE CoopInv'
  OBVIOUS
<1>1. CASE UNCHANGED vars
  <2>1. /\ guest' = guest
        /\ UNCHANGED <<mode, lost, stomp, mount, pickup, pass, kept, events, saved, saves,
                       gone, holder, struck>>
    BY <1>1 DEF vars, records, history
  <2> QED BY <2>1, RecordsTyped, WordsKeep
<1>2. ASSUME NEW k \in Kongs,
             \/ \E hold, grounded \in BOOLEAN : Dispatch(k, hold, grounded)
             \/ PickUp(k) \/ TeamUp(k)
             \/ \E kind \in {"stomp", "mount"} : Accept(kind, k)
             \/ Hurt(k) \/ Leaves(k) \/ Rescue(k) \/ Plays(k) \/ Item(k)
      PROVE  CoopInv'
  BY <1>2, DispatchKeeps, PickUpKeeps, TeamUpKeeps, AcceptKeeps, HurtKeeps, LeavesKeeps,
     RescueKeeps, PlaysKeeps, ItemKeeps
<1>3. CASE \/ Stomp \/ Mount \/ TakeStompEvents
           \/ BananaSecondWidth \/ BananaNextPass
           \/ SetMode \/ Save \/ (\E recorded \in BOOLEAN : Load(recorded))
           \/ Dismount \/ Swap
  BY <1>3, StompKeeps, MountKeeps, TakeStompEventsKeeps, BananaSecondWidthKeeps,
     BananaNextPassKeeps, SetModeKeeps, SaveKeeps, LoadKeeps, DismountKeeps, SwapKeeps
<1> QED BY <1>1, <1>2, <1>3 DEF Next

\* The inductive invariant, in every game.
THEOREM CoopHolds == Spec => []CoopInv
BY CoopStarts, CoopSteps, PTL DEF Spec

\* The words of the cartridge and of the policy stay in their ranges.
THEOREM CoopTypeCorrect == Spec => []TypeOK
<1>1. CoopInv => TypeOK
  BY DEF CoopInv
<1> QED BY <1>1, CoopHolds, PTL

\* The leader, the follower, their work areas and the leader's controller go
\* together over every handoff of dkc2_coop.c and of the cartridge, and over
\* every load.
THEOREM SelectorsStayPaired == Spec => []SelectorsPaired
<1>1. CoopInv => SelectorsPaired
  BY DEF CoopInv, GuestOK, Paired, SelectorsPaired
<1> QED BY <1>1, CoopHolds, PTL

\* The Kong its partner is jumping to keeps waiting: Dkc2CoopSelectStateWord
\* gives it no control, and nothing else moves it.
THEOREM HandsAlwaysOpen == Spec => []HandsStayOpen
<1>1. CoopInv => HandsStayOpen
  BY DEF CoopInv, GuestOK, HandsOpen, InTheAir, HandsStayOpen
<1> QED BY <1>1, CoopHolds, PTL

\* Whenever no banana group is being walked the animal has its own rectangle,
\* also after a change of the policy or a load.
THEOREM RectIsRestored == Spec => []RectRestored
<1>1. CoopInv => RectRestored
  BY DEF CoopInv, RectKept, RectRestored
<1> QED BY <1>1, CoopHolds, PTL

-----------------------------------------------------------------------------
(* Reactions.  The policy has a record only of the reaction that is queued, *)
(* and only while it knows the Kong: the record names that Kong and the     *)
(* sprite it collided with.  The next collision replaces it; a choice of    *)
(* the policy and a load erase it, though the reaction stays queued.        *)

ReactionOK ==
  /\ stomp # None => struck.known /\ guest.reaction = "stomp"
  /\ mount # None => struck.known /\ guest.reaction = "mount"
  /\ struck.known =>
       /\ Sim /\ struck.kong \in Kongs
       /\ guest.reaction = "stomp" =>
            stomp = [source |-> "enemy", kong |-> struck.kong] /\ guest.source = "enemy"
       /\ guest.reaction = "mount" =>
            /\ mount = [source |-> "animal", kong |-> struck.kong]
            /\ guest.source = "animal" /\ guest.riding = FALSE

LEMMA ReactionStays ==
  ASSUME ReactionOK, guest'.reaction = guest.reaction, guest'.source = guest.source,
         guest'.riding = guest.riding \/ guest'.riding = FALSE,
         UNCHANGED <<mode, stomp, mount, struck>>
  PROVE  ReactionOK'
BY DEF ReactionOK, Sim

\* Words of the cartridge that change no reaction.
LEMMA ReactionWords ==
  ASSUME CoopInv, ReactionOK, NEW k \in Kongs,
         \/ Hurt(k) \/ Leaves(k) \/ Rescue(k) \/ Plays(k) \/ Item(k) \/ Dismount \/ Swap
  PROVE  ReactionOK'
<1>1. guest \in Guests
  BY RecordsTyped
<1>2. UNCHANGED <<mode, stomp, mount, struck>>
  BY DEF Hurt, Leaves, Rescue, Plays, Item, Dismount, Swap, Cartridge, records
<1>3. SUFFICES /\ guest'.reaction = guest.reaction /\ guest'.source = guest.source
               /\ guest'.riding = guest.riding \/ guest'.riding = FALSE
  BY <1>2, ReactionStays
<1>4. CASE Hurt(k)
  BY <1>1, <1>4 DEF Hurt, Cartridge, Becomes, Guests
<1>5. CASE Leaves(k)
  BY <1>1, <1>5 DEF Leaves, Cartridge, SetActive, Becomes, Guests
<1>6. CASE Rescue(k)
  BY <1>1, <1>6 DEF Rescue, Cartridge, Becomes, Guests
<1>7. CASE Plays(k)
  BY <1>1, <1>7 DEF Plays, Cartridge, Becomes, Guests
<1>8. CASE Item(k)
  BY <1>1, <1>8 DEF Item, Cartridge, Becomes, Guests
<1>9. CASE Dismount
  BY <1>1, <1>9 DEF Dismount, Cartridge, Guests
<1>10. CASE Swap
  BY <1>1, <1>10 DEF Swap, Cartridge, SetActive, Guests
<1> QED BY <1>4, <1>5, <1>6, <1>7, <1>8, <1>9, <1>10

\* Steps of the policy that leave the reaction and its records as they are.
LEMMA ReactionPolicy ==
  ASSUME CoopInv, ReactionOK, NEW k \in Kongs,
         \/ \E hold, grounded \in BOOLEAN : Dispatch(k, hold, grounded)
         \/ PickUp(k) \/ TeamUp(k) \/ TakeStompEvents \/ BananaSecondWidth \/ BananaNextPass \/ Save
  PROVE  ReactionOK'
<1>1. guest \in Guests /\ Paired(guest)
  BY RecordsTyped
<1>2. UNCHANGED <<mode, stomp, mount, struck>>
  BY DEF Dispatch, PickUp, TeamUp, TakeStompEvents, BananaSecondWidth, BananaNextPass, Save,
         records, history
<1> SUFFICES /\ guest'.reaction = guest.reaction /\ guest'.source = guest.source
             /\ guest'.riding = guest.riding
  BY <1>2, ReactionStays
<1>3. ASSUME NEW hold \in BOOLEAN, NEW grounded \in BOOLEAN, Dispatch(k, hold, grounded)
      PROVE  /\ guest'.reaction = guest.reaction /\ guest'.source = guest.source
             /\ guest'.riding = guest.riding
  BY <1>1, <1>3 DEF Dispatch, Joined, Guests
<1>4. CASE PickUp(k)
  BY <1>1, <1>4 DEF PickUp, Guests
<1>5. CASE TeamUp(k)
  BY <1>1, <1>5 DEF TeamUp, Led, Guests
<1>6. CASE TakeStompEvents \/ Save
  BY <1>6 DEF TakeStompEvents, Save
<1>7. CASE BananaSecondWidth
  BY <1>1, <1>7 DEF BananaSecondWidth, Guests
<1>8. CASE BananaNextPass
  BY <1>1, <1>8 DEF BananaNextPass, Guests
<1> QED BY <1>3, <1>4, <1>5, <1>6, <1>7, <1>8

LEMMA ReactionSteps ==
  ASSUME CoopInv, ReactionOK, [Next]_vars
  PROVE  ReactionOK'
<1>1. guest \in Guests /\ A \in Kongs
  BY RecordsTyped DEF Kongs
<1>2. CASE UNCHANGED vars
  BY <1>2, ReactionStays DEF vars, records, history
<1>3. ASSUME NEW k \in Kongs, NEW kind \in {"stomp", "mount"}, Accept(kind, k) PROVE ReactionOK'
  <2>1. /\ guest'.reaction = kind
        /\ guest'.source = (IF kind = "stomp" THEN "enemy" ELSE "animal")
        /\ guest'.riding = guest.riding /\ (kind = "mount" => guest.riding = FALSE)
    BY <1>1, <1>3 DEF Accept, Guests
  <2>2. /\ mode' = mode
        /\ struck' = IF Sim THEN [kong |-> k, known |-> TRUE] ELSE NoStrike
    BY <1>3 DEF Accept
  <2>3. /\ stomp' = IF Sim /\ kind = "stomp" THEN [source |-> "enemy", kong |-> k] ELSE None
        /\ mount' = IF Sim /\ kind = "mount" THEN [source |-> "animal", kong |-> k] ELSE None
    BY <1>3 DEF Accept, RecordInteraction
  <2>4. CASE Sim
    <3>1. struck'.known /\ struck'.kong = k /\ Sim'
      BY <2>2, <2>4 DEF Sim
    <3>2. CASE kind = "stomp"
      BY <2>1, <2>3, <2>4, <3>1, <3>2 DEF ReactionOK
    <3>3. CASE kind = "mount"
      BY <2>1, <2>3, <2>4, <3>1, <3>3 DEF ReactionOK
    <3> QED BY <3>2, <3>3
  <2>5. CASE ~Sim
    <3>1. ~struck'.known /\ stomp' = None /\ mount' = None
      BY <2>2, <2>3, <2>5 DEF NoStrike
    <3> QED BY <3>1 DEF ReactionOK
  <2> QED BY <2>4, <2>5
<1>4. CASE Stomp \/ Mount
  <2>1. None # "stomp" /\ None # "mount"
    BY CoopAssumption
  <2>2. struck' = NoStrike /\ stomp' = None /\ mount' = None
    <3>1. CASE Stomp
      BY <3>1 DEF Stomp, ReactionOK
    <3>2. CASE Mount
      BY <3>2 DEF Mount, ReactionOK
    <3> QED BY <1>4, <3>1, <3>2
  <2> QED BY <2>2 DEF ReactionOK, NoStrike
<1>5. CASE SetMode \/ \E recorded \in BOOLEAN : Load(recorded)
  <2>1. stomp' = None /\ mount' = None /\ ~struck'.known
    <3>1. CASE SetMode
      BY <3>1, RecordsTyped DEF SetMode, Cleared, Strikes
    <3>2. ASSUME NEW recorded \in BOOLEAN, Load(recorded)
          PROVE  stomp' = None /\ mount' = None /\ ~struck'.known
      BY <3>2 DEF Load, Cleared
    <3> QED BY <1>5, <3>1, <3>2
  <2> QED BY <2>1 DEF ReactionOK
<1>6. ASSUME NEW k \in Kongs,
             \/ \E hold, grounded \in BOOLEAN : Dispatch(k, hold, grounded)
             \/ PickUp(k) \/ TeamUp(k)
      PROVE  ReactionOK'
  BY <1>6, ReactionPolicy
<1>7. CASE TakeStompEvents \/ BananaSecondWidth \/ BananaNextPass \/ Save
  BY <1>1, <1>7, ReactionPolicy
<1>8. ASSUME NEW k \in Kongs, Hurt(k) \/ Leaves(k) \/ Rescue(k) \/ Plays(k) \/ Item(k)
      PROVE  ReactionOK'
  BY <1>8, ReactionWords
<1>9. CASE Dismount \/ Swap
  BY <1>1, <1>9, ReactionWords
<1> QED BY <1>2, <1>3, <1>4, <1>5, <1>6, <1>7, <1>8, <1>9 DEF Next

\* Whom a stomp bounces: the Kong that has the record, or else the leader.
LEMMA StompIsOwed ==
  ASSUME CoopInv, ReactionOK, guest.reaction = "stomp"
  PROVE  Bouncer = Owed
<1>1. guest.active \in Kongs /\ guest.inactive = Other(guest.active)
  BY RecordsTyped DEF Guests, Paired
<1>2. CASE struck.known
  <2>1. /\ Sim /\ stomp = [source |-> "enemy", kong |-> struck.kong] /\ guest.source = "enemy"
        /\ struck.kong \in Kongs
    BY <1>2 DEF ReactionOK
  <2>2. stomp # None
    BY <2>1, CoopAssumption
  <2>3. BounceUsesFollower <=> struck.kong = guest.inactive
    BY <2>1, <2>2 DEF BounceUsesFollower
  <2> QED BY <1>1, <1>2, <2>1, <2>3, TwoKongs DEF Bouncer, Owed
<1>3. CASE ~struck.known
  BY <1>3 DEF ReactionOK, BounceUsesFollower, Bouncer, Owed
<1> QED BY <1>2, <1>3

\* Who leads after a mount.
LEMMA MountIsOwed ==
  ASSUME CoopInv, ReactionOK, Mount
  PROVE  guest'.active = Owed
<1>1. guest \in Guests /\ Paired(guest) /\ guest.reaction = "mount"
  BY RecordsTyped DEF Mount
<1>2. CASE struck.known
  <2>1. /\ Sim /\ mount = [source |-> "animal", kong |-> struck.kong] /\ guest.source = "animal"
        /\ guest.riding = FALSE /\ struck.kong \in Kongs
    BY <1>1, <1>2 DEF ReactionOK
  <2>2. mount # None
    BY <2>1, CoopAssumption
  <2>3. RideLeads = Led(guest, struck.kong)
    BY <2>1, <2>2 DEF RideLeads
  <2>4. Led(guest, struck.kong).active = struck.kong /\ Led(guest, struck.kong) \in Guests
    BY <1>1, <2>1, LedIsPaired
  <2> QED BY <1>2, <2>3, <2>4 DEF Mount, Guests, Owed
<1>3. CASE ~struck.known
  <2>1. RideLeads = guest
    BY <1>3 DEF ReactionOK, RideLeads
  <2> QED BY <1>1, <1>3, <2>1 DEF Mount, Guests, Owed
<1> QED BY <1>2, <1>3

\* Whoever leads when a queued reaction is served, it is served to the Kong
\* that collided, as long as its record stands; where a choice of the policy
\* or a load has erased the record, to the leader, and never by the record of
\* another collision.
THEOREM ReactionsAreServed == Spec => ReactionsFindTheirKong
<1> DEFINE Served == /\ Stomp => Bouncer = Owed /\ events' = events \cup {Port(Owed)}
                     /\ Mount => guest'.active = Owed
<1>1. Init => ReactionOK
  BY DEF Init, ReactionOK, NoStrike
<1>2. ASSUME CoopInv, ReactionOK, [Next]_vars PROVE ReactionOK'
  BY <1>2, ReactionSteps
<1>3. ASSUME CoopInv, ReactionOK PROVE Served
  <2>1. ASSUME Stomp PROVE Bouncer = Owed /\ events' = events \cup {Port(Owed)}
    <3>1. guest.reaction = "stomp" /\ events' = events \cup {Controller(Bouncer)}
      BY <2>1 DEF Stomp
    <3>2. Bouncer = Owed
      BY <1>3, <3>1, StompIsOwed
    <3>3. ~Sim => Bouncer = guest.active
      BY DEF Bouncer, BounceUsesFollower
    <3>4. guest.port = Port(guest.active)
      BY <1>3, RecordsTyped DEF Paired
    <3> QED BY <3>1, <3>2, <3>3, <3>4 DEF Controller
  <2>2. ASSUME Mount PROVE guest'.active = Owed
    BY <1>3, <2>2, MountIsOwed
  <2> QED BY <2>1, <2>2
<1> QED BY <1>1, <1>2, <1>3, CoopHolds, PTL DEF Spec, ReactionsFindTheirKong

-----------------------------------------------------------------------------
(* Hands.  An item is in no hands but its holder's, nothing held means that*)
(* nobody carries, and a held partner is the follower, in the air or in    *)
(* the hands of the leader.  It must hold of a snapshot, too.              *)

Held(g, h) ==
  /\ g.object = "item" => h \in Kongs /\ \A k \in Kongs : g.state[k] = "carry" => k = h
  /\ g.object = None => \A k \in Kongs : g.state[k] # "carry"
  /\ g.object \in Kongs =>
       /\ g.inactive = g.object /\ g.reaction = None /\ g.present = TRUE
       /\ \/ g.state[Other(g.object)] = "wait" /\ g.state[g.object] = "leap"
          \/ g.state[Other(g.object)] = "carry" /\ g.state[g.object] = "carried"

PickedUp == guest.object = "item" /\ pickup # None => pickup.kong = holder /\ pickup.id = guest.id

OwnerOK ==
  /\ Held(guest, holder)
  /\ PickedUp
  /\ saved # None => Held(saved.guest, saved.holder)

\* The hands of a game in which the item's or nobody's hands are at stake.
LEMMA HandsApart ==
  ASSUME NEW g \in Guests, NEW h, g.object = "item" => h \in Kongs,
         g.object \notin Kongs,
         \A k \in Kongs : g.state[k] = "carry" => g.object = "item" /\ k = h
  PROVE  Held(g, h)
<1>1. None # "item"
  BY CoopAssumption
<1> QED BY <1>1 DEF Held

\* Carriers of anything but the partner stay carriers, or stop.
LEMMA OwnerStays ==
  ASSUME CoopInv, OwnerOK, NEW g \in Guests, guest' = g,
         UNCHANGED <<pickup, saved, holder>>, g.id = guest.id, g.object = guest.object,
         guest.object \notin Kongs,
         \A k \in Kongs : g.state[k] = "carry" => guest.state[k] = "carry"
  PROVE  OwnerOK'
<1>1. Held(guest, holder) /\ PickedUp /\ (saved # None => Held(saved.guest, saved.holder))
  BY DEF OwnerOK
<1>2. guest.object \in {"item", None}
  BY RecordsTyped DEF Guests
<1>3. Held(g, holder)
  BY <1>1, <1>2, HandsApart DEF Held
<1>4. PickedUp'
  BY <1>1 DEF PickedUp
<1> QED BY <1>1, <1>3, <1>4 DEF OwnerOK

\* Hands are not touched by words that say nothing about them.
LEMMA OwnerKept ==
  ASSUME OwnerOK, NEW g \in Guests, guest' = g,
         pickup' = pickup \/ pickup' = None, UNCHANGED <<saved, holder>>,
         g.id = guest.id, g.object = guest.object, g.state = guest.state,
         g.inactive = guest.inactive, g.reaction = guest.reaction,
         g.present = guest.present \/ g.present = TRUE
  PROVE  OwnerOK'
<1>1. Held(guest, holder) /\ PickedUp /\ (saved # None => Held(saved.guest, saved.holder))
  BY DEF OwnerOK
<1>2. Held(g, holder)
  BY <1>1 DEF Held
<1>3. PickedUp'
  BY <1>1 DEF PickedUp
<1> QED BY <1>1, <1>2, <1>3 DEF OwnerOK

LEMMA CarriersCounted ==
  /\ Cardinality(Carriers) = 1 => Carriers # {}
  /\ \A k \in Kongs : Carriers = {k} => Cardinality(Carriers) = 1
BY FS_EmptySet, FS_Singleton

\* Nobody but the holder is taken for the owner of an item.
LEMMA OwnerIs ==
  ASSUME OwnerOK, guest \in Guests, NEW k \in Kongs, HeldOwner = k, guest.object \notin Kongs
  PROVE  guest.object = "item" /\ k = holder
<1>1. k # None
  BY CoopAssumption
<1>2. Sim /\ guest.object # None
  BY <1>1 DEF HeldOwner
<1>3. guest.object = "item"
  BY <1>2 DEF Guests
<1>4. Held(guest, holder) /\ PickedUp
  BY DEF OwnerOK
<1>5. CASE Cardinality(Carriers) = 1
  <2>1. k = CHOOSE j \in Kongs : j \in Carriers
    BY <1>2, <1>3, <1>5 DEF HeldOwner
  <2>2. \E j \in Kongs : j \in Carriers
    BY <1>5, CarriersCounted DEF Carriers
  <2>3. guest.state[k] = "carry"
    BY <2>1, <2>2 DEF Carriers
  <2> QED BY <1>3, <1>4, <2>3 DEF Held
<1>6. CASE Cardinality(Carriers) # 1
  <2>1. pickup # None /\ k = pickup.kong
    BY <1>1, <1>2, <1>3, <1>6 DEF HeldOwner
  <2> QED BY <1>3, <1>4, <2>1 DEF PickedUp
<1> QED BY <1>5, <1>6

LEMMA DispatchOwner ==
  ASSUME CoopInv, OwnerOK, NEW k \in Kongs, NEW hold \in BOOLEAN, NEW grounded \in BOOLEAN,
         Dispatch(k, hold, grounded)
  PROVE  OwnerOK'
<1> DEFINE resumed == [guest EXCEPT !.due = @ \ {k},
                         !.parked = IF Sim /\ guest.state[k] = "rope" THEN @ \ {k} ELSE @]
           state == Selected(k, hold, grounded)
           joined == Joined(resumed, k, state)
<1>1. guest \in Guests /\ Paired(guest) /\ guest' \in Guests /\ guest.state[k] \in Actions
  BY RecordsTyped, DispatchKeeps DEF CoopInv, GuestOK, Guests
<1>2. UNCHANGED <<pickup, saved, holder>>
  BY DEF Dispatch, records, history
<1>3. guest' = IF ~Sim \/ KeepsWaiting(k) THEN resumed ELSE joined
  BY DEF Dispatch
<1>4. /\ resumed.state = guest.state /\ resumed.object = guest.object /\ resumed.id = guest.id
      /\ resumed.inactive = guest.inactive /\ resumed.present = guest.present
      /\ resumed.reaction = guest.reaction /\ resumed \in Guests
  BY <1>1 DEF Guests
<1>5. CASE guest' = resumed
  BY <1>1, <1>2, <1>4, <1>5, OwnerKept
<1>6. CASE guest' = joined /\ Sim /\ ~KeepsWaiting(k)
  <2> HIDE DEF resumed, state
  <2>1. /\ joined.state = [guest.state EXCEPT ![k] = state] /\ joined.object = guest.object
        /\ joined.id = guest.id /\ joined.inactive = guest.inactive
        /\ joined.reaction = guest.reaction
    <3>1. /\ joined.state = [resumed.state EXCEPT ![k] = state] /\ joined.object = resumed.object
          /\ joined.id = resumed.id /\ joined.inactive = resumed.inactive
          /\ joined.reaction = resumed.reaction
      BY <1>4 DEF Joined, Guests
    <3> QED BY <1>4, <3>1
  <2>2. joined.present = guest.present \/ joined.present = TRUE
    BY <1>4 DEF Joined, Guests
  <2> HIDE DEF joined
  <2>3. CASE guest.object \in Kongs
    <3>1. /\ guest.inactive = guest.object
          /\ \/ guest.state[Other(guest.object)] = "wait" /\ guest.state[guest.object] = "leap"
             \/ guest.state[Other(guest.object)] = "carry" /\ guest.state[guest.object] = "carried"
      BY <2>3 DEF OwnerOK, Held
    <3>2. guest.state[k] # "wait"
      <4>1. guest.object # None /\ guest.active = Other(guest.object)
        <5>1. guest.active \in Kongs
          BY <1>1 DEF Guests
        <5>2. guest.object = Other(guest.active)
          BY <1>1, <3>1 DEF Paired
        <5>3. guest.active = Other(guest.object)
          BY <5>1, <5>2, TwoKongs
        <5>4. None \notin Kongs
          BY CoopAssumption
        <5> QED BY <2>3, <5>3, <5>4
      <4>2. HeldOwner = guest.active
        <5>1. Sim /\ guest.object = guest.inactive
          BY <1>6, <3>1
        <5> QED BY <2>3, <4>1, <5>1 DEF HeldOwner
      <4>3. ASSUME guest.state[k] = "wait" PROVE k = guest.active
        BY <2>3, <3>1, <4>1, <4>3, TwoKongs
      <4> QED BY <1>6, <2>3, <4>2, <4>3 DEF KeepsWaiting
    <3>3. guest.state[k] \in {"leap", "carry", "carried"}
      BY <2>3, <3>1, <3>2, TwoKongs
    <3>4. state = guest.state[k]
      BY <3>3 DEF state, Selected, FollowerNeedsControl
    <3>5. joined.state = guest.state
      BY <1>1, <2>1, <3>4 DEF Guests
    <3> QED BY <1>1, <1>2, <1>6, <2>1, <2>2, <3>5, OwnerKept
  <2>4. CASE guest.object \notin Kongs
    <3>1. ASSUME state = "carry", guest.state[k] # "carry" PROVE guest.object = "item" /\ k = holder
      <4>1. HeldOwner = k
        BY <3>1 DEF state, Selected
      <4> QED BY <1>1, <2>4, <4>1, OwnerIs
    <3>2. Held(guest, holder) /\ PickedUp /\ (saved # None => Held(saved.guest, saved.holder))
      BY DEF OwnerOK
    <3>3. guest.object \in {"item", None} /\ None # "item"
      BY <1>1, <2>4, CoopAssumption DEF Guests
    <3>4. ASSUME NEW j \in Kongs, joined.state[j] = "carry"
          PROVE  guest.object = "item" /\ j = holder
      <4>1. CASE guest.state[j] = "carry"
        BY <3>2, <3>3, <4>1 DEF Held
      <4>2. CASE guest.state[j] # "carry"
        <5>1. j = k /\ state = "carry"
          BY <1>1, <2>1, <3>4, <4>2 DEF Guests
        <5> QED BY <3>1, <4>2, <5>1
      <4> QED BY <4>1, <4>2
    <3>5. Held(joined, holder)
      <4>1. joined.object = "item" => holder \in Kongs
        BY <2>1, <3>2 DEF Held
      <4>2. /\ joined \in Guests /\ joined.object \notin Kongs
            /\ \A j \in Kongs : joined.state[j] = "carry" => joined.object = "item" /\ j = holder
        BY <1>1, <1>6, <2>1, <2>4, <3>4
      <4> QED BY <4>1, <4>2, HandsApart
    <3>6. PickedUp'
      BY <1>2, <1>6, <2>1, <3>2 DEF PickedUp
    <3> QED BY <1>2, <1>6, <3>2, <3>5, <3>6 DEF OwnerOK
  <2> QED BY <2>3, <2>4
<1> QED BY <1>3, <1>5, <1>6

LEMMA PickUpOwner ==
  ASSUME CoopInv, OwnerOK, NEW k \in Kongs, PickUp(k)
  PROVE  OwnerOK'
<1>1. guest \in Guests /\ guest.object = None
  BY RecordsTyped DEF PickUp
<1>2. Held(guest, holder) /\ (saved # None => Held(saved.guest, saved.holder))
  BY DEF OwnerOK
<1>3. /\ guest'.object = "item" /\ guest'.state = guest.state /\ guest'.id = guest.id
      /\ holder' = k /\ saved' = saved
      /\ pickup' = IF Sim THEN [id |-> guest.id, kong |-> k] ELSE None
  BY <1>1 DEF PickUp, Guests
<1>4. \A j \in Kongs : guest.state[j] # "carry"
  BY <1>1, <1>2 DEF Held
<1>5. Held(guest', holder')
  BY <1>3, <1>4, CoopAssumption DEF Held, Kongs
<1>6. PickedUp'
  BY <1>3 DEF PickedUp
<1> QED BY <1>2, <1>3, <1>5, <1>6 DEF OwnerOK

LEMMA TeamUpOwner ==
  ASSUME CoopInv, OwnerOK, NEW k \in Kongs, TeamUp(k)
  PROVE  OwnerOK'
<1> DEFINE led == Led(guest, k)
           states == [q \in Kongs |-> IF q = k THEN "wait" ELSE "leap"]
           g == [led EXCEPT !.object = Other(k), !.due = Kongs, !.state = states]
<1>1. guest \in Guests /\ Paired(guest) /\ guest.present = TRUE /\ guest.reaction = None
  BY RecordsTyped DEF TeamUp, Guests
<1>2. /\ led \in Guests /\ Paired(led) /\ led.active = k /\ led.present = TRUE /\ led.reaction = None
  BY <1>1, LedIsPaired
<1>3. guest' = g /\ UNCHANGED <<pickup, saved, holder>>
  BY DEF TeamUp, records, history
<1> HIDE DEF led, states
<1>4. /\ g.inactive = Other(k) /\ g.present = TRUE /\ g.reaction = None
      /\ g.object = Other(k) /\ g.state = states
  BY <1>2 DEF Guests, Paired
<1> HIDE DEF g
<1>5. Other(k) \in Kongs /\ Other(k) # k /\ Other(Other(k)) = k
  BY TwoKongs
<1>6. g.state[k] = "wait" /\ g.state[Other(k)] = "leap"
  BY <1>4, <1>5 DEF states
<1>7. Other(k) # "item" /\ Other(k) # None
  BY <1>5, CoopAssumption
<1>8. Held(g, holder)
  BY <1>4, <1>5, <1>6, <1>7 DEF Held
<1>9. PickedUp'
  BY <1>3, <1>4, <1>7 DEF PickedUp
<1> QED BY <1>3, <1>8, <1>9 DEF OwnerOK

\* A reaction is accepted, and served, only with free hands or an item in them.
LEMMA ReactionOwner ==
  ASSUME CoopInv, OwnerOK, NEW k \in Kongs,
         \/ \E kind \in {"stomp", "mount"} : Accept(kind, k)
         \/ Stomp \/ Mount
  PROVE  OwnerOK'
<1>1. guest \in Guests /\ guest' \in Guests
  BY RecordsTyped, AcceptKeeps, StompKeeps, MountKeeps DEF CoopInv, GuestOK
<1>2. UNCHANGED <<pickup, saved, holder>>
  BY DEF Accept, Stomp, Mount, history
<1>3. guest.object \notin Kongs
  BY CoopAssumption DEF Accept, Stomp, Mount, OwnerOK, Held
<1>4. guest'.id = guest.id /\ guest'.object = guest.object /\ guest'.state = guest.state
  <2>1. CASE \E kind \in {"stomp", "mount"} : Accept(kind, k)
    BY <1>1, <2>1 DEF Accept, Guests
  <2>2. CASE Stomp
    BY <1>1, <2>2 DEF Stomp, Guests
  <2>3. CASE Mount
    BY <1>1, <2>3 DEF Mount, RideLeads, Led, Guests
  <2> QED BY <2>1, <2>2, <2>3
<1> QED BY <1>1, <1>2, <1>3, <1>4, OwnerStays

\* Steps that say nothing about hands.
LEMMA OtherOwner ==
  ASSUME CoopInv, OwnerOK,
         \/ TakeStompEvents \/ BananaSecondWidth \/ BananaNextPass \/ SetMode \/ Dismount
  PROVE  OwnerOK'
<1>1. guest \in Guests /\ guest' \in Guests
  BY RecordsTyped, CoopSteps DEF CoopInv, GuestOK, Next
<1>2. /\ pickup' = pickup \/ pickup' = None
      /\ UNCHANGED <<saved, holder>>
  BY DEF TakeStompEvents, BananaSecondWidth, BananaNextPass, SetMode, Cleared, Dismount, Cartridge,
         records, history
<1>3. /\ guest'.id = guest.id /\ guest'.object = guest.object /\ guest'.state = guest.state
      /\ guest'.inactive = guest.inactive /\ guest'.reaction = guest.reaction
      /\ guest'.present = guest.present
  <2>1. CASE TakeStompEvents
    BY <2>1 DEF TakeStompEvents
  <2>2. CASE BananaSecondWidth
    BY <1>1, <2>2 DEF BananaSecondWidth, Guests
  <2>3. CASE BananaNextPass
    BY <1>1, <2>3 DEF BananaNextPass, Guests
  <2>4. CASE SetMode
    BY <1>1, <2>4 DEF SetMode, Guests
  <2>5. CASE Dismount
    BY <1>1, <2>5 DEF Dismount, Cartridge, Guests
  <2> QED BY <2>1, <2>2, <2>3, <2>4, <2>5
<1> QED BY <1>1, <1>2, <1>3, OwnerKept

LEMMA SavesOwner ==
  ASSUME CoopInv, OwnerOK, Save \/ \E recorded \in BOOLEAN : Load(recorded)
  PROVE  OwnerOK'
<1>1. Held(guest, holder) /\ PickedUp /\ (saved # None => Held(saved.guest, saved.holder))
  BY DEF OwnerOK
<1>2. CASE Save
  <2>1. /\ guest' = guest /\ holder' = holder /\ pickup' = pickup
        /\ saved'.guest = guest /\ saved'.holder = holder
    BY <1>2 DEF Save, records, history
  <2>2. PickedUp'
    BY <1>1, <2>1 DEF PickedUp
  <2> QED BY <1>1, <2>1, <2>2 DEF OwnerOK
<1>3. CASE \E recorded \in BOOLEAN : Load(recorded)
  <2>1. /\ saved # None /\ guest' = [saved.guest EXCEPT !.due = Kongs]
        /\ holder' = saved.holder /\ pickup' = None /\ saved' = saved
    BY <1>3 DEF Load, Cleared
  <2>2. saved.guest \in Guests
    BY <2>1 DEF CoopInv, SavedOK, GuestOK
  <2>3. /\ guest'.object = saved.guest.object /\ guest'.state = saved.guest.state
        /\ guest'.inactive = saved.guest.inactive /\ guest'.reaction = saved.guest.reaction
        /\ guest'.present = saved.guest.present
    BY <2>1, <2>2 DEF Guests
  <2>4. Held(guest', holder')
    BY <1>1, <2>1, <2>3 DEF Held
  <2>5. PickedUp'
    BY <2>1 DEF PickedUp
  <2> QED BY <1>1, <2>1, <2>4, <2>5 DEF OwnerOK
<1> QED BY <1>2, <1>3

\* A step of the cartridge after which hands are empty, or hold the item.
LEMMA HandsAfter ==
  ASSUME CoopInv, OwnerOK, UNCHANGED <<pickup, saved>>, guest'.id = guest.id,
         guest'.object = None \/ (guest'.object = guest.object /\ holder' = holder),
         guest'.object \notin Kongs,
         \A k \in Kongs : guest'.state[k] = "carry" =>
                            guest'.object = guest.object /\ guest.state[k] = "carry"
  PROVE  OwnerOK'
<1>1. Held(guest, holder) /\ PickedUp /\ (saved # None => Held(saved.guest, saved.holder))
  BY DEF OwnerOK
<1>2. guest.object \in Kongs \cup {"item", None} /\ None # "item"
  BY RecordsTyped, CoopAssumption DEF Guests
<1>3. Held(guest', holder')
  BY <1>1, <1>2 DEF Held
<1>4. PickedUp'
  BY <1>1, <1>2 DEF PickedUp
<1> QED BY <1>1, <1>3, <1>4 DEF OwnerOK

LEMMA HurtOwner ==
  ASSUME CoopInv, OwnerOK, NEW k \in Kongs, Hurt(k)
  PROVE  OwnerOK'
<1> DEFINE b == Becomes(k, "hurt")
           object == IF b.object \in Kongs \/ (b.object = "item" /\ holder = k)
                     THEN None ELSE b.object
           other == IF b.state[Other(k)] = "carried" THEN "thrown" ELSE b.state[Other(k)]
           g == [b EXCEPT !.object = object, !.state[Other(k)] = other]
<1>1. guest \in Guests /\ Held(guest, holder)
  BY RecordsTyped DEF OwnerOK
<1>2. /\ guest' = g /\ UNCHANGED <<pickup, saved>>
      /\ holder' = (IF holder = k THEN None ELSE holder)
      /\ guest.state[k] \in {"idle", "carry", "follow"}
  BY DEF Hurt, Cartridge, records
<1>3. /\ b \in Guests /\ b.state = [guest.state EXCEPT ![k] = "hurt"] /\ b.object = guest.object
  BY <1>1, BecomesIs DEF Actions
<1>4. b.id = guest.id
  BY <1>1 DEF Becomes, Guests
<1> HIDE DEF b
<1>5. Other(k) \in Kongs /\ Other(k) # k /\ \A j \in Kongs : j = k \/ j = Other(k)
  BY TwoKongs
<1>6. g.id = b.id /\ g.object = object /\ g.state = [b.state EXCEPT ![Other(k)] = other]
  BY <1>3 DEF Guests
<1>7. g.state[k] = "hurt" /\ g.state[Other(k)] = other
  BY <1>1, <1>3, <1>5, <1>6 DEF Guests
<1>8. other = "carry" => guest.state[Other(k)] = "carry"
  BY <1>1, <1>3, <1>5 DEF Guests
<1>9. CASE guest.object \in Kongs
  <2>1. other # "carry"
    BY <1>1, <1>2, <1>5, <1>8, <1>9, TwoKongs DEF Held
  <2>2. object = None /\ None \notin Kongs
    BY <1>3, <1>9, CoopAssumption
  <2>3. \A j \in Kongs : g.state[j] # "carry"
    BY <1>5, <1>7, <2>1
  <2> QED BY <1>2, <1>4, <1>6, <2>2, <2>3, HandsAfter
<1>10. CASE guest.object \notin Kongs
  <2>1. CASE guest.object = "item" /\ holder = k
    <3>1. other # "carry"
      BY <1>1, <1>5, <1>8, <2>1 DEF Held
    <3>2. object = None /\ None \notin Kongs
      BY <1>3, <2>1, CoopAssumption
    <3>3. \A j \in Kongs : g.state[j] # "carry"
      BY <1>5, <1>7, <3>1
    <3> QED BY <1>2, <1>4, <1>6, <3>2, <3>3, HandsAfter
  <2>2. CASE ~(guest.object = "item" /\ holder = k)
    <3>1. object = guest.object
      BY <1>3, <1>10, <2>2
    <3>2. guest.object = None \/ holder' = holder
      BY <1>1, <1>2, <1>10, <2>2 DEF Guests
    <3>3. \A j \in Kongs : g.state[j] = "carry" => guest.state[j] = "carry"
      BY <1>5, <1>7, <1>8
    <3> QED BY <1>2, <1>4, <1>6, <1>10, <3>1, <3>2, <3>3, HandsAfter
  <2> QED BY <2>1, <2>2
<1> QED BY <1>9, <1>10

LEMMA LeavesOwner ==
  ASSUME CoopInv, OwnerOK, NEW k \in Kongs, Leaves(k) \/ Rescue(k)
  PROVE  OwnerOK'
<1>1. guest \in Guests /\ Held(guest, holder) /\ guest.present \in BOOLEAN
  BY RecordsTyped DEF OwnerOK, Guests
<1>2. UNCHANGED <<pickup, saved, holder>>
  BY DEF Leaves, Rescue, Cartridge, records
<1>3. guest.object \notin Kongs
  BY <1>1, TwoKongs DEF Leaves, Rescue, Now, Held
<1>4. CASE Leaves(k)
  <2> DEFINE b == Becomes(k, "wait")
             a == SetActive(b, Other(k))
             due == a.due \cup (IF "swap" \in guest.scenes /\ guest.state[Other(k)] = "idle"
                                THEN {k, Other(k)} ELSE {k})
             other == IF "swap" \in guest.scenes /\ a.state[Other(k)] = "idle"
                      THEN "turn" ELSE a.state[Other(k)]
             prompt == "swap" \in guest.scenes
             g == [a EXCEPT !.present = FALSE, !.mask[k] = 0, !.prompt = prompt,
                            !.state[Other(k)] = other, !.due = due]
  <2>1. guest' = g
    BY <1>4 DEF Leaves, Cartridge
  <2>2. b \in Guests /\ b.state = [guest.state EXCEPT ![k] = "wait"] /\ b.object = guest.object
    BY <1>1, BecomesIs DEF Actions
  <2>3. b.id = guest.id
    BY <1>1 DEF Becomes, Guests
  <2> HIDE DEF b
  <2>4. a \in Guests /\ a.state = b.state
    BY <2>2, TwoKongs, SetActiveIs
  <2>5. a.object = b.object /\ a.id = b.id
    BY <2>2 DEF SetActive, Guests
  <2> HIDE DEF a
  <2>6. other = "carry" => a.state[Other(k)] = "carry"
    OBVIOUS
  <2> HIDE DEF due, other, prompt
  <2>7. g.id = a.id /\ g.object = a.object /\ g.state = [a.state EXCEPT ![Other(k)] = other]
    BY <2>4 DEF Guests
  <2> HIDE DEF g
  <2>8. \A j \in Kongs : g.state[j] = "carry" => guest.state[j] = "carry"
    BY <1>1, <2>2, <2>4, <2>6, <2>7 DEF Guests
  <2> QED BY <1>2, <1>3, <2>1, <2>2, <2>3, <2>5, <2>7, <2>8, HandsAfter
<1>5. CASE Rescue(k)
  <2> DEFINE b == Becomes(k, "rescued")
             g == [b EXCEPT !.present = TRUE]
  <2>1. guest' = g
    BY <1>5 DEF Rescue, Cartridge
  <2>2. b \in Guests /\ b.state = [guest.state EXCEPT ![k] = "rescued"] /\ b.object = guest.object
    BY <1>1, BecomesIs DEF Actions
  <2>3. b.id = guest.id
    BY <1>1 DEF Becomes, Guests
  <2> HIDE DEF b
  <2>4. g.id = b.id /\ g.object = b.object /\ g.state = b.state
    BY <2>2 DEF Guests
  <2> HIDE DEF g
  <2>5. \A j \in Kongs : g.state[j] = "carry" => guest.state[j] = "carry"
    BY <1>1, <2>2, <2>4 DEF Guests
  <2> QED BY <1>2, <1>3, <2>1, <2>2, <2>3, <2>4, <2>5, HandsAfter
<1> QED BY <1>4, <1>5

LEMMA ItemOwner ==
  ASSUME CoopInv, OwnerOK, NEW k \in Kongs, Item(k)
  PROVE  OwnerOK'
<1>1. guest \in Guests /\ Held(guest, holder) /\ PickedUp
      /\ (saved # None => Held(saved.guest, saved.holder))
  BY RecordsTyped DEF OwnerOK
<1>2. guest.object = "item" /\ holder = k /\ UNCHANGED <<pickup, saved>>
  BY DEF Item, Cartridge, records
<1>3. CASE Cartridge(Becomes(k, "carry")) /\ UNCHANGED holder
  <2>1. /\ guest' \in Guests /\ guest'.state = [guest.state EXCEPT ![k] = "carry"]
        /\ guest'.object = "item" /\ holder' = k
    BY <1>1, <1>2, <1>3, BecomesIs DEF Actions, Cartridge
  <2>2. guest'.id = guest.id
    BY <1>1, <1>3 DEF Cartridge, Becomes, Guests
  <2>3. \A j \in Kongs : guest'.state[j] = "carry" => j = k
    BY <1>1, <1>2, <2>1 DEF Held, Guests
  <2>4. Held(guest', holder')
    BY <2>1, <2>3, CoopAssumption, HandsApart
  <2>5. PickedUp'
    BY <1>1, <1>2, <2>1, <2>2 DEF PickedUp
  <2> QED BY <1>1, <1>2, <2>4, <2>5 DEF OwnerOK
<1>4. ASSUME NEW id \in {1, 2}, Cartridge([Becomes(k, "idle") EXCEPT !.object = None, !.id = id])
      PROVE  OwnerOK'
  <2>1. Becomes(k, "idle") \in Guests /\ Becomes(k, "idle").state = [guest.state EXCEPT ![k] = "idle"]
    BY <1>1, BecomesIs DEF Actions
  <2>2. guest'.object = None /\ guest'.state = [guest.state EXCEPT ![k] = "idle"]
    BY <1>4, <2>1 DEF Cartridge, Guests
  <2>3. \A j \in Kongs : guest'.state[j] # "carry"
    BY <1>1, <1>2, <2>2 DEF Held, Guests
  <2>4. Held(guest', holder')
    BY <2>2, <2>3, CoopAssumption DEF Held
  <2>5. PickedUp'
    BY <2>2, CoopAssumption DEF PickedUp
  <2> QED BY <1>1, <1>2, <2>4, <2>5 DEF OwnerOK
<1> QED BY <1>3, <1>4 DEF Item

LEMMA SwapOwner ==
  ASSUME CoopInv, OwnerOK, Swap
  PROVE  OwnerOK'
<1> DEFINE a == SetActive(guest, guest.inactive)
           states == [k \in Kongs |-> IF k = guest.inactive THEN "idle" ELSE "follow"]
           masks == [k \in Kongs |-> IF k = guest.inactive THEN 30 ELSE 6]
           g == [a EXCEPT !.state = states, !.mask = masks, !.back = {guest.active}, !.due = Kongs]
<1>1. guest \in Guests /\ guest.inactive \in Kongs
  BY RecordsTyped DEF Guests
<1>2. guest' = g /\ UNCHANGED <<pickup, saved, holder>> /\ guest.object = None
  BY DEF Swap, Cartridge, records
<1>3. a \in Guests /\ a.object = guest.object /\ a.id = guest.id
  BY <1>1, SetActiveIs DEF SetActive, Guests
<1> HIDE DEF a, masks
<1>4. \A j \in Kongs : states[j] # "carry"
  OBVIOUS
<1> HIDE DEF states
<1>5. g.object = None /\ g.id = guest.id /\ g.state = states
  BY <1>2, <1>3 DEF Guests
<1> HIDE DEF g
<1> QED BY <1>2, <1>4, <1>5, CoopAssumption, HandsAfter

LEMMA PlaysOwner ==
  ASSUME CoopInv, OwnerOK, NEW k \in Kongs, Plays(k)
  PROVE  OwnerOK'
<1>1. /\ guest \in Guests /\ Paired(guest) /\ Held(guest, holder) /\ PickedUp
      /\ (saved # None => Held(saved.guest, saved.holder))
  BY RecordsTyped DEF OwnerOK
<1>2. UNCHANGED <<pickup, saved, holder>>
  BY DEF Plays, Cartridge, records
<1>3. ASSUME NEW state \in Actions \ {"carry"}, guest.object \notin Kongs,
             guest'.object = guest.object, guest'.id = guest.id,
             guest'.state = [guest.state EXCEPT ![k] = state]
      PROVE  OwnerOK'
  <2>1. \A j \in Kongs : guest'.state[j] = "carry" => guest.state[j] = "carry"
    BY <1>1, <1>3 DEF Guests
  <2> QED BY <1>2, <1>3, <2>1, HandsAfter
<1>4. /\ guest.state[k] \notin {"wait", "leap", "carry", "carried"} => guest.object \notin Kongs
      /\ guest.state[k] \in {"idle", "carry"} /\ k = guest.inactive => guest.object \notin Kongs
  BY <1>1, TwoKongs DEF Held
<1>5. ASSUME NEW state \in {"follow", "idle"}, Cartridge(Becomes(k, state)),
             guest.state[k] \notin {"wait", "leap", "carry", "carried"}
      PROVE  OwnerOK'
  <2>1. /\ guest'.state = [guest.state EXCEPT ![k] = state] /\ guest'.object = guest.object
        /\ guest'.id = guest.id
    BY <1>1, <1>5 DEF Cartridge, Becomes, Guests
  <2>2. state \in Actions \ {"carry"}
    BY DEF Actions
  <2> QED BY <1>3, <1>4, <1>5, <2>1, <2>2
<1>6. CASE \/ Now(k, "rescued") /\ Cartridge(Becomes(k, "follow"))
           \/ Now(k, "jump") /\ Cartridge(Becomes(k, "idle"))
           \/ Now(k, "thrown") /\ Cartridge(Becomes(k, "follow"))
           \/ Now(k, "rope") /\ Cartridge(Becomes(k, "idle"))
  BY <1>5, <1>6 DEF Now
<1>7. CASE guest.object = None /\ Cartridge([Becomes(k, "follow") EXCEPT !.present = TRUE])
  <2>1. /\ guest'.state = [guest.state EXCEPT ![k] = "follow"] /\ guest'.object = guest.object
        /\ guest'.id = guest.id
    BY <1>1, <1>7 DEF Cartridge, Becomes, Guests
  <2>2. "follow" \in Actions \ {"carry"} /\ guest.object \notin Kongs
    BY <1>7, CoopAssumption DEF Actions
  <2> QED BY <1>3, <2>1, <2>2
<1>8. CASE /\ guest.state[k] \in {"idle", "carry"} /\ k = guest.inactive
           /\ Cartridge([Becomes(k, "follow") EXCEPT !.mask[k] = 6])
  <2>1. /\ guest'.state = [guest.state EXCEPT ![k] = "follow"] /\ guest'.object = guest.object
        /\ guest'.id = guest.id
    BY <1>1, <1>8 DEF Cartridge, Becomes, Guests
  <2>2. "follow" \in Actions \ {"carry"}
    BY DEF Actions
  <2>3. guest.object \notin Kongs
    BY <1>4, <1>8
  <2> QED BY <1>3, <2>1, <2>2, <2>3
<1>9. ASSUME Now(k, "idle"), NEW p \in SUBSET {k},
             Cartridge([Becomes(k, "rope") EXCEPT !.parked = @ \cup p])
      PROVE  OwnerOK'
  <2>1. /\ guest'.state = [guest.state EXCEPT ![k] = "rope"] /\ guest'.object = guest.object
        /\ guest'.id = guest.id
    BY <1>1, <1>9 DEF Cartridge, Becomes, Guests
  <2>2. "rope" \in Actions \ {"carry"}
    BY DEF Actions
  <2>3. guest.object \notin Kongs
    BY <1>4, <1>9 DEF Now
  <2> QED BY <1>3, <2>1, <2>2, <2>3
<1>10. CASE /\ Now(Other(k), "leap") /\ guest.object = Other(k)
            /\ Cartridge([Becomes(k, "carry") EXCEPT !.due = Kongs, !.state[Other(k)] = "carried"])
  <2>1. /\ Other(k) \in Kongs /\ Other(k) # k /\ Other(Other(k)) = k
        /\ Other(k) # "item" /\ Other(k) # None
    BY TwoKongs, CoopAssumption
  <2>2. /\ guest.inactive = guest.object /\ guest.reaction = None /\ guest.present = TRUE
    BY <1>1, <1>10, <2>1 DEF Held
  <2>3. /\ guest'.object = Other(k) /\ guest'.id = guest.id /\ guest'.inactive = guest.inactive
        /\ guest'.reaction = guest.reaction /\ guest'.present = guest.present
        /\ guest'.state = [guest.state EXCEPT ![k] = "carry", ![Other(k)] = "carried"]
    BY <1>1, <1>10, <2>1 DEF Cartridge, Becomes, Guests
  <2>4. guest'.state[k] = "carry" /\ guest'.state[Other(k)] = "carried"
    BY <1>1, <2>1, <2>3 DEF Guests
  <2>5. Held(guest', holder')
    BY <1>10, <2>1, <2>2, <2>3, <2>4 DEF Held
  <2>6. PickedUp'
    BY <2>1, <2>3 DEF PickedUp
  <2> QED BY <1>1, <1>2, <2>5, <2>6 DEF OwnerOK
<1>11. CASE Cartridge([Becomes(k, "idle") EXCEPT !.object = None, !.due = Kongs,
                                                 !.state[Other(k)] = "thrown"])
  <2>1. /\ guest'.object = None /\ guest'.id = guest.id
        /\ guest'.state = [guest.state EXCEPT ![k] = "idle", ![Other(k)] = "thrown"]
    BY <1>1, <1>11, TwoKongs DEF Cartridge, Becomes, Guests
  <2>2. \A j \in Kongs : guest'.state[j] # "carry"
    BY <1>1, <2>1, TwoKongs DEF Guests
  <2> QED BY <1>2, <2>1, <2>2, CoopAssumption, HandsAfter
<1> QED BY <1>6, <1>7, <1>8, <1>9, <1>10, <1>11 DEF Plays

LEMMA OwnerStarts == Init => OwnerOK
<1> SUFFICES ASSUME Init PROVE OwnerOK
  OBVIOUS
<1>1. /\ guest.object = None /\ guest.state = [k \in Kongs |-> IF k = A THEN "idle" ELSE "wait"]
      /\ pickup = None /\ saved = None
  BY DEF Init
<1>2. \A j \in Kongs : guest.state[j] # "carry"
  BY <1>1
<1>3. Held(guest, holder)
  BY <1>1, <1>2, CoopAssumption DEF Held
<1> QED BY <1>1, <1>3 DEF OwnerOK, PickedUp

LEMMA OwnerSteps ==
  ASSUME CoopInv, OwnerOK, [Next]_vars
  PROVE  OwnerOK'
<1>1. CASE UNCHANGED vars
  BY <1>1, RecordsTyped, OwnerKept DEF vars, records, history
<1>2. ASSUME NEW k \in Kongs,
             \/ \E hold, grounded \in BOOLEAN : Dispatch(k, hold, grounded)
             \/ PickUp(k) \/ TeamUp(k)
             \/ \E kind \in {"stomp", "mount"} : Accept(kind, k)
             \/ Hurt(k) \/ Leaves(k) \/ Rescue(k) \/ Plays(k) \/ Item(k)
      PROVE  OwnerOK'
  BY <1>2, DispatchOwner, PickUpOwner, TeamUpOwner, ReactionOwner, HurtOwner, LeavesOwner,
     PlaysOwner, ItemOwner
<1>3. CASE Stomp \/ Mount
  <2>1. A \in Kongs
    BY DEF Kongs
  <2> QED BY <1>3, <2>1, ReactionOwner
<1>4. CASE \/ TakeStompEvents \/ BananaSecondWidth \/ BananaNextPass \/ SetMode \/ Dismount
           \/ Save \/ (\E recorded \in BOOLEAN : Load(recorded)) \/ Swap
  BY <1>4, OtherOwner, SavesOwner, SwapOwner
<1> QED BY <1>1, <1>2, <1>3, <1>4 DEF Next

\* The owner CoopHeldOwner computes is the Kong that picked the item up,
\* whichever of the two leads, also after the pickup record was dropped.
THEOREM OwnerAlwaysHolder == Spec => []OwnerIsHolder
<1>1. ASSUME CoopInv, OwnerOK PROVE OwnerIsHolder
  <2> SUFFICES ASSUME Sim, guest.object = "item", holder # None,
                      guest.state[holder] = "carry" \/ pickup # None
               PROVE  HeldOwner = holder
    BY DEF OwnerIsHolder
  <2>1. /\ holder \in Kongs /\ \A k \in Kongs : guest.state[k] = "carry" => k = holder
        /\ (pickup # None => pickup.kong = holder /\ pickup.id = guest.id)
    BY <1>1 DEF OwnerOK, Held, PickedUp
  <2>2. guest.object \notin Kongs /\ guest.object # None
    BY CoopAssumption
  <2>3. CASE guest.state[holder] = "carry"
    <3>1. Carriers = {holder}
      BY <2>1, <2>3 DEF Carriers
    <3>2. Cardinality(Carriers) = 1
      BY <2>1, <3>1, CarriersCounted
    <3> QED BY <2>1, <2>2, <3>1, <3>2 DEF HeldOwner
  <2>4. CASE guest.state[holder] # "carry"
    <3>1. Carriers = {}
      BY <2>1, <2>4 DEF Carriers
    <3>2. Cardinality(Carriers) # 1
      BY <3>1, CarriersCounted
    <3> QED BY <2>1, <2>2, <2>4, <3>2 DEF HeldOwner
  <2> QED BY <2>3, <2>4
<1>2. ASSUME CoopInv, OwnerOK, [Next]_vars PROVE OwnerOK'
  BY <1>2, OwnerSteps
<1> QED BY <1>1, <1>2, OwnerStarts, CoopHolds, PTL DEF Spec

-----------------------------------------------------------------------------
(* Losses.  A Kong out of the game is hurt, and dispatched before it moves, *)
(* or it waits and the mask knows it.  A load without the mask finds a lost *)
(* Kong in the words: it waits absent, as the follower, in front of the     *)
(* leader, where a follower that waits is behind.  So a game with losses    *)
(* and saves must have no way to change the lead in between.                *)

\* Losses outlast neither a change of the policy, which forgets what was
\* dispatched under the other one, nor, in a snapshot of before the mask was
\* kept, a mount that hands the lead to the lost Kong.
SteadyGames ==
  \A game \in Games :
    "loss" \in game => "policy" \notin game /\ ~({"mount", "saves"} \subseteq game)

LossOK(g, G, L) ==
  /\ g.object \in Kongs => G = {}
  /\ \A k \in Kongs : g.state[k] = "hurt" => k \in G
  /\ \A k \in G : /\ Other(k) \notin G
                  /\ \/ g.state[k] = "hurt" /\ (k \in g.due \/ k \in L)
                     \/ g.state[k] = "wait" /\ k \in L

\* A Kong drawn behind follows and does not play.
Behind(g, b) == /\ b = g.inactive
                /\ \/ g.state[b] \in {"wait", "leap", "carried", "thrown"}
                   \/ g.state[b] = "follow" /\ b \in g.due

BackOK(g, G) ==
  /\ g.reaction # "mount"
  /\ \A b \in g.back : Behind(g, b)
  /\ \A k \in G : g.state[k] = "wait" => ~g.present /\ g.inactive = k /\ k \notin g.back

PickerInFront(g, p) == g.object = "item" /\ p # None => p.kong \notin g.back

SavedLoss ==
  saved # None =>
    /\ "saves" \in guest.scenes /\ saved.guest.scenes = guest.scenes
    /\ "loss" \notin guest.scenes => saved.gone = {}
    /\ "loss" \in guest.scenes => /\ LossOK(saved.guest, saved.gone, saved.lost)
                                  /\ BackOK(saved.guest, saved.gone)

LossInv ==
  /\ SavedLoss
  /\ "loss" \notin guest.scenes => gone = {}
  /\ "loss" \in guest.scenes => Sim /\ LossOK(guest, gone, lost)
  /\ {"loss", "saves"} \subseteq guest.scenes => BackOK(guest, gone) /\ PickerInFront(guest, pickup)

\* What a step that leaves the snapshot alone has to keep.
LEMMA LossFrame ==
  ASSUME LossInv, guest'.scenes = guest.scenes, mode' = mode, saved' = saved,
         "loss" \notin guest.scenes => gone' = {},
         "loss" \in guest.scenes => LossOK(guest', gone', lost'),
         {"loss", "saves"} \subseteq guest.scenes => BackOK(guest', gone') /\ PickerInFront(guest', pickup')
  PROVE  LossInv'
BY DEF LossInv, SavedLoss, Sim

\* Steps that leave the Kongs as they are; what is held is held on, dropped,
\* or the item.
LEMMA LossStays ==
  ASSUME CoopInv, LossInv, guest'.scenes = guest.scenes,
         UNCHANGED <<mode, lost, saved, gone>>,
         guest'.state = guest.state, guest.due \subseteq guest'.due, guest'.back = guest.back,
         guest'.present = guest.present,
         guest'.object = guest.object \/ guest'.object \notin Kongs,
         {"loss", "saves"} \subseteq guest.scenes =>
           /\ guest'.inactive = guest.inactive /\ guest'.reaction # "mount"
           /\ PickerInFront(guest', pickup')
  PROVE  LossInv'
<1>1. "loss" \in guest.scenes => LossOK(guest', gone', lost')
  BY DEF LossInv, LossOK
<1>2. {"loss", "saves"} \subseteq guest.scenes => BackOK(guest', gone')
  BY DEF LossInv, BackOK, Behind
<1>3. "loss" \notin guest.scenes => gone' = {}
  BY DEF LossInv
<1> QED BY <1>1, <1>2, <1>3, LossFrame

\* The changes of a Kong that is neither out of the game nor behind.
LEMMA FrontMoves ==
  ASSUME CoopInv, LossInv, NEW k \in Kongs, NEW state \in Actions, state # "hurt",
         guest'.scenes = guest.scenes, UNCHANGED <<mode, lost, pickup, saved, gone>>,
         guest.state[k] \in {"idle", "carry", "jump", "rope", "rescued"}
           \/ (guest.state[k] = "follow" /\ k \notin guest.due),
         guest'.state = [guest.state EXCEPT ![k] = state],
         guest'.due = guest.due \cup {k}, guest'.back = guest.back,
         guest'.present = guest.present, guest'.inactive = guest.inactive,
         guest'.reaction = guest.reaction,
         guest'.object = guest.object \/ guest'.object = None
  PROVE  LossInv'
<1>1. guest \in Guests /\ None \notin Kongs /\ None # "item"
  BY RecordsTyped, CoopAssumption
<1>2. \A j \in Kongs : guest'.state[j] = IF j = k THEN state ELSE guest.state[j]
  BY <1>1 DEF Guests
<1>3. gone \subseteq Kongs /\ guest.back \subseteq Kongs
  BY <1>1, RecordsTyped DEF Guests
<1>4. ASSUME "loss" \in guest.scenes PROVE LossOK(guest', gone', lost')
  <2>1. LossOK(guest, gone, lost)
    BY <1>4 DEF LossInv
  <2>2. k \notin gone
    BY <2>1 DEF LossOK
  <2>3. \A j \in gone : j \in Kongs /\ guest'.state[j] = guest.state[j]
    BY <1>2, <1>3, <2>2
  <2> QED BY <1>1, <1>2, <2>1, <2>2, <2>3 DEF LossOK
<1>5. ASSUME {"loss", "saves"} \subseteq guest.scenes
      PROVE  BackOK(guest', gone') /\ PickerInFront(guest', pickup')
  <2>1. BackOK(guest, gone) /\ PickerInFront(guest, pickup) /\ LossOK(guest, gone, lost)
    BY <1>5 DEF LossInv
  <2>2. k \notin guest.back
    BY <2>1 DEF BackOK, Behind
  <2>3. k \notin gone
    BY <2>1 DEF LossOK
  <2>4. \A j \in guest.back \cup gone : j \in Kongs /\ guest'.state[j] = guest.state[j]
    BY <1>2, <1>3, <2>2, <2>3
  <2>5. \A b \in guest'.back : Behind(guest', b)
    BY <2>1, <2>4 DEF BackOK, Behind
  <2>6. BackOK(guest', gone')
    BY <2>1, <2>4, <2>5 DEF BackOK
  <2> QED BY <1>1, <2>1, <2>6 DEF PickerInFront
<1>6. "loss" \notin guest.scenes => gone' = {}
  BY DEF LossInv
<1> QED BY <1>4, <1>5, <1>6, LossFrame

-----------------------------------------------------------------------------
LEMMA DispatchLoss ==
  ASSUME CoopInv, OwnerOK, LossInv, NEW k \in Kongs, NEW hold \in BOOLEAN, NEW grounded \in BOOLEAN,
         Dispatch(k, hold, grounded)
  PROVE  LossInv'
<1> DEFINE resumed == [guest EXCEPT !.due = @ \ {k},
                         !.parked = IF Sim /\ guest.state[k] = "rope" THEN @ \ {k} ELSE @]
           state == Selected(k, hold, grounded)
           joined == Joined(resumed, k, state)
           joins == state = "idle" /\ k = guest.inactive
<1>1. /\ guest \in Guests /\ Paired(guest) /\ guest.state[k] \in Actions /\ gone \subseteq Kongs
      /\ guest.back \subseteq Kongs /\ guest.present \in BOOLEAN
      /\ guest.active \in Kongs /\ guest.inactive \in Kongs
  BY RecordsTyped DEF Guests
<1>2. UNCHANGED <<mode, pickup, saved, gone>>
  BY DEF Dispatch, records, history
<1>3. guest' = IF ~Sim \/ KeepsWaiting(k) THEN resumed ELSE joined
  BY DEF Dispatch
<1>4. /\ resumed.state = guest.state /\ resumed.object = guest.object
      /\ resumed.inactive = guest.inactive /\ resumed.present = guest.present
      /\ resumed.reaction = guest.reaction /\ resumed.back = guest.back
      /\ resumed.due = guest.due \ {k} /\ resumed.scenes = guest.scenes /\ resumed \in Guests
  BY <1>1 DEF Guests
<1>5. /\ joined.state = [guest.state EXCEPT ![k] = state] /\ joined.object = guest.object
      /\ joined.inactive = guest.inactive /\ joined.reaction = guest.reaction
      /\ joined.due = guest.due \ {k} /\ joined.scenes = guest.scenes
      /\ joined.present = (guest.present \/ joins)
      /\ joined.back = (IF joins THEN guest.back \ {k} ELSE guest.back)
  <2> HIDE DEF resumed, state
  <2>1. /\ joined.state = [resumed.state EXCEPT ![k] = state] /\ joined.object = resumed.object
        /\ joined.inactive = resumed.inactive /\ joined.reaction = resumed.reaction
        /\ joined.due = resumed.due /\ joined.scenes = resumed.scenes
    BY <1>4 DEF Joined, Guests
  <2>2. /\ joined.present = (resumed.present \/ (state = "idle" /\ k = resumed.inactive))
        /\ joined.back = (IF state = "idle" /\ k = resumed.inactive
                          THEN resumed.back \ {k} ELSE resumed.back)
    BY <1>4 DEF Joined, Guests
  <2> QED BY <1>4, <2>1, <2>2
<1> HIDE DEF resumed, joined
<1>6. /\ guest'.scenes = guest.scenes /\ guest'.object = guest.object
      /\ guest'.inactive = guest.inactive /\ guest'.reaction = guest.reaction
      /\ guest'.due = guest.due \ {k}
      /\ \A j \in Kongs : j # k => guest'.state[j] = guest.state[j]
      /\ guest'.back \subseteq guest.back
  BY <1>1, <1>3, <1>4, <1>5 DEF Guests
<1>7. ASSUME "loss" \in guest.scenes
      PROVE  /\ LossOK(guest, gone, lost) /\ Sim /\ lost' = LostAfter(k)
             /\ \A j \in Kongs : j # k => (j \in lost' <=> j \in lost)
  BY <1>7 DEF LossInv, Dispatch, LostAfter
<1>8. guest.state[k] = "hurt" => state = "hurt"
  BY DEF Selected, FollowerNeedsControl
<1>9. guest.state[k] # "hurt" => state # "hurt"
  BY <1>1 DEF Selected
<1>10. k \in Kongs /\ (guest'.state[k] = state \/ guest'.state[k] = guest.state[k])
  BY <1>1, <1>3, <1>4, <1>5 DEF Guests
<1>11. ASSUME "loss" \in guest.scenes, k \in gone
       PROVE  \/ guest.state[k] = "hurt" /\ guest'.state[k] = "hurt" /\ k \in lost'
              \/ /\ guest.state[k] = "wait" /\ guest'.state[k] = "wait" /\ k \in lost'
                 /\ guest' = resumed
  <2>1. guest.state[k] = "hurt" \/ (guest.state[k] = "wait" /\ k \in lost)
    BY <1>7, <1>11 DEF LossOK
  <2>2. CASE guest.state[k] = "hurt"
    BY <1>7, <1>8, <1>10, <1>11, <2>2 DEF LostAfter
  <2>3. CASE guest.state[k] = "wait" /\ k \in lost
    BY <1>3, <1>4, <1>7, <1>11, <2>3 DEF LostAfter, KeepsWaiting
  <2> QED BY <2>1, <2>2, <2>3
<1>12. ASSUME "loss" \in guest.scenes PROVE LossOK(guest', gone', lost')
  <2>1. \A j \in Kongs : guest'.state[j] = "hurt" => guest.state[j] = "hurt"
    BY <1>6, <1>8, <1>9, <1>10
  <2>2. ASSUME NEW j \in gone
        PROVE  \/ guest'.state[j] = "hurt" /\ (j \in guest'.due \/ j \in lost')
               \/ guest'.state[j] = "wait" /\ j \in lost'
    <3>1. CASE j = k
      BY <1>11, <1>12, <2>2, <3>1
    <3>2. CASE j # k
      BY <1>1, <1>6, <1>7, <1>12, <2>2, <3>2 DEF LossOK
    <3> QED BY <3>1, <3>2
  <2> QED BY <1>2, <1>6, <1>7, <1>12, <2>1, <2>2 DEF LossOK
<1>13. ASSUME {"loss", "saves"} \subseteq guest.scenes
       PROVE  BackOK(guest', gone') /\ PickerInFront(guest', pickup')
  <2>1. BackOK(guest, gone) /\ PickerInFront(guest, pickup) /\ LossOK(guest, gone, lost) /\ Sim
    BY <1>13 DEF LossInv
  <2>2. ASSUME k \in guest.back, state # guest.state[k], guest.state[k] # "carry"
        PROVE  HeldOwner # k
    <3>1. k = guest.inactive
      BY <2>1, <2>2 DEF BackOK, Behind
    <3>2. SUFFICES ASSUME HeldOwner = k PROVE FALSE
      OBVIOUS
    <3>3. CASE guest.object \in Kongs
      <4>1. guest.object # None /\ k # None
        BY <3>3, CoopAssumption
      <4>2. k = guest.active
        BY <2>1, <3>2, <3>3, <4>1 DEF HeldOwner
      <4> QED BY <1>1, <3>1, <4>2, TwoKongs DEF Paired
    <3>4. CASE guest.object \notin Kongs
      <4>1. guest.object = "item" /\ k = holder /\ k # None
        BY <1>1, <3>2, <3>4, OwnerIs, CoopAssumption
      <4>2. \A j \in Kongs : guest.state[j] = "carry" => j = k
        BY <4>1 DEF OwnerOK, Held
      <4>3. Carriers = {}
        BY <2>2, <4>2 DEF Carriers
      <4>4. Cardinality(Carriers) # 1
        BY <4>3, CarriersCounted
      <4>5. pickup # None /\ pickup.kong = k
        BY <2>1, <3>2, <3>4, <4>1, <4>4, CoopAssumption DEF HeldOwner
      <4> QED BY <2>1, <2>2, <4>1, <4>5 DEF PickerInFront
    <3> QED BY <3>3, <3>4
  <2>3. ASSUME k \in guest.back PROVE k = guest.inactive
    BY <2>1, <2>3 DEF BackOK, Behind
  <2>4. ASSUME k \in guest'.back PROVE guest'.state[k] \in {"wait", "leap", "carried", "thrown"}
    <3>1. k \in guest.back /\ k = guest.inactive
      BY <1>6, <2>3, <2>4
    <3>2. guest.state[k] \in {"wait", "leap", "carried", "thrown", "follow"}
      BY <2>1, <3>1 DEF BackOK, Behind
    <3>3. CASE KeepsWaiting(k)
      BY <1>3, <1>4, <3>3 DEF KeepsWaiting
    <3>4. CASE ~KeepsWaiting(k)
      <4>1. guest' = joined
        BY <1>3, <2>1, <3>4
      <4>2. guest'.state[k] = state /\ state # "idle"
        BY <1>1, <1>5, <2>4, <3>1, <4>1 DEF Guests
      <4>3. state = guest.state[k] \/ HeldOwner # k
        BY <2>2, <3>1, <3>2
      <4>4. state \in {"idle", guest.state[k]} /\ state # "follow"
        BY <3>2, <4>3 DEF Selected, FollowerNeedsControl
      <4> QED BY <3>2, <4>2, <4>4
    <3> QED BY <3>3, <3>4
  <2>5. ASSUME NEW b \in guest'.back PROVE Behind(guest', b)
    <3>1. b \in guest.back /\ b \in Kongs /\ Behind(guest, b)
      BY <1>1, <1>6, <2>1 DEF BackOK
    <3>2. CASE b = k
      BY <1>6, <2>4, <3>1, <3>2 DEF Behind
    <3>3. CASE b # k
      BY <1>6, <3>1, <3>3 DEF Behind
    <3> QED BY <3>2, <3>3
  <2>6. ASSUME NEW j \in gone, guest'.state[j] = "wait"
        PROVE  ~guest'.present /\ guest'.inactive = j /\ j \notin guest'.back
    <3>1. j \in Kongs /\ guest.state[j] = "wait"
      <4>1. CASE j = k
        BY <1>1, <1>11, <1>13, <2>6, <4>1
      <4>2. CASE j # k
        BY <1>1, <1>6, <2>6, <4>2
      <4> QED BY <4>1, <4>2
    <3>2. ~guest.present /\ guest.inactive = j /\ j \notin guest.back
      BY <2>1, <3>1 DEF BackOK
    <3>3. guest'.present = guest.present
      <4>1. CASE j = k
        BY <1>4, <1>11, <1>13, <3>1, <4>1
      <4>2. CASE j # k
        BY <1>1, <1>3, <1>4, <1>5, <3>2, <4>2
      <4> QED BY <4>1, <4>2
    <3> QED BY <1>6, <3>2, <3>3
  <2>7. BackOK(guest', gone')
    BY <1>2, <1>6, <2>1, <2>5, <2>6 DEF BackOK
  <2>8. PickerInFront(guest', pickup')
    BY <1>2, <1>6, <2>1 DEF PickerInFront
  <2> QED BY <2>7, <2>8
<1>14. "loss" \notin guest.scenes => gone' = {}
  BY <1>2 DEF LossInv
<1> QED BY <1>2, <1>6, <1>12, <1>13, <1>14, LossFrame

LEMMA PickUpLoss ==
  ASSUME CoopInv, LossInv, NEW k \in Kongs, PickUp(k)
  PROVE  LossInv'
<1>1. guest \in Guests /\ guest.state[k] = "idle" /\ "item" \notin Kongs
  BY RecordsTyped, CoopAssumption DEF PickUp
<1>2. /\ guest' = [guest EXCEPT !.object = "item"]
      /\ pickup' \in [id : {1, 2}, kong : {k}] \cup {None}
      /\ UNCHANGED <<mode, lost, saved, gone>>
  BY <1>1 DEF PickUp, Guests
<1>3. /\ guest'.scenes = guest.scenes /\ guest'.state = guest.state /\ guest'.due = guest.due
      /\ guest'.back = guest.back /\ guest'.present = guest.present
      /\ guest'.inactive = guest.inactive /\ guest'.reaction = guest.reaction
      /\ guest'.object = "item"
  BY <1>1, <1>2 DEF Guests
<1>4. ASSUME {"loss", "saves"} \subseteq guest.scenes
      PROVE  guest'.reaction # "mount" /\ PickerInFront(guest', pickup')
  <2>1. BackOK(guest, gone)
    BY <1>4 DEF LossInv
  <2>2. k \notin guest.back
    BY <1>1, <2>1 DEF BackOK, Behind
  <2> QED BY <1>2, <1>3, <2>1, <2>2 DEF BackOK, PickerInFront
<1>5. UNCHANGED <<mode, lost, saved, gone>> /\ guest'.object \notin Kongs
  BY <1>1, <1>2, <1>3
<1> QED BY <1>3, <1>4, <1>5, LossStays

\* Both are in the game when they team up.
LEMMA TeamUpLoss ==
  ASSUME CoopInv, LossInv, NEW k \in Kongs, TeamUp(k)
  PROVE  LossInv'
<1> DEFINE led == Led(guest, k)
           states == [q \in Kongs |-> IF q = k THEN "wait" ELSE "leap"]
           g == [led EXCEPT !.object = Other(k), !.due = Kongs, !.state = states]
<1>1. /\ guest \in Guests /\ Paired(guest) /\ lost = {} /\ guest.state[k] = "idle"
      /\ guest.state[Other(k)] \in {"idle", "wait", "follow"} /\ guest.reaction = None
      /\ gone \subseteq Kongs /\ guest.back \subseteq Kongs
  BY RecordsTyped DEF TeamUp, Guests
<1>2. /\ led \in Guests /\ Paired(led) /\ led.active = k /\ led.reaction = None
  BY <1>1, LedIsPaired
<1>11. led.scenes = guest.scenes /\ led.back = guest.back
  BY <1>1 DEF Led, Guests
<1>3. guest' = g /\ UNCHANGED <<mode, lost, pickup, saved, gone>>
  BY DEF TeamUp, records, history
<1> HIDE DEF led, states
<1>4. /\ g.inactive = Other(k) /\ g.reaction = None /\ g.scenes = guest.scenes
      /\ g.object = Other(k) /\ g.state = states /\ g.back = guest.back
  BY <1>2, <1>11 DEF Guests, Paired
<1> HIDE DEF g
<1>5. Other(k) \in Kongs /\ Other(k) # k /\ Other(k) # "item" /\ None # "mount"
  BY TwoKongs, CoopAssumption
<1>6. g.state[k] = "wait" /\ g.state[Other(k)] = "leap"
  BY <1>4, <1>5 DEF states
<1>7. ASSUME "loss" \in guest.scenes PROVE gone = {}
  <2>1. LossOK(guest, gone, lost)
    BY <1>7 DEF LossInv
  <2>2. \A j \in Kongs : guest.state[j] # "hurt"
    BY <1>1, TwoKongs
  <2> QED BY <1>1, <2>1, <2>2 DEF LossOK
<1>8. ASSUME "loss" \in guest.scenes PROVE LossOK(guest', gone', lost')
  <2>1. \A j \in Kongs : g.state[j] # "hurt"
    BY <1>6, TwoKongs
  <2> QED BY <1>3, <1>7, <1>8, <2>1 DEF LossOK
<1>9. ASSUME {"loss", "saves"} \subseteq guest.scenes
      PROVE  BackOK(guest', gone') /\ PickerInFront(guest', pickup')
  <2>1. BackOK(guest, gone)
    BY <1>9 DEF LossInv
  <2>2. k \notin guest.back
    BY <1>1, <2>1 DEF BackOK, Behind
  <2>3. \A b \in guest.back : b = Other(k)
    BY <1>1, <2>2, TwoKongs
  <2>4. \A b \in g.back : Behind(g, b)
    BY <1>4, <1>6, <2>3 DEF Behind
  <2>5. gone = {}
    BY <1>7, <1>9
  <2> QED BY <1>3, <1>4, <1>5, <2>4, <2>5 DEF BackOK, PickerInFront
<1>10. "loss" \notin guest.scenes => gone' = {}
  BY <1>3 DEF LossInv
<1> QED BY <1>3, <1>4, <1>8, <1>9, <1>10, LossFrame

\* In a game with losses and saves no mount is queued.
LEMMA ReactionLoss ==
  ASSUME SteadyGames, CoopInv, LossInv,
         \/ \E kind \in {"stomp", "mount"}, k \in Kongs : Accept(kind, k)
         \/ Stomp \/ Mount
  PROVE  LossInv'
<1>1. guest \in Guests /\ guest.scenes \in Games /\ None # "mount"
  BY RecordsTyped, CoopAssumption DEF Guests
<1>2. ASSUME NEW kind \in {"stomp", "mount"}, NEW k \in Kongs, Accept(kind, k) PROVE LossInv'
  <2>1. /\ guest'.scenes = guest.scenes /\ guest'.state = guest.state /\ guest'.due = guest.due
        /\ guest'.back = guest.back /\ guest'.present = guest.present
        /\ guest'.inactive = guest.inactive /\ guest'.reaction = kind
        /\ guest'.object = guest.object
    BY <1>1, <1>2 DEF Accept, Guests
  <2>2. UNCHANGED <<mode, lost, pickup, saved, gone>> /\ kind \in guest.scenes
    BY <1>2 DEF Accept
  <2>3. ASSUME {"loss", "saves"} \subseteq guest.scenes
        PROVE  guest'.reaction # "mount" /\ PickerInFront(guest', pickup')
    <3>1. kind # "mount"
      BY <1>1, <2>2, <2>3 DEF SteadyGames
    <3>2. PickerInFront(guest, pickup)
      BY <2>3 DEF LossInv
    <3> QED BY <2>1, <2>2, <3>1, <3>2 DEF PickerInFront
  <2> QED BY <2>1, <2>2, <2>3, LossStays
<1>3. CASE Stomp
  <2>1. /\ guest'.scenes = guest.scenes /\ guest'.state = guest.state /\ guest'.due = guest.due
        /\ guest'.back = guest.back /\ guest'.present = guest.present
        /\ guest'.inactive = guest.inactive /\ guest'.reaction = None
        /\ guest'.object = guest.object
    BY <1>1, <1>3 DEF Stomp, Guests
  <2>2. UNCHANGED <<mode, lost, pickup, saved, gone>>
    BY <1>3 DEF Stomp
  <2>3. {"loss", "saves"} \subseteq guest.scenes =>
          guest'.reaction # "mount" /\ PickerInFront(guest', pickup')
    BY <1>1, <2>1, <2>2 DEF LossInv, PickerInFront
  <2> QED BY <2>1, <2>2, <2>3, LossStays
<1>4. CASE Mount
  <2>1. /\ guest'.scenes = guest.scenes /\ guest'.state = guest.state /\ guest'.due = guest.due
        /\ guest'.back = guest.back /\ guest'.present = guest.present
        /\ guest'.object = guest.object
    BY <1>1, <1>4 DEF Mount, RideLeads, Led, Guests
  <2>2. UNCHANGED <<mode, lost, pickup, saved, gone>>
    BY <1>4 DEF Mount, history
  <2>3. ~({"loss", "saves"} \subseteq guest.scenes)
    BY <1>4 DEF LossInv, BackOK, Mount
  <2> QED BY <2>1, <2>2, <2>3, LossStays
<1> QED BY <1>2, <1>3, <1>4

\* Steps that say nothing about losses.
LEMMA OtherLoss ==
  ASSUME CoopInv, LossInv, TakeStompEvents \/ BananaSecondWidth \/ BananaNextPass \/ Dismount
  PROVE  LossInv'
<1>1. guest \in Guests
  BY RecordsTyped
<1>2. UNCHANGED <<mode, lost, pickup, saved, gone>>
  BY DEF TakeStompEvents, BananaSecondWidth, BananaNextPass, Dismount, Cartridge, records, history
<1>3. /\ guest'.scenes = guest.scenes /\ guest'.state = guest.state /\ guest'.due = guest.due
      /\ guest'.back = guest.back /\ guest'.present = guest.present
      /\ guest'.inactive = guest.inactive /\ guest'.reaction = guest.reaction
      /\ guest'.object = guest.object
  <2>1. CASE TakeStompEvents
    BY <2>1 DEF TakeStompEvents
  <2>2. CASE BananaSecondWidth
    BY <1>1, <2>2 DEF BananaSecondWidth, Guests
  <2>3. CASE BananaNextPass
    BY <1>1, <2>3 DEF BananaNextPass, Guests
  <2>4. CASE Dismount
    BY <1>1, <2>4 DEF Dismount, Cartridge, Guests
  <2> QED BY <2>1, <2>2, <2>3, <2>4
<1>4. {"loss", "saves"} \subseteq guest.scenes =>
        guest'.reaction # "mount" /\ PickerInFront(guest', pickup')
  BY <1>2, <1>3 DEF LossInv, BackOK, PickerInFront
<1> QED BY <1>2, <1>3, <1>4, LossStays

\* The policy changes only in games without losses.
LEMMA SetModeLoss ==
  ASSUME SteadyGames, CoopInv, LossInv, SetMode
  PROVE  LossInv'
<1>1. guest \in Guests /\ guest.scenes \in Games /\ "policy" \in guest.scenes
  BY RecordsTyped DEF SetMode, Guests
<1>2. "loss" \notin guest.scenes
  BY <1>1 DEF SteadyGames
<1>3. guest'.scenes = guest.scenes /\ UNCHANGED <<saved, gone>>
  BY <1>1 DEF SetMode, Guests
<1> QED BY <1>2, <1>3 DEF LossInv, SavedLoss

LEMMA SaveLoss ==
  ASSUME CoopInv, LossInv, Save
  PROVE  LossInv'
<1>1. /\ saved'.guest = guest /\ saved'.gone = gone /\ saved'.lost = lost
      /\ "saves" \in guest.scenes
      /\ UNCHANGED <<mode, lost, pickup, guest, gone>>
  BY DEF Save, records, history
<1>2. /\ "loss" \notin guest.scenes => gone = {}
      /\ "loss" \in guest.scenes => Sim /\ LossOK(guest, gone, lost) /\ BackOK(guest, gone)
      /\ {"loss", "saves"} \subseteq guest.scenes => PickerInFront(guest, pickup)
  BY <1>1 DEF LossInv
<1>3. SavedLoss'
  BY <1>1, <1>2 DEF SavedLoss
<1> QED BY <1>1, <1>2, <1>3 DEF LossInv, Sim

\* With or without the mask, a load knows who is lost in the snapshot.
LEMMA LoadLoss ==
  ASSUME CoopInv, LossInv, NEW recorded \in BOOLEAN, Load(recorded)
  PROVE  LossInv'
<1> DEFINE s == saved.guest
<1>1. /\ saved # None /\ guest' = [s EXCEPT !.due = Kongs]
      /\ lost' = Loaded(recorded) /\ gone' = saved.gone /\ pickup' = None
      /\ UNCHANGED <<mode, saved>>
  BY DEF Load, Cleared
<1>2. s \in Guests /\ saved.gone \subseteq Kongs
  BY <1>1 DEF CoopInv, SavedOK, GuestOK, Snapshots
<1>3. /\ "saves" \in guest.scenes /\ s.scenes = guest.scenes
      /\ "loss" \notin guest.scenes => saved.gone = {}
      /\ "loss" \in guest.scenes => LossOK(s, saved.gone, saved.lost) /\ BackOK(s, saved.gone)
  BY <1>1 DEF LossInv, SavedLoss
<1>4. /\ guest'.scenes = s.scenes /\ guest'.state = s.state /\ guest'.due = Kongs
      /\ guest'.back = s.back /\ guest'.present = s.present /\ guest'.object = s.object
      /\ guest'.inactive = s.inactive /\ guest'.reaction = s.reaction /\ s.back \subseteq Kongs
  BY <1>1, <1>2 DEF Guests
<1> HIDE DEF s
<1>5. ASSUME "loss" \in guest.scenes PROVE LossOK(guest', gone', lost')
  <2>1. ASSUME NEW j \in saved.gone, s.state[j] = "wait" PROVE j \in lost'
    <3>1. j \in saved.lost /\ ~s.present /\ s.inactive = j /\ j \notin s.back
      BY <1>3, <1>5, <2>1 DEF LossOK, BackOK
    <3> QED BY <1>1, <2>1, <3>1 DEF Loaded, s
  <2> QED BY <1>1, <1>2, <1>3, <1>4, <1>5, <2>1 DEF LossOK
<1>6. ASSUME "loss" \in guest.scenes PROVE BackOK(guest', gone')
  <2>1. \A b \in s.back : Behind(guest', b)
    BY <1>3, <1>4, <1>6 DEF BackOK, Behind
  <2> QED BY <1>1, <1>3, <1>4, <1>6, <2>1 DEF BackOK
<1>7. PickerInFront(guest', pickup')
  BY <1>1 DEF PickerInFront
<1> QED BY <1>1, <1>3, <1>4, <1>5, <1>6, <1>7, LossFrame

-----------------------------------------------------------------------------
\* What else a change of state leaves alone.
LEMMA BecomesWords ==
  ASSUME guest \in Guests, NEW k \in Kongs, NEW state \in Actions
  PROVE  /\ Becomes(k, state).scenes = guest.scenes
         /\ Becomes(k, state).due = guest.due \cup {k} /\ Becomes(k, state).back = guest.back
BY DEF Becomes, Guests

\* A Kong that is hurt was in front, and is dispatched before it leaves.
LEMMA HurtLoss ==
  ASSUME CoopInv, LossInv, NEW k \in Kongs, Hurt(k)
  PROVE  LossInv'
<1> DEFINE b == Becomes(k, "hurt")
           object == IF b.object \in Kongs \/ (b.object = "item" /\ holder = k)
                     THEN None ELSE b.object
           other == IF b.state[Other(k)] = "carried" THEN "thrown" ELSE b.state[Other(k)]
           g == [b EXCEPT !.object = object, !.state[Other(k)] = other]
<1>1. /\ guest \in Guests /\ gone \subseteq Kongs /\ guest.back \subseteq Kongs
      /\ None \notin Kongs /\ None # "item" /\ Other(k) \in Kongs /\ Other(k) # k
  BY RecordsTyped, CoopAssumption, TwoKongs DEF Guests
<1>2. /\ guest' = g /\ gone' = gone \cup {k} /\ "loss" \in guest.scenes
      /\ guest.state[k] \in {"idle", "carry", "follow"} /\ k \notin guest.due
      /\ Other(k) \notin gone /\ UNCHANGED <<mode, lost, pickup, saved>>
  BY DEF Hurt, Cartridge, records
<1>3. /\ b \in Guests /\ b.state = [guest.state EXCEPT ![k] = "hurt"] /\ b.object = guest.object
      /\ b.inactive = guest.inactive /\ b.present = guest.present /\ b.reaction = guest.reaction
      /\ b.scenes = guest.scenes /\ b.due = guest.due \cup {k} /\ b.back = guest.back
  BY <1>1, BecomesIs, BecomesWords DEF Actions
<1> HIDE DEF b
<1>4. /\ object \notin Kongs /\ (object = "item" => guest.object = "item")
  BY <1>1, <1>3
<1>5. b.state[Other(k)] = guest.state[Other(k)]
  BY <1>1, <1>3 DEF Guests
<1> HIDE DEF object, other
<1>6. /\ g.state = [b.state EXCEPT ![Other(k)] = other] /\ g.object = object
      /\ g.inactive = b.inactive /\ g.present = b.present /\ g.reaction = b.reaction
      /\ g.scenes = b.scenes /\ g.due = b.due /\ g.back = b.back
  BY <1>3 DEF Guests
<1> HIDE DEF g
<1>7. g.state[k] = "hurt" /\ g.state[Other(k)] = other
  BY <1>1, <1>3, <1>6 DEF Guests
<1>8. LossOK(guest, gone, lost)
  BY <1>2 DEF LossInv
<1>9. gone' = {k}
  BY <1>1, <1>2, TwoKongs
<1>10. LossOK(guest', gone', lost')
  <2>1. other # "hurt"
    BY <1>1, <1>2, <1>5, <1>8 DEF LossOK, other
  <2>2. \A j \in Kongs : g.state[j] = "hurt" => j = k
    BY <1>7, <2>1, TwoKongs
  <2>3. k \in g.due
    BY <1>3, <1>6
  <2> QED BY <1>1, <1>2, <1>4, <1>6, <1>7, <1>9, <2>2, <2>3 DEF LossOK
<1>11. ASSUME {"loss", "saves"} \subseteq guest.scenes
       PROVE  BackOK(guest', gone') /\ PickerInFront(guest', pickup')
  <2>1. BackOK(guest, gone) /\ PickerInFront(guest, pickup)
    BY <1>11 DEF LossInv
  <2>2. k \notin guest.back
    BY <1>2, <2>1 DEF BackOK, Behind
  <2>3. ASSUME NEW j \in guest.back PROVE Behind(g, j)
    <3>1. j = Other(k) /\ Behind(guest, j)
      BY <1>1, <2>1, <2>2, <2>3, TwoKongs DEF BackOK
    <3> QED BY <1>3, <1>5, <1>6, <1>7, <3>1 DEF Behind, other
  <2>4. BackOK(guest', gone')
    BY <1>2, <1>3, <1>6, <1>7, <1>9, <2>1, <2>3 DEF BackOK
  <2> QED BY <1>2, <1>3, <1>4, <1>6, <2>1, <2>4 DEF PickerInFront
<1>12. guest'.scenes = guest.scenes
  BY <1>2, <1>3, <1>6
<1> QED BY <1>2, <1>10, <1>11, <1>12, LossFrame

\* The one that stays leads, and nobody is behind any more.
LEMMA LeavesLoss ==
  ASSUME CoopInv, LossInv, NEW k \in Kongs, Leaves(k)
  PROVE  LossInv'
<1> DEFINE b == Becomes(k, "wait")
           a == SetActive(b, Other(k))
           prompt == "swap" \in guest.scenes
           masks == [a.mask EXCEPT ![k] = 0]
           other == IF "swap" \in guest.scenes /\ a.state[Other(k)] = "idle"
                    THEN "turn" ELSE a.state[Other(k)]
           states == [a.state EXCEPT ![Other(k)] = other]
           due == a.due \cup (IF "swap" \in guest.scenes /\ guest.state[Other(k)] = "idle"
                              THEN {k, Other(k)} ELSE {k})
           g == [a EXCEPT !.present = FALSE, !.mask = masks, !.prompt = prompt,
                          !.state = states, !.due = due]
<1>1. /\ guest \in Guests /\ gone \subseteq Kongs /\ guest.back \subseteq Kongs
      /\ Other(k) \in Kongs /\ Other(k) # k /\ Other(Other(k)) = k
  BY RecordsTyped, TwoKongs DEF Guests
<1>2. /\ Now(k, "hurt") /\ UNCHANGED <<mode, lost, pickup, saved, gone>>
      /\ guest.state[k] = "hurt" /\ k \notin guest.due
  BY DEF Leaves, Cartridge, records, Now
<1>3. /\ b \in Guests /\ b.state = [guest.state EXCEPT ![k] = "wait"] /\ b.object = guest.object
      /\ b.reaction = guest.reaction /\ b.scenes = guest.scenes
      /\ b.due = guest.due \cup {k} /\ b.back = guest.back
  BY <1>1, BecomesIs, BecomesWords DEF Actions
<1>4. guest' = [a EXCEPT
       !.present = FALSE, !.mask[k] = 0, !.prompt = "swap" \in guest.scenes,
       !.state[Other(k)] = IF "swap" \in guest.scenes /\ @ = "idle" THEN "turn" ELSE @,
       !.due = @ \cup (IF "swap" \in guest.scenes /\ guest.state[Other(k)] = "idle"
                       THEN {k, Other(k)} ELSE {k})]
  BY DEF Leaves, Cartridge
<1> HIDE DEF b
<1>5. /\ a \in Guests /\ a.state = b.state /\ a.inactive = k /\ a.back = b.back \ {Other(k)}
      /\ a.object = b.object /\ a.reaction = b.reaction /\ a.scenes = b.scenes /\ a.due = b.due
  <2>1. a \in Guests
    BY <1>1, <1>3, SetActiveIs
  <2> QED BY <1>1, <1>3, <2>1 DEF SetActive, Guests
<1> HIDE DEF a
<1>6. guest' = g
  BY <1>4, <1>5 DEF Guests
<1> HIDE DEF prompt, masks, states, due
<1>7. /\ g.state = states /\ g.inactive = k /\ g.back = a.back /\ g.object = a.object
      /\ g.reaction = a.reaction /\ g.scenes = a.scenes /\ g.due = due /\ g.present = FALSE
  BY <1>5 DEF Guests
<1> HIDE DEF g
<1>8. /\ g.state[k] = "wait"
      /\ g.state[Other(k)] = other
      /\ a.state[Other(k)] = guest.state[Other(k)]
  BY <1>1, <1>3, <1>5, <1>7 DEF states, Guests
<1>9. ASSUME "loss" \in guest.scenes
      PROVE  LossOK(guest, gone, lost) /\ gone = {k} /\ k \in lost /\ guest.object \notin Kongs
  <2>1. LossOK(guest, gone, lost)
    BY <1>9 DEF LossInv
  <2>2. k \in gone /\ Other(k) \notin gone
    BY <1>2, <2>1 DEF LossOK
  <2> QED BY <1>1, <1>2, <2>1, <2>2, TwoKongs DEF LossOK
<1>10. ASSUME "loss" \in guest.scenes PROVE LossOK(guest', gone', lost')
  <2>1. other # "hurt"
    BY <1>1, <1>8, <1>9, <1>10 DEF LossOK
  <2> QED BY <1>1, <1>2, <1>3, <1>5, <1>6, <1>7, <1>8, <1>9, <1>10, <2>1, TwoKongs DEF LossOK
<1>11. ASSUME {"loss", "saves"} \subseteq guest.scenes
       PROVE  BackOK(guest', gone') /\ PickerInFront(guest', pickup')
  <2>1. BackOK(guest, gone)
    BY <1>11 DEF LossInv
  <2>2. k \notin guest.back
    BY <1>2, <2>1 DEF BackOK, Behind
  <2>3. g.back = {}
    BY <1>1, <1>3, <1>5, <1>7, <2>2, TwoKongs
  <2>4. gone' = {k}
    BY <1>2, <1>9, <1>11
  <2> QED BY <1>3, <1>5, <1>6, <1>7, <2>1, <2>3, <2>4 DEF BackOK, PickerInFront
<1>12. "loss" \notin guest.scenes => gone' = {}
  BY <1>2 DEF LossInv
<1>13. guest'.scenes = guest.scenes
  BY <1>3, <1>5, <1>6, <1>7
<1> QED BY <1>2, <1>10, <1>11, <1>12, <1>13, LossFrame

\* Only the rescue brings a lost Kong back.
LEMMA RescueLoss ==
  ASSUME CoopInv, LossInv, NEW k \in Kongs, Rescue(k)
  PROVE  LossInv'
<1> DEFINE b == Becomes(k, "rescued")
           g == [b EXCEPT !.present = TRUE]
<1>1. /\ guest \in Guests /\ gone \subseteq Kongs /\ guest.back \subseteq Kongs
  BY RecordsTyped DEF Guests
<1>2. /\ guest' = g /\ UNCHANGED <<mode, lost, pickup, saved>> /\ gone' = gone \ {k}
      /\ k \in gone /\ guest.state[k] = "wait"
  BY DEF Rescue, Cartridge, records, Now
<1>3. /\ b \in Guests /\ b.state = [guest.state EXCEPT ![k] = "rescued"] /\ b.object = guest.object
      /\ b.inactive = guest.inactive /\ b.reaction = guest.reaction /\ b.scenes = guest.scenes
      /\ b.back = guest.back
  BY <1>1, BecomesIs, BecomesWords DEF Actions
<1> HIDE DEF b
<1>4. /\ g.state = b.state /\ g.object = b.object /\ g.inactive = b.inactive
      /\ g.reaction = b.reaction /\ g.scenes = b.scenes /\ g.back = b.back
  BY <1>3 DEF Guests
<1> HIDE DEF g
<1>5. ASSUME "loss" \in guest.scenes PROVE LossOK(guest, gone, lost) /\ gone' = {}
  <2>1. LossOK(guest, gone, lost)
    BY <1>5 DEF LossInv
  <2> QED BY <1>1, <1>2, <2>1, TwoKongs DEF LossOK
<1>6. ASSUME "loss" \in guest.scenes PROVE LossOK(guest', gone', lost')
  <2>1. \A j \in Kongs : guest.state[j] = "hurt" => j \in gone /\ j # k
    BY <1>2, <1>5, <1>6 DEF LossOK
  <2>2. \A j \in Kongs : guest.state[j] # "hurt"
    BY <1>2, <1>5, <1>6, <2>1
  <2>3. \A j \in Kongs : g.state[j] # "hurt"
    BY <1>1, <1>3, <1>4, <2>2 DEF Guests
  <2> QED BY <1>2, <1>5, <1>6, <2>3 DEF LossOK
<1>7. ASSUME {"loss", "saves"} \subseteq guest.scenes
      PROVE  BackOK(guest', gone') /\ PickerInFront(guest', pickup')
  <2>1. BackOK(guest, gone)
    BY <1>7 DEF LossInv
  <2>2. guest.back = {}
    BY <1>1, <1>2, <2>1 DEF BackOK, Behind
  <2> QED BY <1>2, <1>3, <1>4, <1>5, <1>7, <2>1, <2>2 DEF BackOK, PickerInFront
<1>8. "loss" \notin guest.scenes => gone' = {}
  BY <1>2 DEF LossInv
<1>9. guest'.scenes = guest.scenes
  BY <1>2, <1>3, <1>4
<1> QED BY <1>2, <1>6, <1>7, <1>8, <1>9, LossFrame

LEMMA PlaysLoss ==
  ASSUME CoopInv, LossInv, NEW k \in Kongs, Plays(k)
  PROVE  LossInv'
<1>1. /\ guest \in Guests /\ HandsOpen(guest) /\ gone \subseteq Kongs /\ guest.back \subseteq Kongs
      /\ Other(k) \in Kongs /\ Other(k) # k /\ None \notin Kongs /\ None # "item"
  BY RecordsTyped, TwoKongs, CoopAssumption DEF Guests
<1>2. UNCHANGED <<mode, lost, pickup, saved, gone>>
  BY DEF Plays, Cartridge, records
<1>3. "loss" \in guest.scenes => LossOK(guest, gone, lost) /\ Sim
  BY DEF LossInv
<1>4. {"loss", "saves"} \subseteq guest.scenes => BackOK(guest, gone) /\ PickerInFront(guest, pickup)
  BY DEF LossInv
<1>5. "loss" \notin guest.scenes => gone' = {}
  BY <1>2 DEF LossInv
<1>6. ASSUME NEW state \in Actions, state # "hurt", guest' = Becomes(k, state),
             guest.state[k] \in {"idle", "carry", "jump", "rope", "rescued"}
      PROVE  LossInv'
  BY <1>1, <1>2, <1>6, BecomesIs, BecomesWords, FrontMoves
<1>7. CASE Now(k, "rescued") /\ Cartridge(Becomes(k, "follow"))
  BY <1>6, <1>7 DEF Now, Actions, Cartridge
<1>8. CASE /\ Now(k, "wait") /\ k \notin gone /\ k = guest.inactive
           /\ Cartridge([Becomes(k, "follow") EXCEPT !.present = TRUE])
  <2> DEFINE b == Becomes(k, "follow")
             g == [b EXCEPT !.present = TRUE]
  <2>1. /\ b \in Guests /\ b.state = [guest.state EXCEPT ![k] = "follow"]
        /\ b.inactive = guest.inactive /\ b.object = guest.object /\ b.reaction = guest.reaction
        /\ b.scenes = guest.scenes /\ b.due = guest.due \cup {k} /\ b.back = guest.back
    BY <1>1, BecomesIs, BecomesWords DEF Actions
  <2>2. guest' = g
    BY <1>8 DEF Cartridge
  <2> HIDE DEF b
  <2>3. /\ g.state = b.state /\ g.inactive = b.inactive /\ g.object = b.object
        /\ g.reaction = b.reaction /\ g.scenes = b.scenes /\ g.due = b.due /\ g.back = b.back
    BY <2>1 DEF Guests
  <2> HIDE DEF g
  <2>4. \A j \in Kongs : g.state[j] = IF j = k THEN "follow" ELSE guest.state[j]
    BY <1>1, <2>1, <2>3 DEF Guests
  <2>5. k \in g.due
    BY <2>1, <2>3
  <2>6. ASSUME "loss" \in guest.scenes PROVE LossOK(guest', gone', lost')
    <3>1. \A j \in gone : j \in Kongs /\ g.state[j] = guest.state[j]
      BY <1>1, <1>8, <2>4
    <3> QED BY <1>2, <1>3, <2>1, <2>2, <2>3, <2>4, <2>6, <3>1 DEF LossOK
  <2>7. ASSUME {"loss", "saves"} \subseteq guest.scenes
        PROVE  BackOK(guest', gone') /\ PickerInFront(guest', pickup')
    <3>1. \A j \in guest.back : Behind(g, j)
      BY <1>1, <1>4, <2>1, <2>3, <2>4, <2>5, <2>7 DEF BackOK, Behind
    <3>2. \A j \in gone : g.state[j] # "wait"
      BY <1>1, <1>4, <1>8, <2>4, <2>7 DEF BackOK
    <3> QED BY <1>2, <1>4, <2>1, <2>2, <2>3, <2>7, <3>1, <3>2 DEF BackOK, PickerInFront
  <2> QED BY <1>2, <1>5, <2>1, <2>2, <2>3, <2>6, <2>7, LossFrame
<1>9. CASE /\ guest.state[k] \in {"idle", "carry"}
           /\ Cartridge([Becomes(k, "follow") EXCEPT !.mask[k] = 6])
  <2> DEFINE b == Becomes(k, "follow")
  <2>1. /\ b \in Guests /\ b.state = [guest.state EXCEPT ![k] = "follow"]
        /\ b.inactive = guest.inactive /\ b.object = guest.object /\ b.reaction = guest.reaction
        /\ b.scenes = guest.scenes /\ b.due = guest.due \cup {k} /\ b.back = guest.back
        /\ b.present = guest.present
    BY <1>1, BecomesIs, BecomesWords DEF Actions
  <2> HIDE DEF b
  <2>2. guest' = [b EXCEPT !.mask[k] = 6] /\ "follow" \in Actions
    BY <1>9 DEF Cartridge, b, Actions
  <2>3. /\ guest'.state = b.state /\ guest'.inactive = b.inactive /\ guest'.object = b.object
        /\ guest'.reaction = b.reaction /\ guest'.scenes = b.scenes /\ guest'.due = b.due
        /\ guest'.back = b.back /\ guest'.present = b.present
    BY <2>1, <2>2 DEF Guests
  <2>4. "follow" # "hurt"
    OBVIOUS
  <2> QED BY <1>2, <1>9, <2>1, <2>2, <2>3, <2>4, FrontMoves
<1>10. CASE Now(k, "jump") /\ Cartridge(Becomes(k, "idle"))
  BY <1>6, <1>10 DEF Now, Actions, Cartridge
<1>11. ASSUME NEW mine \in {"carry", "idle"}, NEW its \in {"carried", "thrown"}, NEW g \in Guests,
              guest' = g, g.state = [guest.state EXCEPT ![k] = mine, ![Other(k)] = its],
              g.due = Kongs, g.object = guest.object \/ g.object = None,
              g.inactive = guest.inactive, g.reaction = guest.reaction,
              g.present = guest.present, g.scenes = guest.scenes, g.back = guest.back,
              guest.object = Other(k),
              {"loss", "saves"} \subseteq guest.scenes =>
                k \notin guest.back \/ guest.inactive = Other(k)
       PROVE  LossInv'
  <2>1. g.state[k] = mine /\ g.state[Other(k)] = its
    BY <1>1, <1>11 DEF Guests
  <2>2. ASSUME "loss" \in guest.scenes PROVE LossOK(guest', gone', lost') /\ gone' = {}
    <3>1. gone' = {}
      BY <1>1, <1>2, <1>3, <1>11, <2>2 DEF LossOK
    <3>2. \A j \in Kongs : g.state[j] # "hurt"
      BY <1>11, <2>1, TwoKongs
    <3> QED BY <1>11, <3>1, <3>2 DEF LossOK
  <2>3. ASSUME {"loss", "saves"} \subseteq guest.scenes
        PROVE  BackOK(guest', gone') /\ PickerInFront(guest', pickup')
    <3>1. \A j \in guest.back : j = guest.inactive /\ j = Other(k)
      BY <1>1, <1>4, <1>11, <2>3, TwoKongs DEF BackOK, Behind
    <3>2. \A j \in g.back : Behind(g, j)
      BY <1>11, <2>1, <3>1 DEF Behind
    <3>3. g.object # "item"
      BY <1>1, <1>11, CoopAssumption
    <3> QED BY <1>4, <1>11, <2>2, <2>3, <3>2, <3>3 DEF BackOK, PickerInFront
  <2> QED BY <1>2, <1>5, <1>11, <2>2, <2>3, LossFrame
<1>12. CASE /\ Now(k, "wait") /\ Now(Other(k), "leap") /\ guest.object = Other(k)
            /\ Cartridge([Becomes(k, "carry") EXCEPT !.due = Kongs, !.state[Other(k)] = "carried"])
  <2> DEFINE b == Becomes(k, "carry")
             g == [b EXCEPT !.due = Kongs, !.state[Other(k)] = "carried"]
  <2>1. /\ b \in Guests /\ b.state = [guest.state EXCEPT ![k] = "carry"]
        /\ b.inactive = guest.inactive /\ b.object = guest.object /\ b.reaction = guest.reaction
        /\ b.scenes = guest.scenes /\ b.back = guest.back /\ b.present = guest.present
    BY <1>1, BecomesIs, BecomesWords DEF Actions
  <2>2. guest' = g /\ guest.inactive = Other(k)
    BY <1>1, <1>12 DEF Cartridge, Now, HandsOpen, InTheAir
  <2> HIDE DEF b
  <2>3. /\ g \in Guests /\ g.state = [b.state EXCEPT ![Other(k)] = "carried"]
        /\ g.inactive = b.inactive /\ g.object = b.object /\ g.reaction = b.reaction
        /\ g.scenes = b.scenes /\ g.back = b.back /\ g.present = b.present /\ g.due = Kongs
    <3>1. g \in Guests
      BY <1>1, <2>1 DEF Guests, Actions
    <3> QED BY <2>1, <3>1 DEF Guests
  <2> HIDE DEF g
  <2>4. g.state = [guest.state EXCEPT ![k] = "carry", ![Other(k)] = "carried"]
    BY <2>1, <2>3
  <2> QED BY <1>11, <1>12, <2>1, <2>2, <2>3, <2>4
<1>13. CASE /\ Now(k, "carry") /\ guest.object = Other(k)
            /\ Cartridge([Becomes(k, "idle") EXCEPT !.object = None, !.due = Kongs,
                                                    !.state[Other(k)] = "thrown"])
  <2> DEFINE b == Becomes(k, "idle")
             g == [b EXCEPT !.object = None, !.due = Kongs, !.state[Other(k)] = "thrown"]
  <2>1. /\ b \in Guests /\ b.state = [guest.state EXCEPT ![k] = "idle"]
        /\ b.inactive = guest.inactive /\ b.reaction = guest.reaction
        /\ b.scenes = guest.scenes /\ b.back = guest.back /\ b.present = guest.present
    BY <1>1, BecomesIs, BecomesWords DEF Actions
  <2>2. guest' = g
    BY <1>13 DEF Cartridge
  <2> HIDE DEF b
  <2>3. /\ g \in Guests /\ g.state = [b.state EXCEPT ![Other(k)] = "thrown"]
        /\ g.inactive = b.inactive /\ g.object = None /\ g.reaction = b.reaction
        /\ g.scenes = b.scenes /\ g.back = b.back /\ g.present = b.present /\ g.due = Kongs
    <3>1. g \in Guests
      BY <1>1, <2>1 DEF Guests, Actions
    <3> QED BY <2>1, <3>1 DEF Guests
  <2> HIDE DEF g
  <2>4. g.state = [guest.state EXCEPT ![k] = "idle", ![Other(k)] = "thrown"]
    BY <2>1, <2>3
  <2>5. {"loss", "saves"} \subseteq guest.scenes => k \notin guest.back
    BY <1>4, <1>13 DEF BackOK, Behind, Now
  <2> QED BY <1>11, <1>13, <2>1, <2>2, <2>3, <2>4, <2>5
<1>14. CASE Now(k, "thrown") /\ ~Sim /\ Cartridge(Becomes(k, "follow"))
  <2>1. "loss" \notin guest.scenes
    BY <1>3, <1>14
  <2>2. guest'.scenes = guest.scenes
    BY <1>1, <1>14, BecomesWords DEF Cartridge, Actions
  <2> QED BY <1>2, <1>5, <2>1, <2>2, LossFrame
<1>15. ASSUME Now(k, "idle"), NEW p \in SUBSET {k},
              Cartridge([Becomes(k, "rope") EXCEPT !.parked = @ \cup p])
       PROVE  LossInv'
  <2> DEFINE b == Becomes(k, "rope")
  <2>1. /\ b \in Guests /\ b.state = [guest.state EXCEPT ![k] = "rope"]
        /\ b.inactive = guest.inactive /\ b.object = guest.object /\ b.reaction = guest.reaction
        /\ b.scenes = guest.scenes /\ b.due = guest.due \cup {k} /\ b.back = guest.back
        /\ b.present = guest.present
    BY <1>1, BecomesIs, BecomesWords DEF Actions
  <2> HIDE DEF b
  <2>2. /\ guest' = [b EXCEPT !.parked = @ \cup p] /\ "rope" \in Actions /\ "rope" # "hurt"
        /\ guest.state[k] = "idle"
    BY <1>15 DEF Cartridge, b, Actions, Now
  <2>3. /\ guest'.state = b.state /\ guest'.inactive = b.inactive /\ guest'.object = b.object
        /\ guest'.reaction = b.reaction /\ guest'.scenes = b.scenes /\ guest'.due = b.due
        /\ guest'.back = b.back /\ guest'.present = b.present
    BY <2>1, <2>2 DEF Guests
  <2> QED BY <1>2, <2>1, <2>2, <2>3, FrontMoves
<1>16. CASE Now(k, "rope") /\ Cartridge(Becomes(k, "idle"))
  BY <1>6, <1>16 DEF Now, Actions, Cartridge
<1> QED BY <1>7, <1>8, <1>9, <1>10, <1>12, <1>13, <1>14, <1>15, <1>16 DEF Plays

LEMMA ItemLoss ==
  ASSUME CoopInv, LossInv, NEW k \in Kongs, Item(k)
  PROVE  LossInv'
<1>1. guest \in Guests
  BY RecordsTyped
<1>2. UNCHANGED <<mode, lost, pickup, saved, gone>>
  BY DEF Item, Cartridge, records
<1>3. CASE Now(k, "idle") /\ Cartridge(Becomes(k, "carry"))
  <2>1. "carry" \in Actions /\ "carry" # "hurt" /\ guest' = Becomes(k, "carry") /\ guest.state[k] = "idle"
    BY <1>3 DEF Actions, Cartridge, Now
  <2> QED BY <1>1, <1>2, <2>1, BecomesIs, BecomesWords, FrontMoves
<1>4. ASSUME Now(k, "carry"), NEW id \in {1, 2},
             Cartridge([Becomes(k, "idle") EXCEPT !.object = None, !.id = id])
      PROVE  LossInv'
  <2> DEFINE b == Becomes(k, "idle")
  <2>1. /\ b \in Guests /\ b.state = [guest.state EXCEPT ![k] = "idle"]
        /\ b.inactive = guest.inactive /\ b.reaction = guest.reaction
        /\ b.scenes = guest.scenes /\ b.due = guest.due \cup {k} /\ b.back = guest.back
        /\ b.present = guest.present
    BY <1>1, BecomesIs, BecomesWords DEF Actions
  <2> HIDE DEF b
  <2>2. /\ guest' = [b EXCEPT !.object = None, !.id = id] /\ "idle" \in Actions /\ "idle" # "hurt"
        /\ guest.state[k] = "carry"
    BY <1>4 DEF Cartridge, b, Actions, Now
  <2>3. /\ guest'.state = b.state /\ guest'.inactive = b.inactive /\ guest'.object = None
        /\ guest'.reaction = b.reaction /\ guest'.scenes = b.scenes /\ guest'.due = b.due
        /\ guest'.back = b.back /\ guest'.present = b.present
    BY <2>1, <2>2 DEF Guests
  <2> QED BY <1>2, <2>1, <2>2, <2>3, FrontMoves
<1> QED BY <1>3, <1>4 DEF Item

LEMMA SwapLoss ==
  ASSUME CoopInv, LossInv, Swap
  PROVE  LossInv'
<1> DEFINE a == SetActive(guest, guest.inactive)
           states == [k \in Kongs |-> IF k = guest.inactive THEN "idle" ELSE "follow"]
           masks == [k \in Kongs |-> IF k = guest.inactive THEN 30 ELSE 6]
           g == [a EXCEPT !.state = states, !.mask = masks, !.back = {guest.active}, !.due = Kongs]
<1>1. /\ guest \in Guests /\ guest.active \in Kongs /\ guest.inactive = Other(guest.active)
      /\ guest.inactive \in Kongs /\ gone = {} /\ guest.object = None
  BY RecordsTyped DEF Guests, Paired, Swap
<1>2. guest' = g /\ UNCHANGED <<mode, lost, pickup, saved, gone>>
  BY DEF Swap, Cartridge, records
<1>3. /\ a \in Guests /\ a.inactive = guest.active /\ a.object = guest.object
      /\ a.reaction = guest.reaction /\ a.scenes = guest.scenes
  <2>1. a \in Guests
    BY <1>1, SetActiveIs
  <2> QED BY <1>1, <2>1, TwoKongs DEF SetActive, Guests
<1> HIDE DEF a, states, masks
<1>4. /\ g.state = states /\ g.back = {guest.active} /\ g.due = Kongs
      /\ g.inactive = guest.active /\ g.object = None
      /\ g.reaction = guest.reaction /\ g.scenes = guest.scenes
  BY <1>1, <1>3 DEF Guests
<1> HIDE DEF g
<1>5. g.state[guest.active] = "follow" /\ \A j \in Kongs : g.state[j] # "hurt"
  BY <1>1, <1>4, TwoKongs DEF states
<1>6. LossOK(guest', gone', lost')
  BY <1>1, <1>2, <1>5 DEF LossOK
<1>7. ASSUME {"loss", "saves"} \subseteq guest.scenes
      PROVE  BackOK(guest', gone') /\ PickerInFront(guest', pickup')
  <2>1. Behind(g, guest.active)
    BY <1>1, <1>4, <1>5 DEF Behind
  <2>2. guest.reaction # "mount" /\ None # "item"
    BY <1>7, CoopAssumption DEF LossInv, BackOK
  <2> QED BY <1>1, <1>2, <1>4, <2>1, <2>2 DEF BackOK, PickerInFront
<1> QED BY <1>1, <1>2, <1>4, <1>6, <1>7, LossFrame

LEMMA LossStarts == SteadyGames /\ Init => LossInv
<1> SUFFICES ASSUME SteadyGames, Init PROVE LossInv
  OBVIOUS
<1>1. PICK game \in Games :
        /\ mode \in IF "policy" \in game THEN {"simultaneous", "classic"} ELSE {"simultaneous"}
        /\ guest.scenes = game /\ guest.inactive = B /\ guest.back = {B} /\ guest.object = None
        /\ guest.state = [k \in Kongs |-> IF k = A THEN "idle" ELSE "wait"]
        /\ guest.reaction = None /\ saved = None /\ gone = {}
  BY DEF Init
<1>2. "loss" \in guest.scenes => Sim
  BY <1>1 DEF SteadyGames, Sim
<1>3. B \in Kongs /\ A # B /\ None # "mount" /\ None # "item"
  BY CoopAssumption DEF Kongs
<1>4. LossOK(guest, gone, lost)
  BY <1>1 DEF LossOK
<1>5. Behind(guest, B)
  BY <1>1, <1>3 DEF Behind
<1>6. BackOK(guest, gone) /\ PickerInFront(guest, pickup)
  BY <1>1, <1>3, <1>5 DEF BackOK, PickerInFront
<1> QED BY <1>1, <1>2, <1>4, <1>6 DEF LossInv, SavedLoss

LEMMA LossSteps ==
  ASSUME SteadyGames, CoopInv, OwnerOK, LossInv, [Next]_vars
  PROVE  LossInv'
<1>1. CASE UNCHANGED vars
  BY <1>1 DEF vars, records, history, LossInv, SavedLoss, Sim
<1>2. ASSUME NEW k \in Kongs,
             \/ \E hold, grounded \in BOOLEAN : Dispatch(k, hold, grounded)
             \/ PickUp(k) \/ TeamUp(k)
             \/ \E kind \in {"stomp", "mount"} : Accept(kind, k)
             \/ Hurt(k) \/ Leaves(k) \/ Rescue(k) \/ Plays(k) \/ Item(k)
      PROVE  LossInv'
  BY <1>2, DispatchLoss, PickUpLoss, TeamUpLoss, ReactionLoss, HurtLoss, LeavesLoss, RescueLoss,
     PlaysLoss, ItemLoss
<1>3. CASE \/ Stomp \/ Mount \/ TakeStompEvents \/ BananaSecondWidth \/ BananaNextPass
           \/ SetMode \/ Save \/ (\E recorded \in BOOLEAN : Load(recorded))
           \/ Dismount \/ Swap
  BY <1>3, ReactionLoss, OtherLoss, SetModeLoss, SaveLoss, LoadLoss, SwapLoss
<1> QED BY <1>1, <1>2, <1>3 DEF Next

\* A Kong out of the game waits for its rescue, whatever is pressed: the mask
\* of dkc2_coop.c knows it before its first wait is dispatched, and a load
\* finds it again, also in a snapshot without the mask.
THEOREM LossesAreKept == SteadyGames => (Spec => []LostUntilRescued)
<1> SUFFICES ASSUME SteadyGames PROVE Spec => []LostUntilRescued
  OBVIOUS
<1>1. ASSUME CoopInv, LossInv PROVE LostUntilRescued
  BY <1>1 DEF LossInv, LossOK, LostUntilRescued
<1>2. Init => OwnerOK /\ LossInv
  BY OwnerStarts, LossStarts
<1>3. ASSUME CoopInv, OwnerOK, LossInv, [Next]_vars PROVE OwnerOK' /\ LossInv'
  BY <1>3, OwnerSteps, LossSteps
<1> QED BY <1>1, <1>2, <1>3, CoopHolds, PTL DEF Spec
=============================================================================
