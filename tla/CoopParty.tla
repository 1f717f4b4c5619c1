----------------------------- MODULE CoopParty ------------------------------
(***************************************************************************)
(* The policy that lets both players of the cartridge's TEAM mode play at  *)
(* once (runner/dkc2_coop.c), against the cartridge it adjusts.            *)
(*                                                                         *)
(* "guest" holds the cartridge's words the policy reads and writes; the    *)
(* actions named after the cartridge are what its code does to them.  A    *)
(* Kong's action state is named for what it does ($2E of its slot).        *)
(***************************************************************************)
EXTENDS Integers, FiniteSets

CONSTANTS A, B,       \* the two Kong slots
          None,
          Games,      \* what happens in a game: a set of parts of AllScenes (bound)
          MaxSaves    \* bound on the snapshots taken

Kongs == {A, B}
Other(k) == IF k = A THEN B ELSE A
Port(k)  == IF k = A THEN 1 ELSE 2
AllScenes == {"loss", "items", "team", "stomp", "mount", "bananas", "ropes", "swap",
              "saves", "policy"}

ASSUME CoopAssumption ==
  /\ A # B /\ "item" \notin Kongs
  /\ None \notin Kongs \cup {"item", "enemy", "animal", "stomp", "mount"}
  /\ None \notin [source : {"enemy", "animal"}, kong : Kongs]
  /\ Games \subseteq SUBSET AllScenes /\ MaxSaves \in Nat

\* $0, $13, $22, $24/$25/$05/$59, $3E, $0C/$0F/$3F, on the way into and in the
\* partner's hands, $21, $6F, $06 and $36.
Actions == {"idle", "wait", "follow", "hurt", "rescued", "carry", "leap", "carried", "thrown",
            "turn", "jump", "rope"}

VARIABLES
  mode,     \* s_coop_mode
  lost,     \* s_lost_mask
  stomp,    \* s_stomp_source and s_stomp_kong, or None
  mount,    \* s_mount_source and s_mount_kong, or None
  pickup,   \* s_held_id and s_held_kong, or None
  pass,     \* s_banana_extra_pass
  kept,     \* s_banana_second_bounds
  events,   \* s_stomp_events, as controller numbers
  guest,    \* the cartridge's words
  saved,    \* a snapshot, or None
  saves,    \* snapshots taken
  gone,     \* history: the Kongs the cartridge has taken out of the game
  holder,   \* history: the Kong that picked the item up
  struck    \* history: the Kong whose collision is queued, while the policy knows it

records == <<stomp, mount, pickup, pass, kept, events>>
history == <<gone, holder, struck>>
vars == <<mode, lost, records, guest, saved, saves, history>>

Guests ==
  [scenes : Games,
   active : Kongs, inactive : Kongs,          \* $0593, $0597
   work : Kongs, otherWork : Kongs,           \* $0595, $0599: whose work area
   port : {1, 2},                             \* $08A2, and $08A4
   state : [Kongs -> Actions],
   due : SUBSET Kongs,                        \* not dispatched yet in this frame
   mask : [Kongs -> {0, 6, 24, 30}],          \* $30: interaction mask
   back : SUBSET Kongs,                       \* $02 = $D8: the back render order
   present : BOOLEAN,                         \* bit $4000 of $08C2
   prompt : BOOLEAN,                          \* bit $0100 of $08C2, the turn's pause
   parked : SUBSET Kongs,                     \* at the end of a rope transition's script
   object : Kongs \cup {"item", None},        \* $0D7A
   id : {1, 2},                               \* the sprite id in the item's slot
   reaction : {"stomp", "mount", None},       \* $0A82
   source : {"enemy", "animal", None},        \* $0A84
   riding : BOOLEAN,                          \* $6E
   rect : {"animal", "follower"},             \* the second banana rectangle
   group : BOOLEAN]                           \* a banana group is being walked

Snapshots == [guest : Guests, lost : SUBSET Kongs, gone : SUBSET Kongs, holder : Kongs \cup {None},
              struck : Kongs \cup {None}]

\* The Kong a queued reaction was accepted for under the simultaneous policy,
\* and whether nothing has erased the policy's record of it since.
Strikes == [kong : Kongs \cup {None}, known : BOOLEAN]
NoStrike == [kong |-> None, known |-> FALSE]

TypeOK ==
  /\ mode \in {"simultaneous", "classic"} /\ lost \subseteq Kongs
  /\ stomp \in [source : {"enemy", "animal"}, kong : Kongs] \cup {None}
  /\ mount \in [source : {"enemy", "animal"}, kong : Kongs] \cup {None}
  /\ pickup \in [id : {1, 2}, kong : Kongs] \cup {None}
  /\ pass \in BOOLEAN /\ kept \in {"animal", "follower"}
  /\ events \subseteq {1, 2} /\ guest \in Guests
  /\ saved \in Snapshots \cup {None} /\ saves \in 0 .. MaxSaves
  /\ gone \subseteq Kongs /\ holder \in Kongs \cup {None}
  /\ struck \in Strikes

\* A level of a new TEAM game: B follows in its script's first wait.
Init ==
  \E game \in Games :
    /\ mode \in IF "policy" \in game THEN {"simultaneous", "classic"} ELSE {"simultaneous"}
    /\ lost = {} /\ stomp = None /\ mount = None /\ pickup = None
    /\ pass = FALSE /\ kept = "animal" /\ events = {}
    /\ guest = [scenes |-> game, active |-> A, inactive |-> B, work |-> A, otherWork |-> B,
                port |-> 1, state |-> [k \in Kongs |-> IF k = A THEN "idle" ELSE "wait"],
                due |-> Kongs, mask |-> [k \in Kongs |-> IF k = A THEN 30 ELSE 0],
                back |-> {B}, present |-> FALSE, prompt |-> FALSE, parked |-> {},
                object |-> None, id |-> 1, reaction |-> None, source |-> None,
                riding |-> FALSE, rect |-> "animal", group |-> FALSE]
    /\ saved = None /\ saves = 0
    /\ gone = {} /\ holder = None /\ struck = NoStrike

Sim == mode = "simultaneous"         \* CoopEnabled, in a TEAM game

-----------------------------------------------------------------------------
\* Mutant: the selectors are swapped without their work areas.
LedSelectorsOnly(g, k) ==
  IF k # g.inactive THEN g
  ELSE [g EXCEPT !.active = k, !.inactive = g.active, !.port = Port(k)]

\* CoopMakeLeader.
Led(g, k) ==
  IF k # g.inactive THEN g
  ELSE [g EXCEPT !.active = k, !.inactive = g.active, !.work = g.otherWork,
                 !.otherWork = g.work, !.port = Port(k)]

\* Mutant: only the pickup record names the owner.
RecordedOwner ==
  IF Sim /\ guest.object # None /\ pickup # None /\ pickup.id = guest.id
  THEN pickup.kong ELSE None

Carriers == {k \in Kongs : guest.state[k] = "carry"}

\* CoopHeldOwner.
HeldOwner ==
  CASE ~Sim \/ guest.object = None -> None
    [] Sim /\ guest.object \in Kongs ->
         IF guest.object = guest.inactive /\ guest.active = Other(guest.object)
         THEN guest.active ELSE None
    [] OTHER ->
         IF Cardinality(Carriers) = 1 THEN CHOOSE k \in Kongs : k \in Carriers
         ELSE IF pickup # None /\ pickup.id = guest.id THEN pickup.kong ELSE None

\* Dkc2CoopFollowerNeedsControl.
FollowerNeedsControl(state, hold) == state = "follow" \/ (state = "wait" /\ hold)

\* What the dispatch of a state does to the loss mask.
LostAfter(k) == IF guest.state[k] = "hurt" THEN lost \cup {k}
                ELSE IF guest.state[k] = "rescued" THEN lost \ {k} ELSE lost

\* Mutant: a carrier's wait ends with input.
KeepsWaitingLost(k) == guest.state[k] = "wait" /\ k \in lost

\* A wait that input does not end: lost, or the partner is jumping into its hands.
KeepsWaiting(k) ==
  /\ guest.state[k] = "wait"
  /\ k \in lost \/ (guest.object \in Kongs /\ HeldOwner = k)

\* The state a Kong is dispatched to.
Selected(k, hold, grounded) ==
  LET original == guest.state[k]
      selected ==
        CASE FollowerNeedsControl(original, hold) -> "idle"
          [] original = "thrown" /\ guest.object = None /\ k \notin lost /\ grounded -> "idle"
          [] original = "turn" -> "jump"
          [] OTHER -> original
  IN  IF selected # original /\ HeldOwner = k THEN "carry" ELSE selected

\* The mask with its bits $18 set.
Or24(m) == IF m \in {0, 24} THEN 24 ELSE 30

\* The words written for a Kong dispatched to "state": its mask and prompt,
\* and what makes a follower that joined present to the game.
Joined(g, k, state) ==
  LET original == g.state[k]
      mask == IF original = "thrown" /\ state # original THEN Or24(g.mask[k]) ELSE g.mask[k]
      joins == state = "idle" /\ k = g.inactive
  IN [g EXCEPT !.state[k] = state,
               !.prompt = g.prompt /\ original # "turn",
               !.mask[k] = IF joins /\ mask \in {0, 6} THEN 30 ELSE mask,
               !.present = g.present \/ joins,
               !.back = IF joins THEN g.back \ {k} ELSE g.back]

\* Dkc2CoopSelectStateWord, at the dispatch of Kong k's state.
Dispatch(k, hold, grounded) ==
  LET resumed == [guest EXCEPT !.due = @ \ {k},
                    !.parked = IF Sim /\ guest.state[k] = "rope" THEN @ \ {k} ELSE @]
  IN
  /\ lost' = IF Sim THEN LostAfter(k) ELSE lost
  /\ guest' = IF ~Sim \/ KeepsWaiting(k) THEN resumed
              ELSE Joined(resumed, k, Selected(k, hold, grounded))
  /\ UNCHANGED <<mode, records, saved, saves, history>>

-----------------------------------------------------------------------------
\* Dkc2CoopRecordPickupValue, as the game accepts a pickup.
PickUp(k) ==
  /\ "items" \in guest.scenes
  /\ k \notin guest.due \cup gone /\ guest.state[k] = "idle" /\ guest.object = None
  /\ Sim \/ k = guest.active
  /\ guest' = [guest EXCEPT !.object = "item"]
  /\ pickup' = IF Sim THEN [id |-> guest.id, kong |-> k] ELSE None
  /\ holder' = k
  /\ UNCHANGED <<mode, lost, stomp, mount, pass, kept, events, saved, saves, gone, struck>>

\* Dkc2CoopTeamPartnerValue and Dkc2CoopTeamStateValue: the action of Kong k
\* takes its nearby partner in its hands.
TeamUp(k) ==
  LET partner == Other(k) IN
  /\ "team" \in guest.scenes /\ Sim
  /\ lost = {} /\ guest.object = None /\ ~guest.riding /\ guest.present
  /\ guest.reaction = None /\ k \notin guest.due
  /\ guest.state[k] = "idle" /\ guest.state[partner] \in {"idle", "wait", "follow"}
  /\ guest' = [Led(guest, k) EXCEPT !.object = partner, !.due = Kongs,
                                    !.state = [q \in Kongs |-> IF q = k THEN "wait" ELSE "leap"]]
  /\ UNCHANGED <<mode, lost, records, saved, saves, history>>

\* Mutant: a new reaction leaves the old records.
RecordFirst(kind, source, kong) ==
  /\ stomp' = IF Sim /\ kind = "stomp" /\ stomp = None
              THEN [source |-> source, kong |-> kong] ELSE stomp
  /\ mount' = IF Sim /\ kind = "mount" THEN [source |-> source, kong |-> kong] ELSE None

\* Dkc2CoopRecordInteractionSource.
RecordInteraction(kind, source, kong) ==
  /\ stomp' = IF Sim /\ kind = "stomp" THEN [source |-> source, kong |-> kong] ELSE None
  /\ mount' = IF Sim /\ kind = "mount" THEN [source |-> source, kong |-> kong] ELSE None

\* The cartridge accepts a reaction to the collision of a Kong.
Accept(kind, kong) ==
  LET source == IF kind = "stomp" THEN "enemy" ELSE "animal" IN
  /\ kind \in guest.scenes /\ kong \notin gone /\ guest.object = None
  /\ kind = "mount" => ~guest.riding
  /\ Sim \/ kong = guest.active
  /\ RecordInteraction(kind, source, kong)
  /\ guest' = [guest EXCEPT !.reaction = kind, !.source = source]
  /\ struck' = IF Sim THEN [kong |-> kong, known |-> TRUE] ELSE NoStrike
  /\ UNCHANGED <<mode, lost, pickup, pass, kept, events, saved, saves, gone, holder>>

\* Dkc2CoopBounceUsesFollower, its answer.
BounceUsesFollower ==
  Sim /\ stomp # None /\ stomp.source = guest.source /\ stomp.kong = guest.inactive

\* Whose controller feels the bounce of a Kong.
Controller(kong) == IF Sim THEN Port(kong) ELSE guest.port

\* The Kong player_interaction_1B bounces.
Bouncer == IF BounceUsesFollower THEN guest.inactive ELSE guest.active

Stomp ==
  /\ guest.reaction = "stomp"
  /\ guest' = [guest EXCEPT !.reaction = None]
  /\ stomp' = None /\ struck' = NoStrike
  /\ events' = events \cup {Controller(Bouncer)}
  /\ UNCHANGED <<mode, lost, mount, pickup, pass, kept, saved, saves, gone, holder>>

\* Dkc2CoopPrepareAnimalMount.
RideLeads ==
  IF Sim /\ mount # None /\ mount.source = guest.source /\ ~guest.riding
  THEN Led(guest, mount.kong) ELSE guest

Mount ==
  /\ guest.reaction = "mount"
  /\ mount' = None /\ struck' = NoStrike
  /\ guest' = [RideLeads EXCEPT !.reaction = None, !.riding = TRUE]
  /\ UNCHANGED <<mode, lost, stomp, pickup, pass, kept, events, saved, saves, gone, holder>>

\* Dkc2CoopTakeStompEvents, once before and once after each frame.
TakeStompEvents ==
  /\ events # {} /\ events' = {}
  /\ UNCHANGED <<mode, lost, stomp, mount, pickup, pass, kept, guest, saved, saves, history>>

\* Dkc2CoopBananaSecondWidth: the follower's rectangle takes the animal's place.
BananaSecondWidth ==
  LET extra == Sim /\ guest.riding /\ guest.mask[guest.inactive] # 0 /\ guest.inactive \notin lost
  IN
  /\ "bananas" \in guest.scenes /\ ~guest.group
  /\ pass' = extra
  /\ kept' = IF extra THEN guest.rect ELSE kept
  /\ guest' = [guest EXCEPT !.group = TRUE, !.rect = IF extra THEN "follower" ELSE @]
  /\ UNCHANGED <<mode, lost, stomp, mount, pickup, events, saved, saves, history>>

\* Mutant: the extra pass does not put the animal's rectangle back.
RectAfterFirst == guest.rect

RectAfter == IF pass THEN kept ELSE guest.rect

\* Dkc2CoopBananaNextPass: another pass over the group, or its end.
BananaNextPass ==
  /\ guest.group
  /\ pass' = FALSE
  /\ guest' = [guest EXCEPT !.rect = RectAfter, !.group = pass]
  /\ UNCHANGED <<mode, lost, stomp, mount, pickup, kept, events, saved, saves, history>>

-----------------------------------------------------------------------------
\* The policy, changed from the overlay or the native menu.
Cleared == stomp' = None /\ mount' = None /\ pickup' = None /\ pass' = FALSE /\ events' = {}

SetMode ==
  /\ "policy" \in guest.scenes /\ ~guest.group
  /\ mode' \in {"simultaneous", "classic"}
  /\ Cleared /\ struck' = [struck EXCEPT !.known = FALSE]
  /\ guest' = [guest EXCEPT !.due = Kongs]       \* as at the start of any frame
  /\ UNCHANGED <<lost, kept, saved, saves, gone, holder>>

\* Dkc2SaveExtra and the console's own memory, between frames.
Save ==
  /\ "saves" \in guest.scenes /\ ~guest.group
  /\ saves < MaxSaves                                                 \* bound
  /\ saves' = saves + 1
  /\ saved' = [guest |-> guest, lost |-> lost, gone |-> gone, holder |-> holder,
               struck |-> struck.kong]
  /\ UNCHANGED <<mode, lost, records, guest, history>>

\* Mutant: the host's loss mask stays.
LoadedAsIs(recorded) == lost

\* Dkc2CoopLoadLostMask, with the mask or from a snapshot of before it was kept.
Loaded(recorded) ==
  LET g == saved.guest IN
  IF recorded THEN saved.lost
  ELSE IF ~g.present /\ g.state[g.inactive] = "wait" /\ g.inactive \notin g.back
       THEN {g.inactive} ELSE {}

Load(recorded) ==
  /\ saved # None /\ ~guest.group
  /\ guest' = [saved.guest EXCEPT !.due = Kongs]
  /\ lost' = Loaded(recorded) /\ Cleared /\ gone' = saved.gone
  /\ holder' = saved.holder /\ struck' = [kong |-> saved.struck, known |-> FALSE]
  /\ UNCHANGED <<mode, kept, saved, saves>>

-----------------------------------------------------------------------------
\* The cartridge.  A Kong's state is dispatched at least once before it changes.
Cartridge(g) ==
  /\ guest' = g
  /\ UNCHANGED <<mode, lost, records, saved, saves, struck>>

Now(k, state) == k \notin guest.due /\ guest.state[k] = state
Becomes(k, state) == [guest EXCEPT !.state[k] = state, !.due = @ \cup {k}]

\* set_active_kong; a Kong that leads is not drawn behind.
SetActive(g, k) ==
  [g EXCEPT !.active = k, !.inactive = Other(k), !.work = k, !.otherWork = Other(k),
            !.port = Port(k), !.back = @ \ {k}]

\* Hurt: what it holds or is held by is dropped.
Hurt(k) ==
  /\ "loss" \in guest.scenes
  /\ k \notin guest.due /\ guest.state[k] \in {"idle", "carry", "follow"}
  /\ Other(k) \notin gone /\ ~guest.group
  /\ Cartridge([Becomes(k, "hurt") EXCEPT
       !.object = IF @ \in Kongs \/ (@ = "item" /\ holder = k) THEN None ELSE @,
       !.state[Other(k)] = IF @ = "carried" THEN "thrown" ELSE @])
  /\ gone' = gone \cup {k}
  /\ holder' = IF holder = k THEN None ELSE holder

\* A hurt Kong leaves; the other one leads.
Leaves(k) ==
  /\ Now(k, "hurt") /\ ~guest.group
  /\ Cartridge([SetActive(Becomes(k, "wait"), Other(k)) EXCEPT
       !.present = FALSE, !.mask[k] = 0, !.prompt = "swap" \in guest.scenes,
       !.state[Other(k)] = IF "swap" \in guest.scenes /\ @ = "idle" THEN "turn" ELSE @,
       !.due = @ \cup (IF "swap" \in guest.scenes /\ guest.state[Other(k)] = "idle"
                       THEN {k, Other(k)} ELSE {k})])
  /\ UNCHANGED <<gone, holder>>

Rescue(k) ==
  /\ k \in gone /\ Now(k, "wait") /\ ~guest.present
  /\ Cartridge([Becomes(k, "rescued") EXCEPT !.present = TRUE])
  /\ gone' = gone \ {k} /\ UNCHANGED holder

\* The other changes of a state in the course of a level.
Plays(k) ==
  /\ UNCHANGED <<gone, holder>>
  /\ \/ Now(k, "rescued") /\ Cartridge(Becomes(k, "follow"))
     \/ Now(k, "wait") /\ k \notin gone /\ guest.object = None /\ k = guest.inactive
        /\ Cartridge([Becomes(k, "follow") EXCEPT !.present = TRUE])
     \/ guest.state[k] \in {"idle", "carry"} /\ k \notin guest.due /\ k = guest.inactive
        /\ Cartridge([Becomes(k, "follow") EXCEPT !.mask[k] = 6])
     \/ Now(k, "jump") /\ Cartridge(Becomes(k, "idle"))
     \/ Now(k, "wait") /\ Now(Other(k), "leap") /\ guest.object = Other(k)
        /\ Cartridge([Becomes(k, "carry") EXCEPT !.due = Kongs, !.state[Other(k)] = "carried"])
     \/ Now(k, "carry") /\ guest.object = Other(k)
        /\ Cartridge([Becomes(k, "idle") EXCEPT !.object = None, !.due = Kongs,
                                                !.state[Other(k)] = "thrown"])
     \/ Now(k, "thrown") /\ ~Sim /\ Cartridge(Becomes(k, "follow"))
     \/ "ropes" \in guest.scenes /\ Now(k, "idle")
        /\ \E p \in SUBSET {k} : Cartridge([Becomes(k, "rope") EXCEPT !.parked = @ \cup p])
     \/ Now(k, "rope") /\ k \notin guest.parked /\ Cartridge(Becomes(k, "idle"))

\* An item is lifted, thrown or recycled.
Item(k) ==
  /\ guest.object = "item" /\ holder = k /\ UNCHANGED gone
  /\ \/ Now(k, "idle") /\ Cartridge(Becomes(k, "carry")) /\ UNCHANGED holder
     \/ Now(k, "carry") /\ holder' = None
        /\ \E id \in {1, 2} : Cartridge([Becomes(k, "idle") EXCEPT !.object = None, !.id = id])

Dismount ==
  /\ guest.riding /\ ~guest.group
  /\ Cartridge([guest EXCEPT !.riding = FALSE]) /\ UNCHANGED <<gone, holder>>

\* SELECT: the follower takes the lead, the leader follows.
Swap ==
  /\ "swap" \in guest.scenes /\ gone = {} /\ guest.object = None /\ ~guest.riding
  /\ guest.present /\ guest.due = {} /\ ~guest.group
  /\ guest.state[guest.active] = "idle" /\ guest.state[guest.inactive] \in {"idle", "follow"}
  /\ Cartridge([SetActive(guest, guest.inactive) EXCEPT
       !.state = [k \in Kongs |-> IF k = guest.inactive THEN "idle" ELSE "follow"],
       !.mask = [k \in Kongs |-> IF k = guest.inactive THEN 30 ELSE 6],
       !.back = {guest.active}, !.due = Kongs])
  /\ UNCHANGED <<gone, holder>>

Next ==
  \/ \E k \in Kongs :
       \/ \E hold, grounded \in BOOLEAN : Dispatch(k, hold, grounded)
       \/ PickUp(k) \/ TeamUp(k)
       \/ \E kind \in {"stomp", "mount"} : Accept(kind, k)
       \/ Hurt(k) \/ Leaves(k) \/ Rescue(k) \/ Plays(k) \/ Item(k)
  \/ Stomp \/ Mount \/ TakeStompEvents
  \/ BananaSecondWidth \/ BananaNextPass
  \/ SetMode \/ Save \/ (\E recorded \in BOOLEAN : Load(recorded))
  \/ Dismount \/ Swap

Spec == Init /\ [][Next]_vars

-----------------------------------------------------------------------------
\* The leader, the follower, their work areas and the leader's controller go
\* together, over handoffs, team-ups, mounts and loads, and no word leaves its
\* range.
SelectorsPaired ==
  /\ TypeOK
  /\ guest.inactive = Other(guest.active)
  /\ guest.work = guest.active /\ guest.otherWork = guest.inactive
  /\ guest.port = Port(guest.active)

\* A Kong the cartridge took out of the game is not revived by input: it
\* comes back only by the rescue, over saves and loads of other moments.
LostUntilRescued == Sim => \A k \in gone : guest.state[k] \in {"hurt", "wait"}

\* A Kong that carries, or whose pickup is recorded, is the owner the
\* animation and the throw see, also when the other one leads.
OwnerIsHolder ==
  Sim /\ guest.object = "item" /\ holder # None
      /\ (guest.state[holder] = "carry" \/ pickup # None)
    => HeldOwner = holder

\* While the partner jumps into its hands the carrier is not given control,
\* whoever presses what.
HandsStayOpen ==
  \A k \in Kongs : guest.state[k] = "leap" => guest.state[Other(k)] = "wait"

\* Whom a queued reaction is owed: the Kong that collided, until a choice of
\* the policy or a load erases the record; after that, as without the policy,
\* the leader.
Owed == IF struck.known THEN struck.kong ELSE guest.active

\* A reaction is served to the Kong it is owed, whoever collided or led since:
\* a stomp bounces it and is felt by its player, a mount makes it lead.  No
\* record of an earlier collision or of an abandoned future takes its place.
ReactionsFindTheirKong ==
  [][/\ Stomp => Bouncer = Owed /\ events' = events \cup {Port(Owed)}
     /\ Mount => guest'.active = Owed]_vars

\* "A queued stomp remembers the colliding Kong so its bounce does not go to
\* the active leader", also when the policy in force is chosen once more.
StompIsRemembered == [][Stomp /\ Sim /\ struck.kong # None => Bouncer = struck.kong]_vars

\* Between banana groups the animal has its own rectangle.
RectRestored == ~guest.group => guest.rect = "animal"
=============================================================================
