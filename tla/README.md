# Verification of the zencontrol TPI Advanced simulator

TLA+ modules, TLC runs and TLAPS proofs for the Python program in
`src/zencontrol_simulator/`: a simulator of a zencontrol lighting controller.
It answers TPI Advanced requests over UDP and TCP, keeps the state of DALI
control gear, groups and sensors in memory, and announces changes as events.

## 1. The system

The program is one asyncio event loop. Request handlers are ordinary functions:
nothing in them awaits, so a request runs from parsing to reply without anything
else in between. What does interleave is the *order* of whole handlers: requests
of several clients, four periodic loops, delayed replies, connection tasks, lines
typed at the console, and the clock, which moves between any two of them.

| Component | Code | State | Operations |
|---|---|---|---|
| Control gear | `world.py` `Light` | level, last active level, last scene and whether it is current, colour, lamp and fade bits of the status byte, five fade fields | `set_level`, `set_colour`, `apply_scene`, `clear_fade`, `_expire_fade_if_due`, `visible_level`, `refresh_status` |
| Lighting world | `world.py` `World`, `Group`; level, scene, colour and fade handlers; `tick_fade_progress` | the gear; stored level, last scene and scene-current flag of each group | `apply_level`, `apply_per_light_level`, `apply_colour`, `apply_scene`, `clear_fade`, `collect_fade_progress`, status and level queries |
| Event delivery | `events.py` `emit`, `_filtered`; filter, mode and unicast handlers | event mode, unicast address, list of filters | enable, set address, add, clear, list filters; emit an event |
| Group occupancy | `mark_group_occupied`, `expire_group_occupancy`, `occupancy`, `occupancy_heartbeat`, `tick_group_occupancy` | time of last motion of a sensor, `occupied_until` of a group | motion, raw event, keepalive, release |
| Request framing | `protocol.py` `request_frame_size`, `extract_request_frame`, `parse_request` | the buffer of a TCP session | cut the stream into frames, accept or refuse a frame |
| TCP sessions | `server.py` `_handle_tcp_client`, `stop` | the session count; where each task is | accept, refuse, read, dispatch, answer, end; stop |
| UDP endpoint, latency | `SimulatorProtocol` | replies scheduled with `call_later` | receive, reply now or later |
| Registers | profile and system variable handlers, `tick_sysvar_simulation` | current profile, values of variables | set, change, daylight tick |
| Process lifecycle | `server.py` `start`, `run_forever`, `stop`; `__main__.py` `main` | where the main task is, a pending cancellation, the stop flag | start, fail, stop, be interrupted |
| Console | `_interactive_console`, `_start_stdin_reader` | the queue of typed lines | take a line, end |
| Live dump | `dump.py` `dump_controller` | the file so far, the next question | ask, lose a reply, write |
| Loader | `world.py` `load_world`, `_validate_world` | none after start-up | build the world of a file, warn |
| Inhibit | `DALI_INHIBIT` | a deadline nobody reads | set |
| Buttons, absolute inputs, labels, queries | `handlers.py`, `events.py` | none | one event, or a function of the configuration |

How they interact. A request reaches the dispatcher as a UDP datagram or as a frame
of a TCP session. Its handler changes the world and hands the emitter what must
be announced, and the emitter asks mode and filters whether an event leaves, and
how. The loops change the same world with no request: fades end, groups
are released, variables follow the day. A dump is a client of a controller: it asks
one question after the other, by UDP, and writes a file from which the loader makes the
world of a simulator. Nothing else is persisted; a restart is the loader again.

What is hard here:

- **Who reads first.** A fade ends for whichever query, command or tick looks at
  the light first after its deadline, and each does something else with it.
- **Overlapping addresses.** A light has its own wire, those of its groups and
  the broadcast wire. A command on any of them must be reflected in all, for levels, scenes
  and reports.
- **Fades that meet.** A fade can be started on one wire, redirected on another
  and stopped on a third.
- **Filters with wildcards**, cleared and listed while others add.
- **Timers that are polled**, by loops that wake late.
- **A stream cut anywhere**, with frames whose length must be guessed.
- **Tasks that share a counter** and end in many ways, by the client, by `quit`, by
  Ctrl-C, in whatever await they are.
- **A snapshot taken in pieces** while its subject moves.

## 2. Modules

| Module | Role |
|---|---|
| `Gear` | one light as a record, its methods as operators, and the wires |
| `World` | the lighting world: one action per command, query, tick; properties |
| `WorldProofs` | the operators of `Gear`; invariants and action properties of `World` |
| `EventRules` | abstract: a set of rules that silence events |
| `Filters` | the list of filters, the mode and the emitter; refines `EventRules` |
| `FilterListing` | `Filters` with a client that lists filters page by page |
| `FilterProofs` | the list, its refinement of `EventRules`, the listing |
| `Occupancy`, `OccupancyProofs` | sensors, holds, the release loop; real-time proofs |
| `Framing`, `FramingProofs` | the TCP byte stream and its reassembly |
| `Sessions` | connection tasks, the count, stopping |
| `Lifecycle` | `Sessions` within the process: start, console, `run_forever`, `stop`, Ctrl-C |
| `LifecycleProofs` | proofs about `Sessions` and `Lifecycle` |
| `Registers` | profile and system variables as clients see them; delayed replies |
| `VariableScan` | `Registers` with a client that discovers the variables, and the loader's warning |
| `RegistersProofs` | proofs about `Registers` and `VariableScan` |
| `Snapshot`, `SnapshotProofs` | `World` with a dump that asks piece by piece, and the world loaded from its file |
| `Iteration` | lemmas: least numbers, induction stated with sets, loops as functions |
| `MC...` | small instances of the above for TLC |

An operator or action has the name of the method or handler it translates, in
TLA+ spelling. The definitions whose comment begins with "Mutant:" are plausible
bugs; no specification uses them, they serve to show that a property can fail.

### Gear and World

`Gear` has one operator per method of `Light`, from a gear to the gear the method leaves
behind. `World` keeps `light` and `group`, functions from addresses to records. An
`Apply...` operator stands for the `World` method of that name and returns an
*outcome*: the lights, the groups, and the events. `Commit` is the handler that
installs it. Where a handler makes two calls (`DALI_COLOUR`: colour, then level)
the action composes both.

- *Time.* The code compares `time.time()` with absolute deadlines. Only
  differences matter, so a fade carries its duration (`total`) and how much
  has passed (`elapsed`), in periods of the progress loop (0.5 s). The clock does
  not go backward.
- *Levels* go to `MaxArc`, 254 in the code; `MaxArc + 1` is the 255 of a mixed
  group. Interpolation rounds a tie to even, as Python's `round` does.
- *Events* of one step are a set: a step is synchronous and their order in it
  says nothing more.
- *Order of lights.* It matters in one place: the status of a group stops refreshing
  lights at the first with FADE_RUNNING set; the model lets any such member be the first.
- *Wires* without light or group are refused by the handlers before any change and
  have no action. A light's groups are those that `World.groups` has.
- *Initial states* are the loader's, for files whose status bytes agree with
  their levels and show no running fade, as both files of the repository do.
- `op` and `emitted` are history: no action reads them, and no property reads them in
  the state before a step. `VIEW Present` therefore merges states safely: TLC still
  evaluates an action property on every transition.

### Filters, FilterListing and EventRules

The mode is a record of its four bits; the code stores MULTICAST negated as 0x80.
A mask is a set of event kinds. `EventRules` promises: there is a set of rules, an
add inserts, a clear removes those it reaches, and an event leaves by some transport
unless filtering is on and a rule silences it. `Filters` implements it with the list
of the code under the mapping `rules <- RulesIn(Rng(filters))`. The
Python list has no limit; `MaxFilters` bounds the model's. `FilterListing` models the
query for all addresses and instances, from the index the last page ended at.

### Occupancy

A sensor's clock and a group's deadline are kept as the time since and the time
left. The release loop sleeps for `Period` and is woken at most `Late` later; a
group is released only when the loop runs. `Targets` holds the groups in the
three slots of an instance without empty slots (0xFF) and groups the world does
not have, both of which the code skips.

### Framing

Byte values and frame sizes are constants. `request_frame_size` and
`extract_request_frame` are translated branch by branch, `Extracted` being the loop
around them. A client writes items, of which `requests` remembers those that are not noise;
a session reads any number of the bytes of `stream` it has not `got` yet, appends them to
`buf` and takes the frames in it. The instance has bytes of two bits, basic frames of 7 bytes,
dynamic ones of 5 or 6 and colour frames of 6 to 8 (of a maximum of 9), so that a
checksum collision, one chance in 256 per byte in the program, occurs at once.

### Sessions

`phase` says where a task awaits: not started, in `read`, in the delay or `drain` of
an answer, in `wait_closed`. The count goes up when the task starts and down in its
`finally` block, before the connection is gone. A client that closes leaves its bytes
to be read; after a reset the session notices in `read` or in `drain`, but not
necessarily at the first write. The project requires Python 3.14, whose
`Server.wait_closed` waits until the transports of all connections have detached (`Detached`):
that may be before the last session has run its `finally` block. A client is assumed to read its replies:
`drain` is not blocked for ever.

### Lifecycle

`Lifecycle` extends `Sessions` with the other tasks of the process. `main` is where
`run_forever` is: before the socket listens, in `_stop.wait`, in one of the awaits of
`stop` for a task it cancelled, in `wait_closed`, or over; `console` and `lines` are the
interactive console and the queue that a thread fills from stdin. A line is a `quit`, the
end of stdin, or one whose handling raises: good lines cause steps of the other modules.

- `asyncio.run` turns the first Ctrl-C into a cancellation of the main task
  (`cancelled`), which the task sees at its next await, and raises `KeyboardInterrupt`
  at any later one; when the main task is `over`, in this way or by returning, `asyncio.run`
  cancels every task that is left, and the loop closes when those are over. `Cancel` is a session that is cancelled in each of its awaits.
- `stop` suppresses `CancelledError` around its awaits for the console and the loops, so
  a Ctrl-C in one of them is forgotten there (`CloseServer` clears `cancelled`). In
  `wait_closed` it ends `stop` instead (`StopCancelled`).
- Left out: a third Ctrl-C, and a connection accepted in the one iteration of the loop
  between the second Ctrl-C and the close of the listening socket.

### Registers

`held` is the current profile and every system variable. A client queries, sets,
and follows the change events; `copy` is what it then believes. Events leave at
once and reach all clients (mode and filters are the subject of `Filters`). With
`-t` a reply is computed when the request is handled and leaves 10 ms later, the
same delay for every query modelled here, so replies keep their order but may be
overtaken by an event. A client that took such a reply would believe an old value,
which no document promises to avoid, so the model's client ignores it: `overtaken`
marks the replies in question. Requests that are refused change nothing and
have no action. Profile numbers fit two bytes.

### VariableScan

A client cannot list the variables. `dump_controller` asks for the name of one id after
the other and gives up after `give_up_after` ids in a row without one; `_validate_world`
warns of a file with neighbouring ids too far apart for that. `scan` is the position of
such a client, its run of failures and what it found; no variable, an empty name and a
lost reply look alike. The steps of `Registers` go on meanwhile.

### Snapshot

`Snapshot` extends `World` with the dump and with `load_world` on the file it writes.
`Questions` are the questions about changing state in the order of `dump_controller`:
all group levels first, then status, level, last scene, scene-current and colour of each
light. Each is a step of the controller (a level or status query may end a due fade),
between any two of which commands, ticks and time go on, and a request or reply may get lost:
the file keeps a default, and a light without a status is left out. `Load` makes
the lights and groups of the file: no fade runs, the status byte is taken as it is, no
group is in a scene. `busy` is history: the lights that were fading when the
dump began or changed since. What no command changes, such as labels, memberships,
limits and scene tables, is in the constants.

Every light of the program stores and answers a colour, but a dump asks it only of lights whose
`cg_types` have COLOUR_CONTROL (`ColourLights`). What is asked passes through `Colour.to_bytes`, the
library, `_colour_dict` and `_parse_colour`, each with defaults of its own; `ReadColour` is the whole
way, an arbitrary function. `UntouchedIsExact` therefore says of a colour that it is what
the controller's has become on that way (`Carried`), which is none for a light without type 8, and says
of everything else that it is the same.

## 3. Runs

| Run | Instance | Distinct states | What it shows |
|---|---|---|---|
| `world_instant` | 2 lights, 2 overlapping groups, 2 scenes, colours, all relative commands, no fades | 8,260 | `GroupSceneAgrees`, `SceneLevelHeld`, `GroupLevelKept`, `GroupTargetIsShared` |
| `world_fades` | the same lights, fades of 1 and 2 periods | 46,852 | `TypeOK`, `GroupSceneAgrees`, `StatusCoherent`, `FadesAreSmooth`, `FadeHasOneOwner`, `TickCompletes`, `NoSilentChange` |
| `world_completion` | as `world_fades` | violation | `CompletionsReported` |
| `world_stop_scene` | as `world_fades` | violation | `StopEndsSceneFades` |
| `filters_list` | 2 addresses, 1 instance, both wildcards, 2 kinds, 3 entries, 2 modes | 14,100 | `ListOK`, `ImplementsRules`, `ClearedEventsFlow` |
| `filter_pages` | 1 address, 1 kind, 3 entries, 1 per page | 95,000 | `ListingComplete` |
| `occupancy_hold` | 2 sensors, 3 groups, one shared; hold 5, sleep 3, lateness 2 | 960 | `TypeOK`, `ReleasedInTime`, `HeldLongEnough`, `AnnouncesChanges`, `OnlyMotionRestarts` |
| `framing_stream` | up to 3 items of every type, every chunking | 44,000 | `ChunksIrrelevant`, `RequestsTaken`, `Answered` |
| `framing_colour` | colour frames with a valid prefix | violation | `RequestsTaken` |
| `sessions` | 2 clients, 1 slot, 2 requests, 2 lines typed ahead, 2 Ctrl-C's; fairness | 109,102 | `LifeTypeOK`, `SessionsCounted`, `RepliesInOrder`, `ConsoleEndsFirst`, `SlotReturned`, `EveryRequestAnswered`, `StopEnds`, `EveryWayStops`, `SecondInterruptEnds` |
| `registers` | 1 client, 3 variables of 2 bits, ids 0 to 4, 1 simulated, 2 listed profiles; replies delayed or not; a scan that gives up after 2 | 572,176 | `CopiesCurrent`, `StaysAnswerable`, `ProfileStaysListed`, `GapsAreWarned`, `FoundWithoutWarning` |
| `snapshot` | 2 lights, one with COLOUR_CONTROL, 1 group, 1 colour, levels 0 and 1, 1 scene that fades a light out; 1 dump, 1 lost reply, 1 command of others; fairness | 179,271 | `UntouchedIsExact`, `StatusRecovers`, `FadesEnd` |

Counts are rounded where exploration order affects nothing of interest. Why the bounds are enough:

- *World.* Two lights, of which one is in both groups, are the smallest world where
  siblings, mixed groups, and partial and complete agreement all occur; lights have
  different ranges, so clamping separates them. The instant run has a scene that
  sets both lights and one that leaves the level of a light alone and has a
  colour. In the fade run `ProgressMin` is 1 period: fades of 2 report progress,
  those of 1 only completion. Three levels make a midpoint that rounds. Level 3 in
  `ArcLevels` there is the 255 of the wire, clamped.
- *Filters.* Three entries allow the exact one and both wildcard ones to overlap,
  two kinds allow an entry to be partly cleared.
- *Occupancy.* The hold is longer than sleep and lateness alone and shorter than
  their sum, so a deadline falls before, between and after runs of the loop.
- *Framing.* Three items let a frame be preceded and followed by another, in
  one chunk or in many.
- *Sessions.* Two clients for one slot: one is refused or gets the slot the other
  just gave back. The second request is written while the first is being answered. Two
  lines put a wrong one in front of `quit` or behind it; two Ctrl-C's are one that
  cancels and one that raises, at any two moments.
- *Registers.* A byte pair is two bits, so that both signs and a value too big in
  the file occur; a day has a dark and a bright instant. Two delayed replies let one
  be overtaken and the next not. The ids 0, 2 and 3 are as far apart as the loader lets pass
  with a limit of 2; a lost reply to the middle one makes the gap too large.
- *Snapshot.* Two lights, so that one is untouched while the other changes between two
  questions, of which one controls colour and one does not; both may hold a colour, set before,
  during or after the dump. One command during the dump tears the answers about a light apart; any
  number may come before and after. Scene fades of one period end by query, tick or command; two levels
  tell a lamp that is on from one that is off. A
  second dump or loss adds no case: the file of each is made from defaults.

Deadlock is checked for World, Snapshot, Occupancy and Registers. Filters, Framing and
Sessions run without: there the writing client or the bounded list really may stop, and the
process ends.

### Fairness

- `FadesEnd`: weak fairness of `FadeTick` and of `TimePasses` (`LoopRuns`). The event loop
  returns to a task whose sleep has ended, handlers being finite, and the
  clock advances. Commands and the dump are not assumed fair, nor to stop: the property
  grants that a command may start another fade at any time.
- `SlotReturned`, `EveryRequestAnswered`, `StopEnds`, `EveryWayStops`, `SecondInterruptEnds`:
  weak fairness of each session's task, of the main task and of the console
  (`LifeFairness`): the event loop runs every task that can go on. Clients and the user owe
  nothing: they may never write, close, type or interrupt. `StopEnds` therefore
  supposes that the clients have left, and `SecondInterruptEnds` does not.

### Mutants

Every property of a passing run is violated by a named mutant of a definition
it depends on, e.g. a fade that starts from where the last one was heading (`SetLevelFromStored`), siblings
forgotten for commands on groups (`SiblingsOfLightsOnly`), a hold not renewed
(`HeldOnce`), a filter matched without its instance (`MatchesAnyInstance`), a
session count off by one (`RoomForOneMore`), a
variable read as unsigned (`SignedAsUnsigned`), a console that outlives the server
(`ConsoleGoesOn`), a scan that gives up one id early (`GivesUpEarly`), lights loaded out of
their scene (`LoadedOutOfScene`). `PROJECT.json` lists all.

## 4. What the runs found

1. **A query swallows a completion** (`world_completion`). `_expire_fade_if_due`
   ends a due fade in any status or level query; the next progress tick finds nothing
   to report, though `collect_fade_progress` says completions are always emitted.
   `TickCompletes` states what does hold: the tick that *finds* a fade due reports it.
2. **STOP_FADE and scene fades** (`world_stop_scene`). The protocol document stops
   "any direct arc or scene fades current on the device" and asks for the same target
   only of custom fades. The code asks for it of all: a scene fade started on
   one wire runs on after STOP_FADE on another that reaches the light. `FadeHasOneOwner` states
   what the code does, scene fades included.
3. **A colour frame is cut too early** (`framing_colour`). The size of a colour frame
   is the shortest prefix of at least 7 bytes that ends in its own checksum. About
   one frame in a hundred has such a prefix inside, e.g. the colour temperature
   frame `04 DA 0E 00 FF 20 0F A0 cs` over TCP: seven bytes are taken for a request whose
   colour data is `20` alone. `Colour.from_bytes` makes nothing of it, the request is refused with
   INVALID_ARGS, no colour is set, and the rest of the frame is left in the buffer as noise. `framing_stream` shows that
   all other streams are taken apart correctly.

Seen while modelling, reproduced by reading and by the models, and kept out of the runs:

- `stop` awaits the server's `wait_closed` and nobody closes the sessions, so an idle
  TCP client keeps `quit` and Ctrl-C waiting (`server.py:217`); `StopEnds` is what holds.
- A broadcast level reports the *stored* level of a group as its level before the
  command, a command on the group itself the level its members agree on
  (`world.py:679` against `event_prev_for_group`). STOP_FADE on a group likewise
  reports the stored destination (`world.py:864`). `GroupTargetIsShared` is about the announced target
  of a level, scene or colour command, not about the level before it nor about stops.
- STOP_FADE in the middle of a scene fade leaves the scene marked current at a level that is
  not the scene's (`world.py:255`). `SceneLevelHeld` is therefore checked without fades.
- Clearing the filters of one address also strips bits from entries for all
  addresses and answers OK where no filter names the address (`handlers.py:460`).
- A motion after the hold has ended and before the loop runs is taken for one
  during the hold (`world.py:543`): no event says that the group was unoccupied.
- A short colour frame with a wrong checksum is not refused until 14 bytes have arrived,
  and takes the first bytes of later requests with it (`protocol.py:125`).
- A dump taken while lights change may write a lamp bit that does not fit the level, or
  FADE_RUNNING for a light that loads at rest. The loader takes the byte as it is
  (`world.py:1098`), and the status query answers it until the next level command on the light.
  `StatusCoherent` is therefore not a property of `Snapshot`; `StatusRecovers` is.
- A colour command is obeyed by every light (`world.py:764`) and the colour query answers it for every
  light (`handlers.py:712`), but a dump asks only those of type 8 (`dump.py:274`): a simulator
  started from the file has no colour for the others.
- The level of a group without members is answered as 0 and that of a mixed one as 255; the
  dump writes either as the level of the group. No command stores 255 there.
- A scan for variables finds none when the first has an id of 10 or more, and the loader has
  no warning for that. Variables with an empty name count in the loader's gaps although a scan
  does not find them. `GapsAreWarned` excludes both.
- `stop` cancels the loops before it waits for clients: a fade commanded by one that stays
  is answered and announced, and its completion never reported (`server.py:217`).
- A Ctrl-C that comes while `stop` awaits a task it has cancelled is lost (`server.py:212`); a
  second one is needed, and suffices (`SecondInterruptEnds`).

## 5. Proofs

All constants are arbitrary, within the named assumptions of the modules: any
lights, groups, memberships, scenes, levels, fade durations; any sensors, holds and
periods; any bytes and sizes of frames; any finite set of clients, any limit. Every
safety invariant and every action property that a passing run checks is also the
conclusion of a theorem, 34 of the 40 properties; the other six are liveness.

**World** (`WorldProofs`), in three layers.

*Agreement.* `TypeCorrect` (`TypeOK`) and `GroupScenesAgree` (`GroupSceneAgrees`). The
inductive invariant `IInv` is written over values (`Sound(L, G)`) and not over
variables, because commands compute their result through several intermediate worlds.
There is one lemma per `Apply...` operator, `StopFadeOn`, `FadeProgress` and query: if the
world it starts from is sound, so is its outcome. `ScenesKept`, `ScenesCommanded` and
`ScenesLeft` carry the scene part; the last says that whoever takes a light out of a scene
has invalidated every other group of it, which is where `Siblings` is needed.

*What a step does to the lights.* `StatusIsCoherent` (`StatusCoherent`) is inductive beside
`IInv`, as `CInv`. From it, `NextMoves` shows that every step is of one of five sorts: a
command on a wire, a stop on a wire, somebody looking, a tick, time (`Moves`). A sort says what
the step may do to a light: `Seen(x, y)`, for instance, that a light looks the same to everybody
although a due fade has been ended. The action properties follow from the sorts:
`FadesStaySmooth`, `FadesHaveOneOwner`, `NoChangeIsSilent`, `TicksComplete`,
`GroupTargetsAreShared`, and `SceneLevelHeldButForStops`. Smoothness needs the arithmetic:
rounding to even is monotone and exact at the ends (`RoundDivMonotone`, `InterpolateTowards`,
`SetLevelStarts`).

*Without fades.* `GroupLevelsKept` (`GroupLevelKept`) and `SceneLevelsHeld` (`SceneLevelHeld`)
assume `NoFades`: `dim_time_ms` is 0 and no request asks for a duration, a configuration
of the simulator and the one `world_instant` checks. They are false without it: STOP_FADE
leaves a light between the levels of two scenes (section 4), and a group's members at levels of
their own. With fades the theorem is `SceneLevelHeldButForStops`: no step but a STOP_FADE takes a
light that stays marked as in its scene from the level of the scene.

**Filters** (`FilterProofs`): `FilterListHasNoTwins` (`ListOK`), `FilterListActsAsRules`
(`ImplementsRules`), `ClearsLetEventsFlow` (`ClearedEventsFlow`) and `ListingsAreComplete`
(`ListingComplete`). `_clear_filters` walks over the list; `RemainingIsClearing` gives the walk as a
loop, and `RemainingEntries` what is left: the entries reached with their masks reduced, those left with
an empty mask dropped, the others kept, in their order and without a second of any key. `RulesStep` is the
step simulation: an add, a clear, a change of mode and an emit of the code are steps of `EventRules` under
the mapping, or stutters. For the listing, the rules at its start are among those it got or
`Ahead` of its index: an add that extends an entry moves nothing, one that is new goes to the end.

**Occupancy** (`OccupancyProofs`): `TypeCorrect`, `Released` (`ReleasedInTime`),
`HeldForHold` (`HeldLongEnough`), `ChangesAreAnnounced` (`AnnouncesChanges`) and `MotionRestarts`
(`OnlyMotionRestarts`). The first promises are not inductive: they relate the deadline, the
last motion and the sleep of the loop. The strengthening is `Clocked`: of
an occupied group, either the hold is running and what is left of it and what
has passed make up the hold, or it has elapsed and what has passed plus the
longest wait for the loop stays within hold, sleep and lateness.

**Framing** (`FramingProofs`): `ChunksDoNotMatter` (`ChunksIrrelevant`), `EveryFrameIsAnswered`
(`Answered`) and `RequestsAreTaken` (`RequestsTaken`). `SizeStays` says that a size, once found at the front
of some bytes, is not changed by bytes that follow. `Extracted` is a recursive function;
that it has the values its definition says is `ExtractionExists`. `TakenInTwo` is
the heart: taking frames from `b` and then from what was left with `c` behind it takes the frames of `b \o c`;
a shortest counterexample would have a shorter one behind its first frame. `RequestsAreTaken` assumes
`Plain(Items)`: an item is a request whose size `request_frame_size` finds, or noise without a magic
byte. The code does not enforce that. Requests of fixed and dynamic size satisfy it; a colour
frame does unless a prefix of it ends in its own checksum, and then the statement is false
(`framing_colour`). `MCFraming` evaluates it for the items of `framing_stream` (`StreamIsPlain`).

**Sessions and Lifecycle** (`LifecycleProofs`): `TypeCorrect`, `CountIsExact` and
`CountIsExactToTheEnd` (`SessionsCounted`, in `Sessions` and with sessions cancelled in every await),
`RepliesAreInOrder` and `RepliesAreInOrderToTheEnd` (`RepliesInOrder`), `ConsoleIsQuiet`
(`ConsoleEndsFirst`), `LifeTypeCorrect`. Admitting adds one element to the set of sessions and ending
removes one, so its cardinality, by the library's theorems on finite sets, moves with the
count; it also shows that the `max(0, ...)` of the code never acts. `Numbered` says that a session is at
most one reply behind the requests it took, and that one is what it is at. That the console has ended whenever the
server is not up is inductive only together with `ServerFollowsMain`: how far the main task is
determines what the server does.

**Registers and VariableScan** (`RegistersProofs`): `TypeCorrect`, `BeliefsTrue` (`CopiesCurrent`),
`AnswersLast` (`StaysAnswerable`) and `ProfilesStayListed` (`ProfileStaysListed`). That beliefs are true is
not inductive while replies are in flight: `FlightCurrent` says that a reply no event
has overtaken carries the current value. `AnnounceInv` is the lemma the handlers share:
whoever announces every register it changes keeps all of it true. `ScanAllowed` shows that
a scanning client's behaviours are behaviours of `Registers`, so all of these hold during a scan.
`GapsWarned` (`GapsAreWarned`) and `FoundIsWithoutWarning` (`FoundWithoutWarning`) are for every
set of ids, limit and pattern of lost replies: the last `failed` ids gave nothing and the
one before them was found (`RunOfFailures`), every variable passed was found or its reply lost
(`NothingSkipped`), no two neighbours found are further apart than the limit (`NoGapBridged`). A scan that
ends short of a variable must then have ended in a gap that the loader sees.

**Snapshot** (`SnapshotProofs`, on `WorldProofs`): `UntouchedStaysExact` (`UntouchedIsExact`) and
`StatusAlwaysRecovers` (`StatusRecovers`), for lights and groups in any order. `Flattened` and `QuestionsAre` say
which questions there are. The invariant `SInv` has `FileTells`: while nothing was lost, the file
has the answers to the questions asked so far about lights that are not busy and groups
of such lights; `TellsStill` keeps it when others do something, since whoever they touch becomes busy,
and `RecordedTells` when the next answer arrives. Of the colour it has that of lights with
COLOUR_CONTROL, converted; of others, that the file has none (`Uncoloured`). The world of a loaded file need not be
coherent, so nothing of `CInv` can be used: `NextHeals` shows light by light that no step makes
a right status byte wrong, and that a level command puts right the bytes it reaches.

Induction over data (lists of filters, bytes of a stream, questions) is done in `Iteration`: the library's
induction theorems take operators as parameters, which the provers cannot instantiate, but a set of
natural numbers has a least element (`LeastNumber`, from the theorem on well-founded relations), and with
it a loop that carries a value along is a function (`LoopExists`, `LeapExists`).

Only model-checked: `SlotReturned`, `EveryRequestAnswered`, `StopEnds`, `EveryWayStops`,
`SecondInterruptEnds` and `FadesEnd`. They need fairness, that is ENABLED, about which the
provers cannot reason. The properties of the three runs with violations are false.
The models themselves, and what section 6 leaves out, are taken from the code by reading.

## 6. Not modelled

- **Inhibit**: its deadline is written and never read.
- **UDP transport**: a datagram is one atomic step of the other modules. Delayed
  replies are modelled in `Registers`, where all have one delay; replies to queries
  of different delays may overtake each other, and the protocol promises no order.
- **Profile labels and behaviours**: configuration.
- **Labels, memberships, versions, instance queries**: functions of the
  configuration without state. **Buttons and absolute inputs**: one event, no state.
- **Malformed or refused requests**: no change of state. A colour typed
  at the console with a component over 255 does change lights and then fails; see the hazards.
- **Good console lines**: they call the same methods as requests, with arguments that are
  not checked for their range; the model has them with the arguments a request can carry.
- **The rest of the loader and of the dump**: reading and writing YAML, rejecting malformed
  files, questions about labels, devices, memberships, limits and scene tables, the command
  lines. The `clients` library of the dump is external: it is modelled as handing on an answer or
  nothing, and hands on 255.
- **Start-up**: `start` succeeds or fails as a whole; which port is taken, or which
  argument is wrong, makes no difference to the rest.
- **Encodings** of answers and events: bytes of fixed layout, covered by the unit tests.
- **The wall clock set back**: holds and fades then last longer than the model says.

## 7. Plan

Done: `Gear`, `World`, `Filters`, `Occupancy`, `Framing`, `Sessions`, `Registers`; `Lifecycle`,
`VariableScan` and `Snapshot` on top of three of them; proofs of every safety and action
property the passing runs check. In order of importance, next:

1. `Datagrams`: UDP requests with delayed replies, stop with replies pending.
2. With fades but without STOP_FADE: what the stored level of a group then
   tells of its members.
3. A composition of `World` and `Filters`: what a client that enables events late
   or filters a wire can conclude about the lights.
