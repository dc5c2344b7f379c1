# Verification of freewebrtc

TLA+ models of freewebrtc, TLC configurations that check them on small
instances, and TLAPS proofs of the properties that hold for every instance.

## The system

freewebrtc is a library that does no input or output. A user (a program, or
the Node.js bindings) passes datagrams and time points in and carries out the
effects it gets back.

| Part | Code | What it does | Model |
|---|---|---|---|
| STUN client over UDP | `src/stun/stun_client_udp.*` | binding transactions: retransmission, responses, timeouts | `StunClientUDP` |
| RTO calculator | `src/stun/details/stun_client_udp_rto.*` | retransmission timeout per network path (Karn, RFC 6298) | `RtoCalculator`, `RtoHistory` |
| Intrusive list | `src/util/util_intrusive_list.hpp` | order of the calculator's paths by age | `IntrusiveList`, `ItemLists`; a sequence in `RtoCalculator` |
| STUN messages | `src/stun/stun_message.cpp`, `stun_attribute*.cpp`, `stun_address.cpp`, `stun_header.cpp` | parse, build, check integrity | `StunAttribute`, `StunMessage` |
| Stateless server | `src/stun/stun_server_stateless.cpp` | answers binding requests | `StunServerStateless`; with the client in `StunBinding` |
| Clock | `src/clock/clock_timepoint.hpp` | 64-bit time points that wrap round | `Timepoint`; a natural number in the client |
| ICE candidates | `src/ice/candidate/` | SDP candidate attribute, priorities | `IceCandidate` |
| Addresses, tokens | `src/net/`, `src/util/util_token_stream.*` | FQDN, ports, IP addresses, tokens | `IceCandidate`; addresses in `StunAttribute` |
| RTP packets | `src/rtp/` | packet parser | `RtpPacket` |
| Bindings | `node/` | JavaScript objects for the library's values | client in `StunClientExample`, candidates in `IceCandidate` |
| STUN client example | `examples/stun_client/index.js` | concurrent requests with one client | `StunClientExample` |
| Crypto, hashing, errors | `src/crypto/`, `src/util/` | HMAC, hash functions, error values | not modelled |

The client owns one RTO calculator, which it asks for a timeout when it
creates a transaction and updates when a success response arrives. The
calculator keeps a map of paths and an intrusive list of the same paths. Client
and server read and write messages with the same parser and builder. The example
creates one client and calls it, through the binding, from every request it makes.

## Modules

**`RtoCalculator`** has the calculator's two members as variables (`by_path`
is `m_by_path`, `history` is `m_timeline`) and one operator per method: `Rto`,
`NewRtt`, `Backoff`, with `ClearOutdated` inside the last two where the code
calls it. Durations are naturals and the divisions truncate. A `Maybe` that is
absent is `None`.

**`RtoHistory`** calls them in any order on any path as time passes.

**`StunClientUDP`** extends `RtoCalculator` and adds the client's members under
their own names: `next_handle`, `tid_to_handle`, `tmap`, `timeline` and
`effects`. `now` is the time point of the next call; `returned` is what the
last `next()` returned; `sent` and `ended` are history variables.

| Action | Code |
|---|---|
| `Create(tid, p, auth)` | `create`, `do_create`, `allocate_handle`, `allocate_rtx_algo`, `RetransmitAlgo::init` |
| `Response(m)` | `response`, `find_transaction`, `check_response_auth`, `handle_success_response`, `handle_error_response`, `process_5xx`, and the calculator's `new_rtt` or `backoff` |
| `NextPop(e)` | one iteration of the loop of `next`, with `RetransmitAlgo::next` and `calc_next` |
| `NextEffect` | the return of `next` with a pending effect, with `cleanup` |
| `NextWait` | the return of `next` with `Sleep` or `Idle` |
| `Tick` | time passes between calls |

A call of `next()` is a run of `NextPop` steps that ends with `NextEffect` or
`NextWait`. While it lasts `busy` is set and nothing else happens: the calls do
not overlap.

`m_tid_timeline` is a set of pairs of time and handle. It is a priority queue in
the code, where equal entries could occur twice; `OneTimer` shows that they do
not. `TimelineGreater` is a total order, so the top of the queue is unique.

A datagram is a record of what `response()` looks at: its class, whether its
integrity is valid, the error code, which attributes are there. The network is
not a variable: as requests and responses may be lost, duplicated, delayed and
reordered, any datagram may arrive at any time.

**`StunTransactions`** is the abstract specification: a handle is started once,
its request is sent a bounded number of times, outcomes of it are decided on until
one is reported, and what is reported was decided on before. `pending` counts the
outcomes between the two: in the client, those in `m_effects`. Its fairness is that
every transaction has an outcome reported, so to implement it includes that. It does
not promise that there is only one (see below, where code and documentation differ).

**`IntrusiveList`** models the links themselves. A list owns the sentinels
`m_head` and `m_tail`, an item one link; `links` holds `m_next`, `m_prev` and
`m_owner` of each. `remove`, `place_after`, `place_before` and `do_move` are
operators on the links, named and written as in the code, and the public
operations are actions.

| Action | Code |
|---|---|
| `NewItem`, `MoveItem`, `DestroyItem`, `RemoveItem` | the constructors, the destructor and `remove` of `Link` |
| `PushBack`, `PushFront`, `PopBack`, `PopFront` | the same |
| `NewList`, `MoveList` | the constructors of the list |
| `BeginClear`, `ClearLoop`, `EndClear` | `clear`, the move assignment and the destructor, which start with the loop of `clear` |

An operation that would call `std::abort` is not enabled. `NeverAborts` says that
`empty()` and `get()` never do; `pop_front()` and `pop_back()` abort on an empty list,
which is left to their caller. **`ItemLists`** is the abstract specification: a list is a
sequence of items and an item is in at most one.

**`StunServerStateless`** has `m_users` as its state. `process` and
`process_request` are operators on a datagram and the users; the actions are
`Process` and `AddUser`. A signature is the password it was computed with. The
hash function may fail.

**`StunBinding`** puts the client, the server and a network together. It extends
`StunClientUDP` and instantiates the server. A request enters the network when
`next()` returns `SendData`; the server's response becomes the datagram
`response()` gets, its integrity valid when it was signed with the client's own
password. The network is one of two. The unreliable one keeps every message and
may deliver it never, once or again, in any order. The reliable one delivers
each within `MaxDelay` ticks.

| Action | What it composes |
|---|---|
| `CreateRequest` | the client's `Create`, with the credentials of the handle |
| `CallNext` | the client's `NextCall`, and the datagram sent |
| `ReceiveRequest` | the server's `process`, and the response sent |
| `ReceiveResponse` | the client's `Response` |
| `AddUser`, `PassTime` | the server's `add_user`; the client's `Tick` |

**`StunAttribute`** has one operator per `parse` and `build` of the attributes,
the message type with its class and method, and the X-Address. A value is its
length and what it says; a word is one bit of the 32 the code combines.

**`StunMessage`** has the members of an attribute set (`m_map`, `m_unknown`) and
follows a message through its life.

| Action | Code |
|---|---|
| `Emplace`, `EmplaceUnknown` | `AttributeSet::create` and `emplace`: the first attribute of a type counts |
| `Build(k)` | `Message::build` and `AttributeSet::build`, with or without a key, the map in any order, as its hash table has none |
| `ChangeAttrs`, `ChangeHeader`, `Cut` | the network: an attribute is added, removed or replaced, the header changed, the end cut off |
| `Parse` | `Message::parse` with `RawAttr::parse` and `parse_attrs` |

`IsValid` is `Message::is_valid`. `wire` is a header and attributes with their
lengths, not bytes; sizes, padding and offsets are computed as the code does. A
digest is a term of its key and of all it covers, and so is a checksum: no two
inputs collide.

**`IceCandidate`** is `parse_sdp_attr` with the parsers of its fields, the token
stream and `Fqdn`, and the priority formula. A word of a line is a record of what
the parsers ask of it: its text, its characters by class, the number it spells
as two halves, whether `inet_pton` takes it. **`RtpPacket`** is `Packet::parse` on a
packet's size and the fields that decide how it is read. **`Timepoint`** is the
comparison and difference of time points, for any even modulus. These are pure
functions; **`Parsers`** lets an input of each grow and states what they make of it.

**`StunClientExample`** extends `StunClientUDP` with the binding and the example.
A call of `request()` has a state, a socket with its queue `q`, the listeners on
it, an alarm and the datagram it received. What JavaScript runs between two
`await`s is one step, except that a call of `next()` is as many as in the client.

| Action | Code |
|---|---|
| `Resolving`, `Resolved`, `NotResolved` | `request()` up to the loop, with `create` of the binding |
| `LoopInNext`, `Loop` | `next()` and the branch for the effect it returned, up to `receive()` |
| `Arrive` | the `message` event: queued, or given to the listener |
| `Alarm` | the timeout of `receive()` |
| `Continue` | the end of `receive()`, with `response` of the binding |
| `PassTime` | the clock |

`Ms` is the number of ticks in a millisecond: `SleepMs` rounds as the binding does.

**The `MC_` modules** instantiate the specifications for TLC. Definitions called
mutants, next to the definition they alter, are the plausible bugs every checked
property has been seen to catch.

The modules whose names end in **`_proofs`** hold the proofs; each extends the
modules it is about. `StunClientOutcomes_proofs` and `StunBinding_proofs` build on
`StunClientUDP_proofs`, `StunClientExample_proofs` on `StunClientOutcomes_proofs`;
`ListEdits_proofs` on `IntrusiveList_proofs`, `ListSequences_proofs` on
`ListEdits_proofs`. `Components_proofs` is about the parts that stand alone.

## Runs

`tlc -config X.cfg M`; each run's name is that of its `.cfg`.

| Run | Question |
|---|---|
| `timers` | Do two concurrent transactions stay consistent and keep their schedule, with results and 5xx responses at any time and `next()` arbitrarily late? |
| `endings` | Can an unsigned datagram, by any branch of `response()`, end an authenticated transaction? Does every transaction end, with `max_rto` set and `next()` late, and does the client implement `StunTransactions`? |
| `rto_history` | Do the calculator's map and list agree, is the list sorted, and do timeouts stay positive? |
| `lists` | Do the links of items and lists stay sound, however they are constructed, moved, pushed and destroyed, do they implement sequences, and does `clear()` end? |
| `server` | Does the server report success only where it should, for every datagram and whatever users are added? |
| `unreliable` | Do the client's outcomes agree with what the server did, over a network that loses, repeats and reorders? |
| `reliable` | Is every request of a registered client served, when the network delivers in time? |
| `messages` | Is what `build()` writes what `parse()` reads, and can a datagram changed under way pass for what was signed? |
| `parsers` | Do the parsers of host names, candidates and RTP packets, the priority formula and the order of time points agree with definitions that do not follow their steps? |
| `example` | Do concurrent requests that take each other's effects all return, is no transaction abandoned, and is the client under such a user still an implementation of `StunTransactions`? |
| `late_send`, `mapped_family` | The code differs from its documentation (below). |

What the invariants say:

- `IndexConsistent`: the two maps are inverse of each other.
- `LiveOrEnded`: each issued handle is live or ended, not both.
- `NeverStranded`: a live transaction has a timer or a queued outcome.
- `OneTimer`: no handle has two timers.
- `RetransmitsBounded`: at most Rc - 1 retransmissions, and two per accepted 5xx.
- `NoEarlyTimeout`: no timeout before the schedule of RFC 8489 has run down.
- `KarnSound`: a round trip is used only when one copy of the request existed.
- `QuietAfterOutcome`: nothing is queued for an ended transaction.
- `UnsignedNeverAccepted`: an unsigned datagram ends no authenticated transaction,
  redirections excepted.
- `HistoryLinked`, `HistorySorted`, `KnownUpdateClears`, `RtoPositive`: see `rto_history`.
- `LinksMirror`, `NoDangling`, `NeverAborts`: neighbours refer to each other,
  nothing refers to a destroyed link, `empty()` and `get()` meet no `std::abort`.
- `InListExact`: `in_list()` holds of exactly the items some list contains.
- `SuccessDeserved`, `AcceptedStaysAccepted`: who gets success and how it is
  signed; a request accepted once is accepted again.
- `OutcomesTruthful`: `TransactionOk` means the server accepts the client. A
  client that signs never hears of a 401 or 420, since the server does not sign
  them, and times out.
- `EveryRequestServed`: see `reliable`.
- `RoundTrip`: a built message is parsed into the same attributes, whatever order
  they are written in and however long they are, and `to_address()` returns the
  address `from_address()` was given.
- `IntegrityRecognised`: it is valid under the key that signed it and no other,
  with or without a fingerprint.
- `OnlySignedContent`: however a datagram was changed, if it is valid then it says
  what was signed, no more and no less.
- `FingerprintGuards`: a message with a fingerprint is accepted only unchanged.
- `SlotsSuffice`: the builder fills no more slots than it allocated.
- `FqdnIsLabels`, `CandidateIsGrammar`, `PriorityIsLexicographic`,
  `PacketPartitioned`, `TimesOrdered`: see `parsers`.
- `UnknownIsIgnored`: a well-formed candidate with an unknown transport, address or
  type is ignored by the binding, neither returned nor thrown.
- `NoOrphan`: there are at least as many calls in their loops as transactions. A
  call may return with the result of another; the last one left serves the rest.
- `MessageDelivered`: no listener of an earlier `receive()` takes a datagram away
  from the next one.

**Bounds.** Two transactions are the least with which timers of one are served
in the loop for another, and identifiers are reused. Rc = 2 has a first and a
last request, one retransmission between them, and one accepted 5xx response
adds up to two more. `Lateness` is how late `next()` may be: in `timers` it
equals `MaxTime`, so it may be missed altogether. `MaxEffects` stops datagrams,
not timers, when that many effects wait. With three paths one can be outdated
while another is updated and a third is new; `HistoryDuration` = 1 and
`MaxTime` = 4 let a path become outdated twice. Identifiers, and paths in the
calculator, are interchangeable, hence the symmetry in the safety runs. Three
items and three lists let an item have item neighbours on both sides while
other lists are moved, assigned or destroyed. `server` takes every datagram of
`RequestSet`; three passwords leave one that neither of two users has. In
`unreliable` the four transactions are one of each kind (signed or not, with an
unknown attribute or not), and the server may learn the right password, a wrong
one or none, at any time. In `reliable` the round trip takes 2 to 4 ticks and the
schedule of the first transaction 5, so that answers arrive after zero, one or
two retransmissions and shortly before the timeout. `endings` has one
transaction, as its datagrams are one for each branch; `example` has two.

In `messages` two attributes have a neighbour on either side together with
MESSAGE-INTEGRITY and FINGERPRINT, and their lengths need no padding, one byte or
three; one change under way is enough to add, remove or replace any attribute (the
run also passes with three attributes, in a few minutes). In `parsers` a
candidate line may differ from a usual one in two places, so that a wrong word
can be followed by one that makes up for it; host names have up to five characters,
enough for two labels with a hyphen or an end at fault; packets reach past every
length test by some bytes on both sides. In `example` two calls overlap; a tick is
half a millisecond, so that a `Sleep` can be rounded up, and an alarm may be one
tick late.

**Fairness.** `FairSpec` assumes that the user keeps calling `next()` and that
time passes; the library asks that much of its user, and the loop of
`examples/stun_client/index.js` does it. No datagram is assumed to arrive. In
`endings` the transaction starts at time 0 and the clock stops at 20, past
the end of every schedule with the lateness allowed there (two ticks). In
`lists` only the loop of `clear()` is fair: it is a loop inside one
call. `BindingFairSpec` adds that messages which can be delivered are; `reliable`
uses it with the network of that name, a user that calls `next()` until it says
to sleep, and no message delivered in the tick it was sent. `ExampleSpec` assumes
of Node.js that a function that can run does, that timers fire and that time
passes; not that a datagram arrives, nor that host names resolve.

**Deadlock** is checked wherever a client, a server or a list is at work: an
operation is always possible. `messages` and `parsers` end with a message parsed
or an input complete, and `example` with its last call returned.

## Where code and documentation differ

- `late_send`: the comment on `SendData` guarantees its reference until the
  outcome is received, but a retransmission that falls due after a response was
  handled and before the next `next()` is returned after the outcome, when
  `cleanup()` has freed the message.
- `mapped_family`: the layout of MAPPED-ADDRESS puts the family before the port, but
  `build()` shifts it by 16 bits to the right, out of the word. The family sent is
  0 and `parse()` refuses the attribute; ALTERNATE-SERVER is built the same way.
  `RoundTrip` leaves the two out.

Read in the code and modelled as it is, with no run of their own:

- a 5xx response costs up to two retransmissions where the settings promise a
  maximum of `server_error_max_retransmits` (`stun_client_udp_settings.hpp:45`),
  since `calc_next` raises the limit and the running timer stays in the timeline.
  `RetransmitsBounded` has the bound that does hold;
- `max_rto` is documented as a maximum (`stun_client_udp_settings.hpp:35`) and used
  as a minimum (`stun_client_udp.cpp:467`);
- with `request_count` 1 the multiplier for the last request
  (`stun_client_udp_settings.hpp:40`) is not applied;
- when MESSAGE-INTEGRITY occurs twice, `parse_attrs` keeps the first digest and the
  interval of the last, and the message does not validate;
- `ComponentId::from_string` does not test the range `from_unsigned` tests: it accepts
  0 and 257 to 999, for which `256 - id` leaves the eight bits it has in a priority.
  `PriorityIsLexicographic` is about 1 to 256;
- `Priority::from_string` allows 2^32 - 1 where the comment says 2^31 - 1;
- a padding count of 0 is accepted in an RTP packet, where the comment asks for one
  or more octets that include the count (`rtp_packet.cpp:128`), and the octet is left
  in the payload. `PacketPartitioned` says of such a packet only that its parts lie
  within it;
- a label of a host name may begin with a digit, against the grammar quoted in
  `net_fqdn.cpp`;
- the two top bits of a message type are not tested for zero.

Two things no documentation speaks of. `response()` leaves a transaction in the maps
until `next()` returns its outcome. A second response before that, or the timer of the
last request in the loop of that `next()`, queues a further outcome, possibly a
different one, and `next()` returns them all, to whoever calls it: a user that wants
one outcome has to ignore the handles it has seen one of, and a further outcome may
stay in the queue when the last call of the example has returned. And
`backoff()` on a path without history returns before `clear_outdated()`:
`KnownUpdateClears` is about the other updates.

## Proofs

The theorems hold for every value of the constants: any settings, paths,
identifiers, datagrams, users and calls, and any bound. What they assume of the
constants is named where these are declared, and TLC evaluates it on each run.

- `RtoAssumption`, `ClientAssumption`: settings are naturals; Rc, the multiplier
  and the initial RTO are not zero; a datagram is a record of the right type.
- `BindingAssumption`, `ResponseAssumption`: credentials are no absent values, and
  what the server can send is a datagram the client's model knows.
- `ExampleAssumption`: handles can serve as identifiers, and a request may be
  unsigned, as those of the example are; bounds are naturals.
- `ListAssumption`: the links of different objects are different, and the items
  are finitely many.
- `ModulusAssumption`, `ParsersAssumption`: the modulus is even and positive; local
  preferences are at most 65535 and component identifiers 1 to 256, as
  `LocalPreference::from_unsigned` and `ComponentId::from_unsigned` ensure.

**`StunClientUDP_proofs`**: `TypeCorrect`, `MapsConsistent`, `HandlesAccounted`,
`NoneStranded`, `TimersUnique`, `RetransmitLimit` and the action property
`QuietOnceEnded`. The type invariant is inductive together with "no live
transaction was created in the future", without which a round trip need not be a
natural number. The others follow from one inductive invariant, `SafetyInv`. To
the properties it adds

- `Issued`: timeline entries and queued effects carry handles already issued.
  `create()` takes the next handle, so without this a stale entry could belong
  to it;
- `AllPaid`: each retransmission was paid for by the schedule or by a 5xx
  response. The delicate case is a timer that runs out before `maybe_next`: it
  retransmits without advancing the schedule. Such a timer is left behind only
  by `process_5xx`, and each 5xx response pays for one.

There is one lemma per action (`CreateSafe`, `ResponseSafe`, `PopSafe`,
`EffectSafe`, `QuietSafe`), and in it one step per conjunct.

**`StunClientOutcomes_proofs`** builds on `SafetyInv`. Its three results need to
count or to double, and there they are lemmas that assume what they use of
finite sets (`FiniteSetLaws`) and of powers of two (`PowersDouble`). The end of
`StunClientExample_proofs` derives both from the library's theorems, which slow down
every proof after them, and states the three theorems without the assumptions.

- `KarnHolds` and `ImplementsSafely` need to count. `SendsCounted` says that the
  sends handed out and those queued are together one more than the
  retransmissions of the transaction, which is what `rtx_count` stands for.
  `ImplementsSafely` is the refinement of `StunTransactions` without its fairness:
  each action maps to a start, a send, a decision, a report or a stutter. A decision
  needs a transaction that has not ended, which `LiveOrEnded` gives for one found in
  the maps; a report needs an outcome that is pending, which is the one at the head
  of the queue. `CountAppend` and `CountTail` are what the two counts rest on.
- `TimeoutsOnSchedule` (`NoEarlyTimeout`) has as its invariant `OnSchedule`: in a
  transaction without 5xx responses the timer is at `maybe_next`, the time since
  its creation is at least what the intervals so far add up to, and the last
  interval is at least the initial one doubled as often. It assumes
  `RequestCount > 1`: with 1 the property is false (see above). That the doubled
  intervals add up is `DoubledFacts`; the powers of two come from the number of
  subsets of a set, as the prover knows no recursive definition of them.

**`IntrusiveList_proofs`**: `ListTypeCorrect`, `ListLinksMirror`, `ListNoDangling`,
`ListNeverAborts` and `ListAcyclic`. The mirrored links are not inductive alone:
with two links that form a ring, or a head that leads to the tail of another list,
`do_move` breaks them. The inductive invariant `Sound` therefore also has

- `Acyclic`: there is a numbering of the links that grows along `m_next`;
- `Homed`: there is an assignment of links to lists that is constant along
  `m_next` and right for the sentinels.

`RemoveSound`, `InsertSound`, `FreshSound`, `MoveSound`, `RelinkSound` and
`DestroySound` show that each operator on links preserves it, and `LinkInvStep`
has one step per action.

**`ListEdits_proofs`** and **`ListSequences_proofs`** go on from there.
`ListsAreSequences` is the refinement of `ItemLists` (`ImplementsLists`), and
`ListInListExact` says that `in_list()`, which looks at one link, agrees with the
walk of all lists (`InListExact`).

- `Holds(n, ls, c)` says that along the successors `n` the lists `ls` link the
  sequences `c`, that no item is in two places and that each item that has a
  successor is in one. The invariant is `Sound` and that some `c` is held.
- `RemoveHolds`, `FrontHolds`, `BackHolds`, `MoveHolds` and, in the second module,
  `RelinkHolds` give, for each operator on links, the sequences held after it. They
  do not mention the walk.
- `OneChain` says that only one sequence can lead from a head to its tail, by
  induction on the first position where two would differ, as a least number
  exists (`LeastNumber`). With it `ListsRead` shows that the walk of the model,
  which chooses a chain, finds the sequences held. That a chain is no longer than
  the number of items is where their finiteness is needed.
- `ListsStep` has one step per action: what the links did is what `ItemLists` does.

**`StunBinding_proofs`**: `BindingUsesClient` shows that client, server and network
together never change the client but by its own actions, so all that is proved of
the client holds in the composition. `OutcomesAreTruthful` has the invariant that
every response on the network is `Justified` by the request it answers and the
users the server has. It stays justified, since the server forgets no user; so it
does not matter when, how often or in what order it is delivered. `UnsignedIgnored`,
about the client alone, follows `check_response_auth()` branch by branch.

**`StunClientExample_proofs`**: `ExampleUsesClient` and `ExampleKeepsPromises` carry
the client's theorems and `StunTransactions` over to the example.
`MessagesDelivered` follows from what the listeners of a call in each state are.
`NoneOrphaned` compares two cardinalities. A call returns on `transaction_ok`,
whoever's it is, and then one transaction less is live, unless that one had ended
before, by a failure returned first, on which no call returns. The invariant
`OkFound` says that in that case there is a call to spare, and that no second
success waits to use it up.

**`Components_proofs`** is about the parts that stand alone: the server, the parsers
and the RTO calculator. Of the server it has `ServerTypeCorrect`,
`ServerSuccessDeserved` and the action property `ServerKeepsAccepting`. They rest on
`EmplaceKeeps`: `add_user()` does not change a password.

Of the parsers it has `PacketsSafe` (`PacketPartitioned`) for every packet and
payload map, `TimesSafe` (`TimesOrdered`) for every even modulus, hence for 2^64,
and `PrioritiesSafe` (`PriorityIsLexicographic`) for all preferences. The lemma
`EveryPacketPartitioned` expresses all offsets by the fields of the packet, shows
that the tests of `parse()` together say that the parts fit, and then adds the parts
up. `JoinedOrder` is the arithmetic of the shifted parts of a priority. The
invariant needed is only that the inputs have their types.

Of the calculator it has `HistoryComplete`, `HistoryOrdered`, `RtoStaysPositive` and
`UpdatesClear`. The invariant adds that no update is later than `now`: only then is
the path that moves to the end of the list the most recent. `clear_outdated()`
erases a prefix, and in a sorted list the prefix is all that is outdated.

Only model-checked:

- whatever needs fairness, which is beyond TLAPS: the liveness half of
  `ImplementsTransactions`, `ClearEnds`, `EveryRequestServed`, `EveryCallReturns`;
- the properties of messages, candidate lines and host names: they compare
  recursions over sequences.

## Not modelled

Statistics counters (written, never read), apart from which error the parsers
count. Bytes: messages are attributes with lengths, digests and checksums terms;
HMAC with its padding of keys, SHA-1, CRC-32 and the hash functions of the maps are
arithmetic on data that no property tells apart. `inet_pton` and `inet_ntop`
belong to the system. Failures to build a request, which leave the client as it
was. The defaulted move assignment of `IntrusiveList::Link`, which copies
references without relinking the neighbours; nothing in the repository calls it.
The wrap of the 32-bit handle counter. In the bindings, the server, the message
objects and the settings, which convert values and keep no state; the echo
example, which is text processing behind an HTTP server; error names and value
wrappers. Name resolution, `Maybe`, `Result` and binary views are from external
libraries and are modelled by how the code uses them.

## Plan

1. A client whose handle counter wraps round.
2. Proofs: round trips of messages.
3. The server binding of Node.js.
