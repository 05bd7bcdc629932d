# SIM Card Reader: a TLA+ model

The repository is a small web application ("SIM Card Reader") that lets a
browser read and write a SIM card in a PC/SC reader.  It is written on top of a
vendored copy of pySim, a Python toolbox for SIM cards with an SM-DP+, an SMPP
gateway, secure channels and many command line programs of its own.

This directory models what the answers of these programs depend on: where the
card is and where the software thinks it is; what is left behind when a command
is refused, the card is pulled out or another request comes in between; which
key, number, profile or session an answer belongs to; and whether what was
reported as done was done, all of it, to the right card and file.  Line numbers
refer to `src/src/`; names of modules without a path are below
`src/src/pysim/pySim/`.

## 1. Inventory

### The path of a request

    browser (templates/index.html)
      | HTTP POST, several may be under way
    app.py: one Flask handler per request, threaded, no locks
      | function calls
    pysim_wrapper.py: _sl, _rs, _card are module globals
      | lchan.select(name), read_binary, update_binary, ...
    runtime.py: RuntimeState -> RuntimeLchan (selected_file, selected_adf, FCP)
      | the file tree of filesystem.py says which SELECTs lead somewhere
    commands.py: SimCardCommands, one method per APDU or chunked transfer
      | send_apdu
    transport/: PC/SC, serial, modem, Calypso
      | the card: its own current file, access conditions, contents

| component | state | operations | what is hard |
|---|---|---|---|
| logical channel (`runtime.py`) | `selected_file`, `selected_adf`, cached FCP, the tree | `select`, `select_file`, `probe_file`, `reset`, further channels | a path of SELECTs fails half way; except clauses that select again; applications that can only be left through another |
| file system model (`filesystem.py`) | the tree | `get_selectables`, `build_select_path_to`, `add_files`, the commands of the file classes | the computed path must be one the card accepts; what is decoded must encode again |
| APDU layer (`commands.py`) | secure channel, `max_cmd_len` | `read_binary`, `update_binary`, records, TLV objects, CHV | chunking, offsets at the limits, failure between chunks |
| server and session (`app.py`, `pysim_wrapper.py`) | `_sl`, `_rs`, `_card` | `connect`, `verify_adm`, `read_ef`, `write_ef`, `read_tlv`, `write_tlv`, `read_all` | threads without locks, a session replaced under a request, the card pulled out |
| dump (`pysim_wrapper.py`) | the result, the recursion | `_walk_dump`, `_dump_single_file` | a relative walk that swallows every exception |
| browser client (`index.html`) | connected, ADM key, dump, selected file | connect, verify, read, write, save and load | answers out of order, caches of another card |
| transport core (`transport/__init__.py`) | T=0 or T=1, proactive handler | `send_apdu`, `send_apdu_checksw` | GET RESPONSE and proactive loops |
| transports | connections | `connect`, `wait_for_card`, `_reset_card`, `send_tpdu` | time-outs, resets |
| card initialisation (`pySim/app.py`, `cards.py`, `profile.py`) | tree and identity | `init_card`, `_match_applications`, add-ons, card models | probing with two class bytes on a card nobody has described yet |
| service tables (`ts_31_102.py`, `ts_51_011.py`) | the bits of EF.UST, EF.SST | activate, deactivate, check | a bit past the end of the file; files of services against the card |
| shell (`pySim-shell.py`) | channels, card object, ICCID, the ADM mark | `equip`, `reset`, PIN and ADM commands, `open_channel`, `export`, `fsdump`, scripts, `bulk_script` | what outlives a card; dangling channel references; scripts that go on after an error |
| card keys (`card_key_provider.py`) | providers, transport keys | `get`, `card_key_provider_get_field` | which provider and row answers; decrypted once, not twice |
| programmer, reader (`pySim-prog.py`, `pySim-read.py`, `legacy/`) | number, state file, CSV, class byte | the loop over cards, 17 card classes | restart, a number used twice, relative SELECTs, unchecked statuses |
| SM-DP+ (`osmo-smdpp.py`) | RSP sessions, profile directory | the five ES9+ handlers | late, repeated and abandoned requests; restart; a profile changed in between |
| bound profile packages (`esim/bsp.py`, `esim/es8p.py`) | keys, block number, MAC chaining value | encode, decode | both sides must count the same |
| eSIM profiles (`esim/saip/`, `contrib/saip-tool.py`) | list of elements, index by NAA, tree | personalise, add, remove, rebuild, check | indexes that outlive an edit; what one NAA takes with it |
| GlobalPlatform (`global_platform/`) | secure channel, counters | SCP02/03, LOAD, STORE DATA, PUT KEY, GET STATUS | a chaining value moved by an APDU that was lost or never sent |
| OTA, SMS, SMPP (`ota.py`, `sms.py`, `pySim-smpp2sim.py`) | link, proactive command, session of the last PDU | secured packets, ENVELOPE, the card's SMS | lengths and padding; answers that come late and to another sender |
| tracer (`pySim-trace.py`, `apdu/`) | a RuntimeState that follows, the command held back | TpduFilter, SELECT, MANAGE CHANNEL | a held-back answer paired with another command |
| decoders, definitions, exports, tests | none | conversions | none of this kind |

What makes each correct, in the terms of the models: the channel and the card
agree whenever nobody is inside the channel; a transfer touches exactly its
range of exactly the file it was asked for; a request is answered, with a
result that is true of the moment it was served; a dump or an export says of
each file what that file is, and an exported script gives it back; a key goes to
the card it belongs to; a number is programmed once and a good card carries
everything; both ends of a secure channel or a package count the same; a
package carries the profile that was confirmed; what runs on the card is what
was sent and what comes back is its whole answer.

### Hard behaviours

`PROJECT.json` lists them one by one with their lines ("hazards").  In short:
partial failure inside a path, a walk, a chunked write or a program; recursion
through except clauses; state kept across a reset, a card change or a restart;
two threads in one channel; a session replaced while in use; the link lost at
any APDU; answers that come late, twice or to somebody else; counters moved by
what was never sent; indexes and caches that outlive what they refer to; the
bit of P1 that changes the meaning of an offset.

## 2. Plan

| order | module | what it models | state |
|---|---|---|---|
| 1 | `CardFs` | the tree, selectables, select paths; SELECT on the card | done, theorem |
| 2 | `LchanSpec`, `RuntimeLchan` | the logical channel and what it promises | done, theorems |
| 3 | `FileStore`, `CardServer` | the server's threads on the channel, refined to a store of files | done, theorems |
| 4 | `DumpWalk` | READ ALL FILES on the channel | done, theorems |
| 5 | `BinaryIO` | chunked reads and updates | done, theorems |
| 6 | `WebUi` | the browser's caches and requests in flight | done, theorems |
| 7 | `CardProfiles`, `CardInit`, `ServiceTable` | from a card in the reader to a file tree; the service tables | done |
| 8 | `GpShell` | logical channels of the shell, SCP02/03, card management | done, theorems |
| 9 | `ShellCards` | cards put into the shell's reader, codes and keys, bulk scripts | done, theorems |
| 10 | `ShellFiles` | the shell's file commands, export, fsdump, restoring scripts; records and BER-TLV objects | done, theorems |
| 11 | `Bsp`, `RspSession` | bound profile packages; the RSP session of the SM-DP+ | done, theorems |
| 12 | `SaipTemplates`, `SaipSequence`, `SaipTool` | eSIM profiles in memory and in files | done |
| 13 | `CatTransport`, `SmsPdu`, `Ota`, `OtaGateway` | T=0, proactive commands, OTA by SMS through the gateway | done, theorems |
| 14 | `LegacyCards`, `ProgBatch`, `ReadCard` | pySim-prog and pySim-read | done |
| 15 | `ApduTrace` | pySim-trace | done, theorem |
| 16 | serial and modem transports | byte level of a reader | later |

Proofs still wanted: the profile tool.  `NumberUsedOnce` and `SavedIsAhead` of
the programmer need a `ProgBatch` without recursive operators first.

## 3. The modules

**CardFs.** A file is its path, a sequence of names.  `BuildSelectPathTo`,
`Selectables` and `Lookup` translate `filesystem.py`; names that Python finds
in one dictionary are a set here, so where two files carry a name both choices
are possible.  `CardFind` is the card (external): what a SELECT by FID reaches
according to ETSI TS 102 221.  The assumptions `TreeShape`, `KnownShape` and
`FidUnique` say what the profile and the card must look like.

**RuntimeLchan.** The Python calls in progress are a stack of frames; every
SELECT is one step, so a refused SELECT and a lost link can come anywhere.
`Escape` and `StartHops` are the beginning of `select_file`, `HopOk`,
`HopRefused`, `HopLost` and `HopsDone` its loop and `_select_post`; `PathStep`,
`SelectKnown`, `SelectUnknown`, `GoBack` and `Reraise` are `select`; `ProbeOk`
and `ProbeFailed` are `probe_file`; `Reset` is `RuntimeState.reset`, whose
outcomes are told apart but not its intermediate states, since nothing else
runs meanwhile.  `NoBlindSiblings` and `CanLeave` are what the code takes for
granted of a card and not every card grants: a blind SELECT finds no directory
next to the current one, and an application without a file system can be left
through the first one that has one.  They are no assumptions of the module; the
theorems that need them say so.  Once lost, a link stays lost until a reset.  An empty first
path element (`/DF.GSM`) is not modelled, nor is the constructor: `Init` is the
state it leaves.

**LchanSpec** is what the callers rely on: a request ends on a file that
carries the name asked for, or fails where it was.

**CardServer** composes the channel with the server's threads.  A handler is a
sequence of `pysim_wrapper` calls (`todo`); a call is `_select_path`, a SELECT
by FID before the transfer, and the transfer.  The channel's stack belongs to
the thread that runs; `Switch` exchanges it for another's between any two
steps, which is what threads that share a Python object without a lock can do.
`Connect`, `Open`, `Publish` and `StartInfo` are `connect()`; `init_card` is
one step with its outcome.  A write takes one command to the card or several
(`WritePart`, `Transfer`; `update_binary` and `set_data` loop): a content is two
parts, what the first command can write and the rest, and one that is refused or
lost in between leaves the first part written (`TransferFails`).  Which bytes a
chunk is made of is in `BinaryIO`.  The SELECTs before and inside
`update_binary` are one; of `read_all` only the visit of a directory is here.  `ServerAssumption` says what requests are made of, and that
a name picks one file of a directory: `get_selectables` is a dictionary, and
`RESERVED_NAMES` keeps the name of the MF to the MF.

**FileStore** is what clients rely on: a call that is answered with success took
effect as a whole on the file its path names and on no other; one that is
answered with an error changed nothing, except that a failed write may have
written a part of its data to that file.

**DumpWalk** composes the channel with `read_all`.  `frames` are the recursive
calls of `_walk_dump`.  `ReadRefused` knows that records end a list early and
that other structures raise; `Leave` is the finally clause.  A lost link shows
at the next APDU.  `DumpAssumption` is what the walk relies on when it takes what
a listed name selects for the file it has listed: the profiles call directories
`DF.` or `ADF.` and files `EF.`, only the root is called `MF`, and a directory
lists its files once, each under a name of its own (`add_file` refuses a second).

**BinaryIO** models `read_binary` and `update_binary` APDU by APDU, with the
size check before them, conserve_write, verify and the length `expand_hex`
fills data to.  The card refuses a chunk that is not wholly in the file.
Offsets of more than four hex digits are left out (Python would format a
malformed APDU).

**WebUi** models the page of `index.html`: the globals of its script, three
buttons, the write popup that covers the page, and the requests sent and not
answered.  A handler is cut at its await: `ConnectReader` and `ConnectAnswer`
are the two halves of `connectReader`, and in the same way `ReadAllFiles`,
`DoAdmVerify` and `SubmitWrite` (with `WriteAnswer` and the `ReadAnswer` of the
read that follows) have theirs.  The server serves a request at one moment, in
any order, and takes a dump, a write or a key as a whole; what happens inside is
`CardServer`'s and `BinaryIO`'s.  `Exchange` is the user who puts in another card.
`selectedFd` is a reference in the script: once a new dump has taken
`dumpData`'s place it refers to an entry of the old one (`orphan`).
`calm` remembers whether the user has waited for answers before connecting,
selecting, loading or writing.  An impatient user gets what the script does not
guard against: the late answer of a connect, a dump or a write is applied to a
page that shows another card, a loaded dump or another file.  The properties
about what is shown and about keys are therefore stated for a patient user;
`OfflineNeverWrites` is stated for anybody.
Simplified: a local file is read at once; every FCP names its access rule and
the EF.ARR it points to was read (where a file has none the code enables Write,
the model has "unknown" only for entries without FCP); a key's value stands for
the card that accepts it; the BER-TLV editor and the keys filled in from
`test_profile.json` are left out, and so is `onReadClick`, which nothing calls.
`autoRead6982Files` never finds a file to read: the dump gives a file whose read
was refused an empty FCP, and without it `getArrCondition` returns null
(`AutoReadPaths` is empty in every reachable state), although
user-guide-en.md:186 says such files are read again.

**CardProfiles** is data: the lists of files that the constructor of every
directory, application, profile, add-on and card model of pySim hands to
`add_files`, with identifier, short identifier, name and service.

**CardInit** is `init_card`: the class of the card object and the profile are
found by probing with two class bytes, then the add-ons, the applications (from
EF.DIR, or selected one by one) and the card model add their lists.  The card
may be pulled out before any answer, and where the code goes on without an answer
a single one may be lost: `read_aids` swallows every exception (`ListingFails`)
and `_match_applications` a `ProtocolError` (`ProbeCut`); `missed` remembers the
applications that count as missing for that.  There are two class bytes: `cla`,
of the card object's `SimCardCommands`, and `lcla`, of the copy of it that the
basic channel keeps (`runtime.py:57, 191`), made before the profile sets the
first (`runtime.py:65`).

**ServiceTable** adds the shell's commands on EF.UST (one bit per service, read
and written whole) and EF.SST (two bits, read and written byte by byte), and
the check of EF.UST against the files of the card.  The bits are sets of
services; which byte a service is in matters only at the end of the file.

**GpShell** has the logical channels of the shell, SCP02 and SCP03 on each of
them, and the card management commands (INSTALL, LOAD, STORE DATA, PUT KEY, GET
STATUS, SET STATUS), which send one APDU after the other.  A MAC is the session
and the numbers of the APDUs chained so far, a ciphertext the session and the
counter.  Lengths are real.  APDUs or answers are lost, refused, and the card is
reset.  A STORE DATA of more than 256 blocks is left out (`StoresAreSmall`): the
block number would not fit P2 and Python formats a malformed APDU
(`global_platform/__init__.py:584`).  A LOAD wraps its number instead, and
`CapsAreSmall` says of a load file that it does not come to that; the module
does not assume it, one theorem does.

**ShellCards** has `card_key_provider_get_field` over CSV and database providers,
transport keys and groups, as operators, and what uses it: `equip`, `reset`, PIN
and ADM commands, and `bulk_script` with its tries, on cards exchanged by hand or
by a machine.  A card is [iccid, uicc, profile, code]; a wrong code costs a try.
A CSV file is one table (`ProvidersShape`).  `KeysAreGiven` says that the user gave
transport keys of just the columns that are encrypted, without which what is
looked up is no code; the module does not assume it, one theorem does.

**ShellFiles** has the commands of the file classes (transparent, records,
BER-TLV), `export`, `fsdump`, and the exported script run on the card again.  A
codec is what it does to bytes: reads back what it wrote, pads, refuses, loses
what is behind a shorter list.  A SELECT is one step here (`RuntimeLchan` has
its details), and so is the reading of one file.  `CardAssumption`,
`CommandAssumption` and `TreeAssumption` say what cards, commands and trees may
be: every EF is of a kind and holds what its kind can hold, a command carries
bytes, and every EF is below the MF (`Below`).

**Bsp** is the protection of a bound profile package, encoded segment by
segment and decoded segment by segment.  A plaintext is its length, a piece the
interval it covers, an ICV the key and block number it is made from, a MAC the
term of what it covers.  `enc.seen` is a history variable: the instances the
encoder went through.

**RspSession** has the five ES9+ handlers of `osmo-smdpp.py`, its session
store, in memory or on disk, the profile directory, from which an operator takes
files or replaces them (`version` counts how often), and
clients that give a request up while it may still be under way, repeat it or
begin anew.  A handler is one step; the encoding of a package, its last and
longest part, is `Bsp`'s.  A profile's file is read in `AuthenticateClient`, for
the metadata, and again in `GetBoundProfilePackage`, for the package.

**SaipTemplates** has the file templates of eSIM profiles and the tree of files
they make.  **SaipSequence** is `ProfileElementSequence`: PE objects have an
identity, because the index by NAA refers to objects, also to those that are no
longer in the list; a file has only contents.  **SaipTool** has the commands of
`saip-tool.py`, each of which reads, edits and writes the file, and a program
that opens it, personalises it, edits it, and writes it.  A parameter that raises
a ValueError leaves what it has set so far; one that runs into an assertion or
into the `None` of `get_pe_for_type` (an ICCID without exactly one header and one
MF, say) ends the program and writes nothing.

**CatTransport** is one APDU through `send_apdu_checksw` over T=0: GET RESPONSE
below it, FETCH and TERMINAL RESPONSE above it.  A TPDU and its reply are one
step.  **SmsPdu** has the SMS T-PDUs octet by octet, **Ota** the secured
packets with symbolic ciphertexts and real lengths.  **OtaGateway** composes
them: processes of `smpp-ota-tool.py`, the gateway `pySim-smpp2sim.py`, which is
one thread, and the card's OTA application (external).  `ConfigsShape` is what the
tool's options are after parsing, `UnrelatedShape` says that a message the card
sends of its own accord is no response packet.  `KidsAreGiven` says that a tool
knows the KID of the card's key set, or signs what the card checks: a card that
runs an unsigned command signs its PoR with a KID the tool need not have; the
module does not assume it, one theorem does.

**LegacyCards** has the card classes of `pySim-prog`: how each is recognised and
its `program` as a sequence of steps, relative SELECTs and unchecked statuses
included.  **ProgBatch** is the loop around it: parameters from the command
line or a CSV row, the log, the state file, the good and the error bin, kills.
With `--read-imsi` the EF.DIR is selected while DF.GSM is current
(`legacy/cards.py:119`): no application is found and none is programmed.
**ReadCard** is `pySim-read` on the card that is left.

**ApduTrace** is `pySim-trace`: `TpduFilter` pairs the TPDUs of T=0, and the
commands of `apdu/ts_102_221.py` move a file pointer per channel.  The history
variable `lost` remembers that the tracer has seen a SELECT it cannot follow;
`FollowsTheCard` is about channels without one.  The card has the file selected
last, from which a path begins, and a current EF, which is another one after a
READ by short identifier (`BySfi`): the tracer has one pointer, and such a READ
leaves it where it was.  `TraceAssumption` is what TS 102 221
says of identifiers: a file does not share its FID with a directory above it, 7fff
is no file's, and a short identifier is one file's of its directory.

The `MC*` modules give the constants their values; `MCCardTree` is the card of
the channel and of the dump.  They also assume, so that TLC checks it, what the
theorems ask of the constants (`ThisCard`, `CapsAreSmall`, `KeysAreGiven`, `KidsAreGiven`).  Four of
them put two parts that share no state into one run (`MCRuntimeLchan` the
channel and the tracer, `MCFiles` the APDUs and the shell, `MCGpShell` the
secure channels and the cards in the reader, `MCEsim` the SM-DP+ and the
profile tool): a behaviour is one of either, and the other part rests in an
initial state.  `MCCardInit` uses the service tables on the card it has
initialised, `MCProgBatch` reads a card after `--probe`.

## 4. Runs

| run | question | result |
|---|---|---|
| `lchan` | do software and card agree after anything a caller does, does the channel keep its promise; does the tracer follow a terminal | holds |
| `server` | is the server, one request at a time, a store of files named by path, where only a failed write leaves something, and only in its file | holds |
| `server_threads` | does damage done by interleaving or by a reconnect last | it does not: a call alone is right |
| `server_misdirected` | can an interleaved write go elsewhere | it can |
| `dump` | is a dump true and complete, does the walk end | holds |
| `binary` | are chunked transfers right; are exports whole, and does a script give back what was exported | holds |
| `webui` | for a patient user, are the bytes shown the card's, do keys stay with their card; for anybody, is offline offline | holds |
| `gp` | do both ends of a secure channel stay in step, is what returned carried out whole; do codes go to their cards, is a done card done | holds |
| `init` | is the tree the card's and the channel at the MF; does the check of a service table miss no file | holds |
| `prog` | does a good card carry everything, in the files meant; are numbers used once; does pySim-read show what is there | holds |
| `ota` | does what was sent run, unchanged; is an answer whole, and the sender's | holds |
| `esim` | has a package the metadata that were confirmed and the contents of that profile, and is it whole; is a session one authentication; does an edited profile hold what was applied and stay readable | holds |

Properties that belong together are one definition, the conjunction of named
parts with a comment each: `TraceIsRight` is `PairedRight`, `FollowsTheCard` and
`GoesOn`; `WrittenIsThere` is `DecodedReadsBack`, `RestoreGivesBack` and
`RestoreStaysHome`; `OkMeansDone` is `AllCarriedOut`, `LoadedIsWhole`,
`KeyIsMeant`, `ListIsWhole` and `StrayDoesNothing`; and so on.

Bounds.
* `lchan`: a tree with two DFs side by side, a nested one, two applications with
  a file system that share a FID, one without, a file the card lacks and one the
  profile lacks: every clause of `build_select_path_to` and of the card's SELECT
  is used, and every way to fail.  The card grants `NoBlindSiblings` and
  `CanLeave`.  Without the first, probing files a sibling directory as a child
  and `LearnsTheTruth` does not hold.  Without the second (the first application
  is in EF.DIR and refuses to be selected), a failed select that wants to leave
  an application without a file system cannot go back: the software ends on the
  MF or stays where it is, `Coherent` and `LearnsTheTruth` still hold (their
  theorems do not ask for it), `FailedSelectGoesBack` and `ImplementsPromise` do
  not.  The tracer
  sees four exchanges on channels 0, 1 and 4: one to open a channel, a SELECT
  whose answer is held back, the command that follows it.
* `server`: `MaxRequests` is 4 for one thread (connect, use, lose the card,
  reconnect) and 3 for two (two to do the damage, one of them perhaps a
  reconnect, and one to be alone after it); two suffice to misdirect a write.
* `binary`: a file of 5 bytes in chunks of 2 has a first, a middle and a
  shorter last chunk; requests reach one byte past it.  The shell's card has a
  file of every structure, codecs of each kind, objects longer than a fragment
  of 3, and a directory below the one that may refuse to be selected: what is
  skipped is all that is below it, which is why `DumpCoversTheCard` speaks of
  `Below`.  Two commands are typed before the export.
* `webui`: two cards (interchangeable, hence the symmetry), two keys, three
  files (free to write, one key to write, another key to read), five requests of
  which two may be under way: verify, dump, write and the read after it, and
  one more to race with any of them.
* `gp`: two logical channels, seven APDUs (two open a session, one opens a
  channel, `install_cap` takes four) and one incident; a load file of two blocks, data of
  one block and of two; two cards, three commands,
  up to two tries for a card and three failures of a bulk run.
* `init`: every combination of class bytes, EF.DIR, applications, eUICC and card
  model; one probe without an answer (`MaxCuts`), since probes do not depend on
  one another; services at both ends of the table, of a file, of a directory and of
  both.
* `prog`: every card class alone; batches of two cards of the classes with
  short programs; two refusals.
* `ota`: two tools, eight configurations (both algorithms, no protection, a
  wrong key, an impossible length, an unknown application, answers by SMS), two
  proactive commands of the card.
* `esim`: three eUICCs, one whose certificate does not verify and one that
  shares no CI, two profiles and two transaction ids, one restart, or one profile
  taken away or replaced; sections of one and two segments.  Three profile files, each
  with its peculiarities; two commands of the tool, two calls of a program.

`CHECK_DEADLOCK FALSE` stands everywhere, since each run bounds its requests,
cards or APDUs, and the dump returns.

Fairness.  `WF(Step)` of the channel and `WF(Walk)` of the dump say that the
thread that executes Python code goes on.  Nothing is assumed of the card, of the
user, of the network or of a client, and no other run states fairness.

A mutant is kept before the definition it changes and stands for a plausible
bug in that code; for every property of a passing run one of them breaks it.

Where the code does not do what it or its documentation says, the models follow
the code.  `server_misdirected` shows one case.  Others, which the properties
leave out where they are named in `PROJECT.json`:
* `write_tlv` never has an effect: it selects an empty path and raises
  (`pysim_wrapper.py:263`).
* Two overlapping connects may leave a session whose link is closed.
* A file of the dump whose read is refused is reported below its own name
  (`EF.X/EF.X`), and `autoRead6982Files` therefore never reads it again.
* The decoded view of a record file keeps its old content when it was written
  without a key, or when the read after the write fails.
* Probing files a sibling directory as a child of the current one.
* Keys of a security domain that are set by personalisation are lost when the
  element is encoded: `PersonalisedIsWritten` is about the other parameters.
* "PIN2 is special: telecom + usim + isim + csim" (`esim/saip/personalization.py:566`):
  `pes_by_naa` has no key `telecom`, so the PIN2 of the telecom element is never
  set.  `Meant` follows the code, and `PersonalisedExactly` therefore requires
  that this PIN2 stays; a reader of the comment would want it changed.
* An update of several APDUs that is refused or cut off half way leaves the first
  chunks written, and the caller is told of an error only (`commands.py:385-404`).
* The basic channel keeps the class byte found by probing when the profile sets
  another one: a card found to be a SIM that has a UICC profile is spoken to in
  class a0 on the channel and 00 by the card object (`runtime.py:57-65`).
* A READ by short identifier does not move the tracer's file
  (`apdu/__init__.py:341`): the READs of the current EF after it are shown with
  the file selected before.
* A profile's file is read once for the metadata the eUICC confirms and again for
  the package (`osmo-smdpp.py:648, 740`): replaced in between, it goes to the eUICC
  under the old confirmation.  `ConfirmedProfile` says which contents a package
  may have.
* A profile template without a declared parent goes below the DF that happens to
  be current, not below its `base_path`, which nobody reads
  (`esim/saip/__init__.py:693`).
* Commands of a secure channel on a further logical channel carry a MAC made
  for channel 0 (`commands.py:66`, `scp.py:569`).
* An update through a list codec leaves the records behind a shorter list.
* `init_batch` calls `iteritems`, so the state file is written and never read.

## 5. Proofs

`RuntimeLchan_proofs` begins with the tree: `SelectPathIsChain` says that each
file on a path that `build_select_path_to` returns is in reach of a SELECT from
the one before it.  It rests on the greatest common prefix (`CommonDepthFacts`)
and on what dropping everything before an application leaves (`ClipFacts`).

Then the channel, for every tree, card and set of requests, with probing, on
a card without blind siblings: `Typing`, `Coherence`, and that what probing adds
to the tree is on the card; and, if applications can be left, `GoesBack` and `Refinement` (the channel implements
`LchanSpec`).  None of this is inductive: in the middle of a path the card is
ahead of `selected_file`, and an except clause calls `select_file` again.  The
invariant says which stacks of calls there can be and what each call owes its
caller.  At most three are on the stack (`Caller`, `Trying` or `GoingBack`,
`Filing`), and two more (`InnerTry` or `InnerReraise`, `InnerFiling`) where leaving
an application without a file system takes another `select`.  Between two SELECTs (`Still`) the
card is at `selected_file`; in the loop (`Hopping`, `LeaveHopping`) it is at the
last file the loop reached, `data` is that file's FCP, and what is left is a
chain of SELECTs from it, which `SelectPathIsChain` starts and `FidUnique` makes
unambiguous.  An except clause knows that what it goes back to was current when
the request came.  The refinement then is short: asking and the return of the
last call are steps of `LchanSpec`, everything between stutters.  `Reaching` says
what is left of coherence when the link goes: a select that did not fail has sent
at least one SELECT, and after the last of them card and `selected_file` were
together (`Reached`), whether the link was lost before the call returned or not.

`CardServer_proofs`: with threads that are not kept apart neither `Coherence` nor
its invariant holds, so this proof says less, and of one thread at a time.
Whatever the others do, the frames on a thread's stack name files of the profile
(`Typed`), and while it is alone in the channel it keeps three things.  `Aims`: the
frames lead to the file the thread asked for, or the call has failed.  `Homing`:
the first SELECT of `_select_path` goes to the MF from wherever the card was left;
since SELECT of the MF works from everywhere, no coherence is needed before it.
`Together`: from there on software and card move together, one hop at a time, for
which `PathLeads` and `HopFinds` give that a path built to a child is a chain the
card can follow.  `StepAims`, `StepHomes` and `StepCoheres` show that each step of
the channel keeps them, and `Undisturbed` joins them to the names of the path
still to be selected.  `AloneRight` follows for any number of threads; with one
thread (`OneThread`) every call is undisturbed (`ByItself`), hence
`OneThreadActsOnNamedFile`, and the server implements `FileStore`
(`ServerIsFileStore`): the last command of the transfer is the moment a call takes
effect, those before it write a part, a call that fails is refused, all else stutters.  The latter asks that transfers name files
of the card (`AsksForFiles`), which are the store's.

`CardTree_proofs`: `DumpIsTrue`, for every tree, card, listing and access rules and
a link that may be lost.  What the walk does to the channel are steps of the channel
(`SameStep`), so the channel's invariant (`P!Channel`) holds in the middle of it and
need not be proved again.  On top of it `DumpInv` says which select the walk waits
for (`Asked`), that it reads an EF at which the card is (`Reading`), and that the
directories still to be done are well formed (`Walking`).  As `Reaching` has it, the
entry of a directory is true even if the link has gone meanwhile; READ selects
the EF by its FID once more, which `FidUnique` makes the same file.
`DumpMissesNothing` (`DumpIsComplete`) asks for a card whose directories can be
left (`CanLeave`).  `WalkInv` says where what is not reported yet is: at hand, or
ahead of some frame (`Todo`, `UnderWay`), below a directory that has been entered
(`Deeper`); a directory whose name is done has been left again, which is what
`CanLeave` is for, and one in which nothing was found has been taken out.

Its second part is the tracer: `TracerIsRight` (`TraceIsRight`) for any files,
channels, SELECTs and captures of any length.  A path is computed element by
element, by the card from its directory (`IsWay`) and by `UiccSelect` from the
tracer's file (`IsPath`); both are runs of a step over the sequence (`IsRun`,
`UpTo`).  Where the tracer begins at the card's directory it follows every further
element (`PathFollows`), as an identifier that the card finds below a directory is
no other file's there (`SameChild`, `ByFidFollows`).  `TraceInv` compares the card
not with the tracer's channel but with what that channel will be once the answer
that is due was fetched (`Ahead`); what was not followed is in `lost`, for the
application in `astray`, which a SELECT through 7fff depends on.  An answer that
was not asked for makes the tracer process the command before (`Hidden`), which
touches one channel only, and that one is lost (`Blind`).

`Files_proofs` begins with `BinaryIO`: type correctness, `ReadReturnsTheRange`,
`SuccessMeansWritten`, `UpdateIsAPrefix` and `UpdateStaysInFile` for every
length of file, data and chunk.  The invariant relates the file to what it was
when the call began (`FileHolds`): untouched before the first chunk, a prefix of
`pos` bytes while writing, all of the data while verifying; it keeps the sum of
offset and position in the file (`Progress`) and remembers that the size check
passed (`Staying`), without which the last property is not inductive.

Its second part is `ShellFiles`, for any tree and any cards.  `WalksAreWhole`
(`WalkIsWhole`) is about walks that were not cut off (`stopped`): an export that
loses the link between a file's data and the SELECT after it ends early and
reports no error.  What an export has not printed, or a dump has no entry for, lies
ahead of the walk (`ExportInv`, `DumpInv`).  It is the file at hand or below a name
some frame still has to do (`LeadTo`); what is below a directory is below one of
the names in it (`BelowADirectory`), so nothing is lost when the walk goes down,
and what is lost when a directory is skipped is only what is below it.  The first
frame is that of the selected directory whenever a name is taken up (`JobInv`).
`WhatIsWrittenIsThere` (`WrittenIsThere`) needs what padding, trimming, splitting
and joining do to bytes (`TrimPadded`, `JoinSplit`, `SplitJoined`), and that a file
keeps its kind and length whatever is sent to it (`PerformIs`).  The invariant
follows the script while it grows (`ScriptInv`): every line that writes stands
behind one about the same file and says what that file held, every file is
covered, and what is deleted is set behind it.  While the script runs
(`RestoreInv`) each line that has been run has given back its part, if none
failed; of a BER-TLV file, what is not there yet has its line still to come
(`Refilled`), which is why the order of its lines matters.  As long as no SELECT
failed the selected file is the one of the line before, so a line writes to its
own file and to no other.

`WebUi_proofs`: `OfflineSafety` and `KeysStayHome` for any cards, keys, files,
access rules and number of requests.  The first needs that offline neither the
popup is open nor Write enabled (`OfflineInv`); only `SelectRow` and
`VerifyAnswer` enable it, and both ask `isOfflineMode`, which is why answers
that come late do no harm.  The second is about keys in three places: held by
the page, carried by a request, or on their way back in the answer of a
verification.  They are the session's (`HeldKeys`, `CarriedKeys`), and that
survives a connect because of `Connecting`: while the server has a connect
before it there is no other request, no key is held, and the buttons that
would send one are disabled.  `PageSafety` is `PageIsRight`: what a patient user
sees is the card's.  For such a user there is one request at a time
(`OneAtATime`), and the invariant says of each kind what its answer brings and
which file it will be applied to (`Answers`), so that what is shown is either
the dump's of this card or what was read after a write (`Cache`).

`RspSession_proofs`: `Typing`, `Confirmation`, `Closing`, `OneAuthentication`
and `OnlyClosing` for any eUICCs, certificates, profiles, identifiers, number of
requests and restarts.  A package is for the profile the eUICC confirmed and has
the metadata it was shown, because what is in a session is what one
authentication put there: the signature a session refers to names its
transaction, its eUICC, its profile and what the file held (`SessionsOK`).  The
contents are those or later ones (`NotAhead`: nobody has confirmed what is not in
the directory yet).  That in turn needs that an
identifier is fresh, open or closed and only goes one way; late requests are
harmless since they find no session, or the one they were made for.
`OneDownload` adds that an eUICC installs what it asked for.  A client that gave
up and began anew still has requests under way, and their answers may come; so
`WantedInv` is about the one request a client awaits: whatever carries that
number asks for the profile the client wants now, and once it has confirmed, the
signature it confirmed is for that profile.

`Shell_proofs`: `BothEnds` (`InStep`) for any channels, kinds of secure
channel, levels and number of APDUs, whichever of them are lost or refused.  The
invariant `SessionsInv` says that a session of the card has one place (no two
channels of the card carry the same number), and which of the shell's channel
objects owns it, the one the runtime has dropped included: an APDU is wrapped by
an owner, so it can only move the session it belongs to, and if it is lost the
session is in `broken`.  `JobInv` says what a command under way has yet to send:
more than one APDU only for LOAD, INSTALL and STORE DATA, none of which opens or
closes a session, which is why a command keeps the session it began with.
`ReportsAreTrue` (`OkMeansDone`) says that what the shell reports as done is done:
every block has arrived on its channel, a list is whole, a key is the user's.
Between two APDUs of a command all that were sent have been carried out, but for
a GET STATUS that was refused (`CountInv`); the card takes a load file block by
block, each 240 bytes after the one before (`LoadGrows`), and its key is the one
the user typed (`KeyMeant`), since a key still to be sent is encrypted for the
secure channel of the lchan that sends it (`KeyFits`).  The theorem asks for
`CapsAreSmall`: the number of a block is a byte, so a longer file whose `load`
stopped after the 256th block could be sent again from its first, and the card
would take the pieces for one file.

`RspSession_proofs` also has the package: `NeverFails` and `IsWhole` for sections and segments of any size,
with and without keys of the profile's own.  The invariant follows `enc.seen`:
each segment is what the instance before it makes and leads to the instance
after it (`Link`, `Chain`), sections come in order and each is covered without a
gap.  The decoder begins with the same keys, so it goes through the same
instances and no check of it can fail.

Its second half is about the cards in the shell's reader: `CodesGoHome` (`CodesAreTheCards`) and `BinsAreRight`
(`BulkIsRight`) for any cards, providers, scripts, tries and failures.  What
`card_key_provider_get` answers is in one row of one provider (`FoundIsARow`), and
it is the card's if the ICCID the shell has is: it is that of the card the last
`equip` succeeded on (`owner`), and while a script runs that card is the one in
the reader (`Home`).  What is said of the ADM key holds of a card that the shell
knows: its mark was earned since the last reset (`Earned`).  There is one bulk run
and it comes last (`Once`).  While a script runs the lines before the next one
are done on the card in the reader, unless one of them wrote to stderr (`SoFar`),
so a script that is over with status 0 has done them all (`Over`), but for lines
the shell does not know, which write another phrase to stderr and let the card
pass for done; and each card
counted as done is in its bin or about to be put there (`Counted`).


`OtaGateway_proofs` begins with the codecs: the SMS-DELIVER the gateway builds and
the SMS-SUBMIT of the card are read as they were written, for addresses with an
odd or even number of digits (`AddressRoundTrip`, `DeliverArrives`,
`SubmitArrives`), and `encode_cmd` adds just the octets that PCNTR counts and
leaves `encrypt` none to add (`PacketIs`).  A tool submits once, so there is one
packet and one response for each (`Packet`, `ResponseTo`), and `CardInv` says
that everything the card may send is a command it was made for or one of these.
`CommandsArrive` follows.  `AnswersArrive` needs an invariant over one call of
`send_apdu_checksw`: what GET RESPONSE has brought and what the card still holds
are the two ends of its answer (`Reading`), after the command returned that answer
is kept (`Taken`) through all FETCHes, and until the call is over nothing is
reported to the tool that asked (`JobInv`).  `SignedAnswersAreMine` is about what a
tool makes of a message, whoever it was meant for (`DecodedIsMine`): a response
that verifies was signed with the tool's own KID, hence on its own command, and
the second attempt, without a checksum, only takes responses that have no
checksum, which carry no data (`ReadInv`).

The assumptions are those on the constants, and `NoBlindSiblings`, `CanLeave`,
`OneThread`, `AsksForFiles`, `CapsAreSmall`, `KeysAreGiven` and `KidsAreGiven` where a
theorem names them; they hold on the instances of the runs.  Only model-checked
are liveness (`CallsReturn`, `WalkEnds`), which the provers do not take; card
initialisation, the service tables, the programmer and the profile tool.
`CardInit`, `ServiceTable`, `ProgBatch` and `ReadCard` use recursive operators,
which the provers do not take either.

## 6. Not modelled

* How bytes are coded: the constructs and TLVs of files, proactive commands,
  install parameters and profile elements, character sets, BCD, ASN.1, the CAP
  file.  They keep no state; whether a codec reads back what it wrote is in
  `ShellFiles`.
* The serial, modem and Calypso readers, and the capture formats of the tracer:
  bytes on a line that no other part looks at.
* Commands that change nothing the modelled parts depend on: AUTHENTICATE, GET
  IDENTITY, SUSPEND, the administration of files (TS 102 222), ARA-M, the
  eUICC's own commands in the shell.
* ES2+, the JSON encoders, the REST server and certificates' generation:
  stateless wrappers.  Cryptography is symbolic wherever it occurs.
* The BER-TLV editor of the page, its auto-filled keys and its rendering; the
  Excel export; the URSP decoder; output formatting and command lines.
* Tests, documentation and build files, which were read for what they say.

`PROJECT.json` gives the reason for each component.
