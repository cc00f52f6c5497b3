# TLA+ for zed-klog

zed-klog is a Zed extension for [klog](https://klog.jotaen.net), the plain-text
time tracking format. This directory holds TLA+ models of its parts that keep
state, TLC configurations that check them on small instances, and TLAPS proofs
of the properties that matter most.

## The system

| Component | Source | State | Operations |
|---|---|---|---|
| Extension | `src/lib.rs` | `cached_binary_path`; the directories `klog-ls-<version>` it installs into | `server_command`, which Zed calls whenever it starts the server: configured path, `PATH`, cache, or download |
| Connection | `klog-ls/jsonrpc.go` | the reader; the writer with its mutex | `read`; `write`, through `reply`, `replyError`, `notify` and `request` |
| Message loop | `klog-ls/server.go`, `main.go` | `initialized`, `shutdown`, `exited`, `refreshSupport`, `documents` under `mu` | `run` reads a message and calls `handle`, one after the other; `update`, `respond`; `exitCode` |
| Refresh loop | `klog-ls/server.go` | the ticker, the counter `n` | once a minute `hasRunningOpenRange`, then `workspace/inlayHint/refresh`; ends on `stopRefresh` |
| Documents | `klog-ls/document.go` | none after parsing: a `document` does not change | `parseDocument`, `parseBlock`, positions, `minimalEdit` |
| Features | `actions.go`, `totals.go`, `diagnostics.go`, `hover.go`, `completion.go` | none: functions of a document and the time | code actions, inlay hints, warnings, hovers, completions |
| Scanner | `tree-sitter-klog/src/scanner.c` | `indent_char`, `indent_width` | `scan`, which names each line break; (de)serialisation |
| Grammar | `tree-sitter-klog/grammar.js` | none | tokens with precedences, rules with fields |
| Generated parser | `tree-sitter-klog/src/parser.c`, `tree_sitter/parser.h` | the lexer's state and its last token; tree-sitter keeps the stack of nodes | `ts_lex`, the parse table, the field map, lexing modes and valid line breaks; `set_contains` |

How they interact:

- Zed calls the extension for a command line and starts `klog-ls` with it. The
  two have nothing else in common; the extension may be restarted at any time,
  and the directory it leaves behind is what the next instance finds.
- Zed and `klog-ls` exchange messages over two pipes. The message loop answers
  in the order of the messages; the refresh loop is a second goroutine that
  shares `documents` (under `server.mu`) and the writer (under
  `connection.mu`). A frame is two writes: header and body.
- A notification changes a document under `server.mu`, releases it, and only
  then computes and writes the diagnostics. The refresh loop goes through the
  documents under the same lock, releases it, and only then writes.
- `run` closes `stopRefresh` when it returns, but `main` does not wait for the
  refresh loop: `os.Exit` and `log.Fatal` end it wherever it is.
- The scanner (highlighting, outline) and `parseBlock` (hints, edits) each
  find out on their own which lines of a file are entries. What klog accepts
  they should see the same way.
- tree-sitter drives `parser.c`: the parse state says how the next token is to be
  read and which line breaks the scanner may return, and the token decides the
  next state. `grammar.js` is what the two tables were generated from.
- An edit leaves the server in lines and UTF-16 units, was computed in bytes, and
  comes from a library that counts runes.

What is hard about it: the interleaving of the two goroutines at two locks and
one stream; messages in any order before, during and after the session;
streams that end or break at any point; the order of side effects in an
installation that can stop between any two; state in the scanner that has to
survive error recovery; tables in which many states are merged; offsets in three
units; and everything that depends on the time of day, which
goes on while nothing else happens. `PROJECT.json` lists these hazards at
their lines, those that no property covers with the reason.

What makes each component correct:

- Connection: frames arrive whole, in one piece, at most once; every `write`
  returns.
- Message loop: the server's copy of a document is the client's. Each message
  gets the answer it is due, from the text as of that message, and nothing
  else; answers leave in order. The exit code tells the truth.
- Refresh loop: no request before the `initialize` result; ids are unique; it
  sees one state of the documents; it goes on for the whole session; neither
  goroutine can keep the other from its work.
- Extension: a working executable is never lost or damaged; a path that is
  returned is there.
- Scanner and documents: they agree on what klog accepts, or where they cannot, it
  does not go beyond the record.
- Generated parser: it reads the tokens, takes the lines and builds the nodes that
  `grammar.js` writes, and it does so for files of any length.
- Positions and edits: the client gets the text that klog made, no character is
  cut, and no more than necessary is replaced.
- Features: a code action changes what the user is looking at, leaves a file
  that klog accepts, and agrees with the totals on how long a range ran.

## Modules

| Module | Models | Uses |
|---|---|---|
| `AtomicWriter` | what `connection.write` promises to its callers | |
| `Connection` | `connection.write` as it is: lock, header, body, errors | `AtomicWriter`, as what it implements |
| `Protocol` | the messages of client and server, as far as it matters | |
| `Dues` | what the client is due for each message, by the messages alone | `Protocol` |
| `Session` | what the whole server is to its client: a program that does one thing at a time | `Dues`, an instance of `AtomicWriter` |
| `Server` | message loop, refresh loop, process exit, and what editor and clock may do | `Protocol`, an instance of `Connection` |
| `ServerProperties` | what the server owes its client, over the history of a session | `Server`, `Dues`, and `Session`, as what it implements |
| `Installer` | `src/lib.rs` | |
| `Scanner` | `scanner.c`, and from `grammar.js` which line breaks are valid | |
| `BlockLayout` | the entry lines in `parseBlock`, and klog's rules about lines | |
| `Layout` | the same lines through both | `Scanner`, `BlockLayout` |
| `Tokens` | the tokens of `grammar.js`, and what it means to read one | |
| `Lexer` | `ts_lex`, state by state | `Tokens`, for the classes of characters |
| `Grammar` | the rules of `grammar.js`, and what may come next by them | |
| `ParseTable` | the parse table of `parser.c`, the field map, lexing modes and valid line breaks | |
| `Parser` | tree-sitter reading a file with `Lexer` and `ParseTable`, and what `Tokens` and `Grammar` say of the same file | the four above, and `Scanner` for the line breaks it is asked for |
| `SetContains` | `set_contains` of `tree_sitter/parser.h` | |
| `TimeTracking` | a file that is edited with the code actions of `actions.go`, and the totals of `totals.go` | |
| `Hints` | the totals that the client shows meanwhile | `TimeTracking` |
| `TextEdits` | `minimalEdit`, and the positions of `document.go` | |
| `MCConnection`, `MCServer`, `MCTimeTracking`, `MCTextEdits` | bounds, messages and texts for TLC | |
| `ConnectionProofs`, `ServerProofs`, `SessionProofs`, `InstallerProofs`, `LayoutProofs`, `SetContainsProofs`, `TimeTrackingProofs`, `TextEditsProofs` | theorems | |

### Connection

`stage[g]` is where goroutine `g` is in `write`: before `c.mu.Lock()`, before
the header, before the body. `Lock`, `WriteHeader` and `WriteBody` are these
three steps; `Fail` is the early return at either write, and `Return` what the
deferred `Unlock` does on every way out. A chunk on `wire` is one call of the
writer. `json.Marshal` cannot fail for the types that are passed to `write`.
`Break` is the client closing its end, after which each write fails. (When
standard output is a pipe, the Go runtime answers that with `SIGPIPE`, which is
`Killed` in `Server`; the error path is there for other writers.)

### Server

`main` is where the message loop is: reading, waiting for `s.mu` to store or to
look up a document, writing, returned from `run` with or without an error, or
gone, with the whole process. Every case of `handle` is an action: the two
guards on top of it are `Refuses`, and an action `Handles...` has the negation of
the guards it comes after. `update` and the code for `didClose` are
`StoresDocument`. A lock and unlock around a step that cannot block is one action,
`UnderMu`; `hasRunningOpenRange`, which may take a while, is two, `ScanLocks` and
`ScanEnds`. `refreshSupport` is not state of the model, as it is only looked at
right where it is set.

Abstractions:

- The position of a message in `sent` stands for its request id, and for the
  version and the text of a document it carries. `documents[u]` is the position
  of the message that brought the text. So "the right version" is a
  comparison of numbers, and no two texts are confused.
- A request always has an id, and a notification never. (`handle` answers an
  `initialize` without an id, too, with the id `null`; no client sends that.)
- The four query methods are one, `query`. They differ in what is computed from
  the document, not in what they do to the server.
- Of a text, the server needs only whether `runningTime` counts an open range of
  it in a given minute: `RunningAt`, a parameter.
- Minutes and ticks are the same. The ticker's channel holds one tick; further
  ones are dropped, as in Go.
- The wire takes every write until it is broken. Blocking on a full pipe is not
  modelled.

`ServerProperties` does not refer to `initialized`, `shutdown` or `documents` to
say what the client is due. `Dues` works that out from the messages alone
(`ReadyFor`, `Touches`, `IsText`, `Code`), so the flags and the map in `Server` have
to agree with it.

### Session

The abstract specification of the whole server. It has no goroutines and locks, and
remembers no documents and no flags: a message takes effect in one step, which hands
what is due for it, by `Dues`, to an `AtomicWriter`. Beside that it may ask for new
hints: when the client supports it and has a range open that is counted now, no more
often than there have been minutes (a late request may fall into the next one), and
each time with a new id. It ends by `exit`, by the end of the
input, by an error of either stream, or by being killed.

`HandlesOneByOne` says that `Server` implements it. `handled` is `received`, less one
while the message loop waits for `s.mu`: a message takes effect where its handler
stores or looks up the document, or where it is read if it does neither. `pending` is
what is about to be written, and `frames` every second chunk. A refresh request is
asked for where the scan ends, with the texts that the client has open at that moment,
although the scan began earlier. A process that is killed while the message loop waits
leaves open whether its message has taken effect. What does not show is everything in
between: the wait for `s.mu`, the scan, ticks that are dropped, and rounds of the
refresh loop that find nothing.

### Installer

One action for each step of `downloaded_binary` and `download_latest` at which the
disk or the outcome changes. `disk[r]` is the directory of release `r`: absent,
without the executable, with one that is incomplete or not executable, or good.
`Downloads` leaves an executable that is not executable yet, or none, if the
archive lacks it; `DownloadFails` leaves anything. `FallsBack` may find nothing
although there is something, as `read_dir` may fail. `RemovesOlder` may remove a
directory, or fail, or leave some of it. `Quits` may come between any two. Someone
else may delete directories only between two calls (`Deletes`): while Zed is in a
call it has the directory for itself.

### Scanner, BlockLayout and Layout

A line is its indentation (the first character and how often it is repeated,
which is all that either looks at), whether blank lines come before it, and
what the rest of it can be parsed as. Whether `scan` returns at all is a matter of
the bytes in between, and is left out: the model starts at the line break.
The parser's state `at` is the last thing it has parsed; `Valid` reads off
`grammar.js` which line breaks may follow. In `"error"` all of them are valid.

`Parsed` is what the parser makes of a line. Free text is not quite free (see
`free_text` below): a date after a value, a tag or a `#` ends the record and starts
another one. If nothing follows it in the line, the parser is behind the head of a
record then; if text does, it runs into an error (`dated`). `LinesEndAsModelled`
holds this against the generated parser. After an error, in the same line or an
earlier one, tree-sitter may parse on anywhere (`Parses`).

`accepted` is what klog's parser says of a block, as far as lines go: the date is
not indented, summary lines do not start with a blank, and an entry is
indented by the style of the first. It is permissive where klog is not (a line
with more blanks after its indentation, say), which makes the properties
stronger. klog itself is outside of the repository.

To klog a date in a summary is text. So in a record with one, scanner and language
server do disagree: after `1h #trip 2020-01-02`, a line that is indented twice is an
entry for the scanner, as the head of a record cannot be continued, and continues the
summary for klog. The same can happen when tree-sitter parses on in the middle of a
line after an error. `EntriesAgree` and `AcceptedIsParsed` are about the other
records, those that are `whole`: in none of their lines so far the parser has found
the start of something else. `whole` is history, and starts anew with each block. So
the two properties also say that the next record is not concerned by one that was cut,
whatever state that left in the scanner.

### The generated parser

`Lexer` and `ParseTable` are the tables of `parser.c`, entry by entry; rows that
states share have a name. `Tokens` and `Grammar` are `grammar.js`. `Parser` runs the
tables, one action for each character, token, shift and reduction, as tree-sitter
does. Its variables `reading` and `reached` are history: the tokens that the
characters may be, and the places in the rules that the tokens may lead to, by
`grammar.js` alone. `line`, a third one, is the line as `Scanner` has it. The
properties compare the two after every character, so they do not depend on how the
generator works. `BuildsRules` does so for each node when it is made: its children
and their fields have to be a body of the rule.

The rules do not refer back to themselves, so that they have finitely many
places, and the stack stays short (`TypeOK`). So TLC goes through all files, of any
length, up to the first syntax error.

Abstractions:

- A character is a member of a class; the lexer's conditions tell no more apart.
  That letters, digits, `_` and `-` are what a tag is made of is a set of 680 ranges
  in `parser.c`, searched with `set_contains`, which is a module of its own.
- When the lexer has read on after the last complete token, what it read is read
  again. The model takes any characters then (`ahead`), which is more than can
  come, and makes the properties stronger.
- The scanner may find any of the line breaks that are valid. Which one it does is
  in `Scanner`; `ScannerIsAskedAsModelled` shows that the parser asks it for those
  that `Scanner` assumes, and `LinesEndAsModelled` that it is at the end of each line
  where `Scanner` has it.
- How tree-sitter goes on after a syntax error is not in the repository.

### TimeTracking

`records` are the records of a file in its order, `today` and `minute` the clock.
`CodeAction(cursor)` is `codeActions` and, when the user picks one, `stop`,
`start` or `create` with the reconciler of klog they call; `TotalOf` is `totalOf`.
`Edits` also has what the user types: records with any date at any place, so that
there are several of a date or none, open ranges, and entries of any time, also
negative ones (`-30m`), which klog accepts: a total can be negative. What stop
adds to one cannot (`StopKeepsTotals`). All of it meets midnight anywhere.

Abstractions: A time is a number of minutes since the start of the day of its
record, as it is inside klog. Of a record only its date, the sum of its closed
entries and its open ranges are kept; should-totals, summaries and the style of
dates and times go along unchanged. klog picks the place for a new record by
date; the model allows any. A file that klog rejects is one with two open ranges
in a record, and one such mistake at a time: no code action is offered then,
whatever else is wrong. A code action is applied to the text it was computed
from.

### Hints

`hints` is what the client shows. It asks for hints when the text has changed and
when the refresh loop asks it to (`RefreshOnTick`). That messages take no time is in
favour of the property: what TLC finds is not a matter of a late message. (How
late a message can be is in `Server`.) Records that klog
rejects have no hint.

### TextEdits

A text is a sequence of bytes in UTF-8. Each round of a loop of `minimalEdit` is a
step; `Position`, `Offset` and what they call are functions. The client is
modelled as LSP has it: its text is a sequence of UTF-16 units (`Utf16`), which it
replaces between two positions (`Applied`).

The texts have line endings of both styles, also mixed, but no carriage return on
its own, and the new texts are those that klog's reconcilers make: a line is put
somewhere, or a stretch within a line replaced (`ReplacesInLine`). An edit that
turned one style of line ending into the other could start between the two bytes of
an ending, where LSP has no position; no reconciler does that.

## Runs

| Run | Question | Bounds | States |
|---|---|---|---|
| `connection` | Do frames survive concurrent writers, and a stream that closes? Does every `write` return? | 3 goroutines, 2 messages, 6 chunks | 5 thousand |
| `lifecycle` | What does the client get for any sequence of messages? | 1 document, 4 messages out of 23, 1 minute | 8.8 million |
| `refresh` | What can the two goroutines do to each other, and does the client notice that there are two? | 2 documents, 4 messages, 2 minutes | 3.8 million |
| `liveness` | Does everything that is due happen? | 1 document, 3 messages, 2 waiting, 2 minutes | 85 thousand |
| `installer` | Does the user keep a working klog-ls? | 3 releases | 3 thousand |
| `installer_at_most_one` | Is there at most one version when the fallback looks? | 2 releases | violated |
| `time_tracking` | Do start, stop and create keep the file sound, and agree with the totals, over midnight? | 3 records, 2 days of 2 minutes, totals from -1 to 1, entries of -1 and 1 | 918 thousand |
| `hints` | Do the totals that are shown keep up with the time? | 1 record, 3 days of 2 minutes, totals up to 2 | violated |
| `layout` | Do scanner and language server agree? | indentations up to 9, 3 entries | 1.7 thousand |
| `highlighter` | Does the generated parser do what `grammar.js` writes? | none: files of any length | 809 thousand |
| `free_text` | Is a date in a summary text? | none | violated |
| `text_edits` | Does an edit give the client the new text, and are positions right? | texts of up to 4 characters and line breaks | 8.8 million |

Why the bounds are enough:

- `connection`: klog-ls has two writers; a third shows that nothing depends on
  there being one other. Six chunks are three frames, so one may come before,
  between and after those of another. (`MCConnection` bounds the calls and not the
  writes, so the bound never cuts a frame.)
- `lifecycle`: the longest way through a session that a flag or the map can tell
  apart has four messages, such as `initialize`, `didOpen`, `didClose`, `query`, or
  `initialize`, `shutdown`, a request and `exit`. Every method of the code is in the
  alphabet, with parameters that can and cannot be decoded. The client may stop
  reading, and kill the server, anywhere. One message waits at a time
  (`MaxUnread` 1), as a message loop that reads one after the other cannot tell.
  One minute is enough for a refresh request to be on its way when the process exits,
  and to be cut off.
- `refresh`: with two documents a scan can see one that runs and one that does
  not, and a change can hit either. Two minutes make two rounds, so that ids can
  repeat and a tick can meet the round before it. The client supports refreshes, or
  does not. In minute 1 both texts count,
  in minute 2 only one does: a range can stop being counted without any message.
- `liveness`: each kind of work for either goroutine once; two messages may wait,
  so that the message loop need not stop between them.
- `installer`: the release being installed, one before, and one that comes out
  meanwhile.
- `layout`: the widest style has 4 spaces, and twice that is 8; 9 is beyond every
  threshold. After the second entry of a record nothing new is remembered. Each
  kind of line comes without a date in its text, with one at its end, and with one
  that text follows.
  Records repeat without bound. The proofs cover all widths.
- `time_tracking`: with three records there can be one for today, one for
  yesterday and a second of either date, in every order; dates 0 to 2 with 1 and 2
  as today are yesterday, today and tomorrow. Two minutes are a first and a last
  one of a day. Hand-written starts are -1 and 2, in the day before and in the day
  after; `start` adds those within the day. Totals go from -1 to 1: there are negative
  ones, and stop adds up to two minutes to some. (The proofs have stops of any length.)

- `text_edits`: the alphabet has characters of one, two and four bytes, among them
  ones that differ in their last byte only and in their first byte only, and both
  line endings. Four of them are a line with a character on each side of a change,
  two lines that are the same, or a line after another without an ending; up to two
  characters are put in their place. (All properties
  are proved for all texts.) Characters of three bytes are as those of two, with one
  byte more in the middle.
- `hints`: the day a range is started, the next one, on which it is still counted,
  and the one after.

Deadlock is not checked where a run has to stop: at its bounds, and when the
process has ended (`connection` and the three `Server` runs); in `layout` at the
end of the file; and in `time_tracking` and `hints` when the last day is over. The
installer can always go on, and its runs check it. `Parser` and `TextEdits` end in a
state that repeats (`Done`, `Send`), so that their runs check that nothing is stuck
before.

### Fairness

`Connection`: a goroutine in `write` is scheduled (weak fairness), and a waiter for
the mutex gets it if it is free again and again (strong fairness). The latter is
what Go's `sync.Mutex` does in its starvation mode, which hands the lock to a
goroutine that has waited for more than a millisecond.

`Server`: each of the two goroutines is strongly fair, for the same two reasons.
That writes finish assumes that the client reads, or closes the stream. Editor
and clock owe nothing: no message and no minute has to come, and the properties
`P ~> Q` start from what did come.

### Disagreements with comments

`installer_at_most_one` checks what the comment on `previously_downloaded_binary`
says: "Older versions are removed after each download, so there is at most
one." TLC finds a session that quits between the download and the removal. The
new version is then found by `is_file`, and the removal is skipped with the
download; after a restart without network, the fallback sees two and takes
whichever `read_dir` lists first. An error of `remove_dir_all`, which is ignored,
has the same effect. No working executable is lost by it (`GoodBinaryKept`).

`free_text` checks what `grammar.js` says of `_text`: "Free text. It stops at `#`, so that
tags can appear anywhere in a line." After the value of an entry, or after a tag,
the text of a summary is read in a state of the lexer that also takes a date: the
record may end there, as far as the tokens go, and the next one start with it. A
date has the higher precedence. So in `1h 2020-01-02 was a holiday` the date starts
a record in the middle of the line, and the rest is a syntax error. Highlighting
and outline are concerned; to klog, and so to the language server, it is text.
`Scanner` has this case, and the properties of `Layout` say how far it reaches.

`hints` checks what the comment on `refreshLoop` says: it asks for hints every minute
"while an open range is running, so that the totals keep up with the time." An open
range of yesterday is counted until midnight. At the tick of that midnight it is
no longer running, so no refresh is asked for, then or later, though it is just
then that the total changes. The hint shows the last total until the text changes.
No other hint is ever left behind: this is what `OnlyOldHintsStay` says, and it is
proved.

## Proofs

| Theorem | Says |
|---|---|
| `ConnectionTypeOK`, `ConnectionFramesIntact` | types; frames are whole, for any number of goroutines, messages and writes |
| `ConnectionIsAtomic` | `Connection` implements `AtomicWriter` |
| `ServerUsesConnection` | `Server` implements `Connection`, so that these hold in it |
| `ServerTypeOK`, `ServerFramesStayIntact` | types; whole frames in every session |
| `ServerRefreshAfterInitializeResult` | no refresh request before the `initialize` result |
| `ServerScanIsAtomic` | the documents do not change while the refresh loop goes through them |
| `ServerHasNoCircularWait` | who waits for a mutex waits for somebody who is at work, and waits for none |
| `InstallerTypeOK`, `InstallerKeepsGoodBinary`, `InstallerNeverOverwrites` | types; a working klog-ls is neither lost nor damaged, for any number of releases |
| `InstallerReturnsFile` | a path that is returned is a file, whatever was deleted meanwhile |
| `ServerMirrorsDocuments` | the server's documents are the client's, for any session |
| `ServerAnswersNothingUnasked`, `ServerForgetsNothing`, `ServerAnswersInOrder` | each message is followed by what it is due, by nothing else, and in order |
| `ServerExitCodeIsHonest` | the exit code tells how the session went; with 0, nothing but a refresh request can have been cut off by the exit |
| `ServerIsSequential` | `Server` implements `Session`: to its client, it does one thing at a time |
| `LayoutTypes`, `LayoutEntriesAgree`, `LayoutAcceptedIsParsed` | types; scanner and language server agree on each record that the parser does not cut in the middle of a line, for any indentation and number of entries |
| `TimeTrackingTypeOK`, `StoppingKeepsTotals` | types; stopping writes down what the hints count, never less than nothing, and changes no other total, for any day length and any file, also with negative totals |
| `CodeActionsKeepFileSound`, `CodeActionsChangeNearCursor`, `StopsWhatWasStarted` | code actions leave what klog accepts, leave other records alone, and stop what was started last, in any file |
| `EveryMinuteIsCounted` | while a record is counted, each minute adds one to its total, also at midnight |
| `HintsStayOnlyWhenOld` | which hints can be behind: while a range is counted none, and otherwise only those of records that are too old to be counted |
| `TextEditsTypeOK`, `EditsKeepCharacters` | what stays at both ends does not overlap; no edit cuts a character, for any two texts |
| `EditsGiveNewText`, `EditsAreMinimal` | in bytes, the edit gives the new text; no other edit leaves more of the old one alone |
| `ClientsGetNewText` | so does the client, which applies it by lines and UTF-16 units |
| `OffsetsAndPositionsAgree` | offsets, positions, runes and UTF-16 units are converted into each other without loss, for any text |
| `SearchFindsWhatIsThere`, `SearchNarrows` | `set_contains` is right for any ranges in order, and comes to an end |

They rest on the assumptions the modules state about their constants:
`ConnectionAssumption` (no message and goroutine is one of the two special values),
`ServerAssumption` (the types of the parameters), `InstallerAssumption`,
`ScannerAssumption`, `LayoutAssumption` and `TimeTrackingAssumption` (bounds are
numbers, and natural ones where they cannot be negative), `TextsAssumption` (texts,
and what klog makes of them, are UTF-8 with a carriage return only before a line
feed, and klog replaces a stretch within a line, or puts something between two
characters) and, for `SetContains`, `InOrder` (there is a range, and the ranges are
in order). The arguments:

- *Connection*. That frames are intact is not inductive: the step that writes a
  body must know that the last chunk is its own header. The invariant `IInv` adds
  that only the holder of the mutex is between lock and unlock (`HolderWrites`),
  that it has a message (`HasMessage`), that the last chunk is a header if and
  only if the holder is about to write its body or the stream broke
  (`HeaderIsLast`), and that chunks alternate (`Alternates`). The refinement maps
  `frames` to every second chunk; alternation makes `WriteBody` append one frame
  and every other step append none.
- *Server uses Connection*. Each action of `Server` either leaves the connection
  alone or takes one of its steps for `"main"` or `"refresh"`. Types of `Server` are
  needed for the messages to be in `Frame`.
- *Refresh after initialize*. The refresh loop starts before the result is out.
  The invariant says: until a result is on the wire, no document is stored, so a
  scan finds no open range and the refresh loop is in none of its writing
  states; the message loop cannot store one, as it is still writing the result,
  or nothing is initialized.
- *Session*. The invariant `SessionInv` says that what the server remembers is what
  happened: `initialized` and `shutdown` are what the messages received so far make
  them (`FlagsAreHistory`), and `documents` has the text of the last one that counts.
  While the message loop is busy, what it is about to write is due for the last
  message received (`WorksOnDue`), what is on the wire is due for earlier ones
  (`WireIsDue`), and no earlier one waits for anything (`NoneForgotten`); ids on the
  wire are below `n`. `EndIsTold` follows these to the exit code, and `AnswersAreWhole`
  says that a header without its body is the message loop's only while it writes or
  when it has failed: so one that is left with exit code 0 is a refresh request's.
  That more messages follow changes nothing of what is due for those before
  (`DueStays`), so that the steps of the client preserve all of it.
- *Sequential*. Three facts beside `SessionInv` and the connection's `IInv` carry the
  refinement. `FoundRuns`: what a scan finds is true of the client's texts when the
  scan ends, even while the message loop waits for `s.mu`: what it is waiting to store
  has not taken effect then. `IdsAreUsed`: the ids on the wire are below the next one.
  `RoundsInv`: the refresh loop only runs once the client has said that it supports
  refreshes, and rounds and ticks together are no more than minutes, so that ids are
  bounded by the time. With these, each step of `Server` is one of `Session` or a
  stutter (`StepIsSequential`): reading and storing are `HandlesMessage`, the end of a
  scan that finds a range is `AsksForHints`, and the steps of a `write` are `Writes`
  where `ConnectionIsAtomic` has them do something.
- *Installer*. `GoodBinaryKept` needs that directories are only removed once the
  target is good, and that the target is not among those to remove. With that,
  each action keeps one good directory. `ReturnsFile` needs besides that a call which
  is running has not returned anything (`NothingReturned`).
- *Layout*. As long as klog accepts a record and it is whole, either no entry has
  come and both styles are unknown, or one has and both are the same and known, and
  the scanner's last token is the line's role (`InStep`). A separator brings that
  about from any state, and in particular from error recovery.
- *Time tracking*. `StopEffect` collects what `Stops` may rely on: the record it
  finds exists, is today's or yesterday's (the least index of a date exists,
  `Least`), has exactly one open range as the file is accepted, and that one does
  not start after its end. So the time is not negative, and the end that is
  written is the one that `runningTime` uses. `StartEffect` does the same for a start in
  a record that is there: dates stay, so `RecordOn` finds the same (`DatesFind`).
  `NewRecordEffect` follows the others to where they are after one has been put
  between them: none has today's date, or there would be no new one. `MinuteCounts`
  is the same for the clock: at midnight the time of day falls back to 0, and the end
  of an open range is shifted by a day as its record becomes yesterday's. Together that
  is one minute.
- *Edits*. The bytes before `prefix` and after `suffix` are the same in both texts
  (`Stays`). The shrinking loops stop at the start of a character in the old text;
  that this is one in the new text as well follows from the characters before it
  being the same and whole (`PrefixIsWhole`, `SuffixIsWhole`). For minimality, the
  prefix is the longest start of whole characters that is the same (`Longest`). If
  another end fits after it, the suffix is the longest one too; if it overlaps the
  prefix in one of the texts, all of the shorter text stays, and no edit leaves more.
- *Positions*. A sum over a text would need induction over data, so `Units` counts
  two sets: the bytes that add a unit or more, and those that add two. Cardinalities
  add up over disjoint sets, so that units do over stretches of whole characters.
  Where a loop stops is the least element of a set. From there `Offset` undoes
  `Position`, as between an offset and the next there is a character of one unit or
  two. What the client has, `Utf16(text)`, is a concatenation; that it holds each
  character at the place that `Units` tells is shown by the least byte for which it
  would not.
- *The client's text*. The client finds the lines by their line feeds in UTF-16, which
  are those in bytes. An offset that is not inside of a line ending is where LSP can
  name it. Neither end of the edit is (`StartOutsideEnding`, `EndOutsideEnding`): an
  ending is replaced as a whole or not at all, since klog replaces nothing in it and
  both texts have none that is cut. So the client replaces the same stretch as the
  server, and `EditsGiveNewText` says what that makes.
- *Hints*. Hints are fresh when the tick of a minute has been taken with a range that
  is counted, and after each edit. A minute makes no total less but one of a record
  that gets too old (`MinuteAdds`, from `MinuteCounts`), so what is shown is never too
  high for the others. If no range is counted at a tick, each total is what is closed,
  and no hint is less than that.
- *Locks*. Where each goroutine is tells what it holds (`Locks`): `server.mu` only in a
  scan, as the message loop gives it back in the same step, and `connection.mu` only
  between lock and unlock of a `write` (`HolderWrites`). In neither of these is there
  a wait for the other mutex.
- *set_contains*. A character that is covered is so by a range between `index` and
  `index + size`, as ranges before `index` end before it, and those after the middle
  start after it. `size - size / 2` is at least 1.

Only model-checked:

- Liveness (`EveryWriteReturns`, `RequestsAnswered`, `RefreshFollowsTick`, `ExitEnds`),
  which the prover does not do under fairness.
  `ServerHasNoCircularWait` is the safety half of the second and the third: that there
  is always somebody who can go on.
- The properties of `Parser`. `Grammar` is made of recursive operators, and the run is
  complete in any case: it has no bounds.

## Not modelled

- klog itself, Zed and tree-sitter's runtime: libraries and programs outside of the
  repository. What the models say of them is marked as external. So is how
  tree-sitter recovers from an error.
- Pipes that are full. How much one holds, and whether the client reads while it
  writes, is up to the operating system and to Zed; nothing in the repository says
  it, and a model would show no more than what it assumes.
- What diagnostics, hovers, completions and titles of code actions say: functions
  of a document without state, most of it from klog. When diagnostics are sent, and
  for which text, is in `Server`; that warnings do not follow the clock is in
  `PROJECT.json`.
- Should-totals and the style of dates and times, which code actions take over
  unchanged from klog.
- `main`'s arguments, and formatting.
- In `src/tree-sitter-klog/src`: `tree_sitter/array.h`, which no file includes;
  `tree_sitter/alloc.h`, which gives names to `malloc` and its like; in `parser.c` the
  names and attributes of symbols, `ts_symbol_map` and `ts_primary_state_ids`, which
  only tree-sitter's runtime and its queries look at; `grammar.json` and
  `node-types.json`, descriptions that nothing in the repository reads. The scanner's
  serialisation copies two bytes there and back.
- Queries, build files, packaging and tests: without state.

## Plan

Written in this order, the behaviour that matters most first: `Connection` with its
abstract specification; `Server` on top of it; `Installer`; the agreement of the two
parsers; code actions and totals; the generated parser against the grammar; edits
and positions; hints over midnight; the proofs of what the server owes its client,
of the installer's results, and of what code actions do to a file; the proofs about
positions, the client's text, hints and locks; `Session`, and the proof that the whole
server implements it. All safety properties that the runs
check are proved, but for those listed as only model-checked.

What could come next: the warnings about dates (`diagnostics.go`) against what klog's
documentation says of them, if that is taken as their reference, and should-totals.
