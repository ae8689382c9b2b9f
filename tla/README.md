# ornet in TLA+

ornet is two Go daemons built on the same pattern. `cmdset` executes remote
commands (mongo maintenance, shell commands, service control); `ngxfmd` (under
`src/anyd`) is a file server behind nginx with an index of URLs in redis, a Lua
sandbox and a small user registration. Below them are vendored libraries: a
redis client with its buffered I/O, and a TOML parser for the configuration
files. Both daemons register *handlers* for URL paths. A handler owns a fixed
pool of request objects in a buffered channel: the goroutine of an HTTP request
takes one, works, and puts it back. Handlers also start goroutines of their own
(monitors, queue writers) that outlive the request. Paths below are relative to `src/`; nothing under it has tests of its
own code, so what is checked here is what the code and its few comments say.

## Inventory

| Part | State | Operations | Interacts with |
|---|---|---|---|
| `/mongo` (`cmdset/.../mgocmd`) | pool of `MgoRequest`, handler table, `diskMonState`, `stopDiskMonCh`, `dbMonState` | dbStats, diskMonB, diskMonE, dbMonB; goroutines `diskMon`, `dbMon` | mongod; monitors keep a pointer to a pooled object |
| `/syscmd` (`syscmd`) | pool of `SysRequest`, `diskMonState` | syscmd, monitor; goroutine `diskMon` | child processes, `statfs`, mail |
| `/sctl` (`sccmd`) | pool of `ScRequest` | start, stop, monitor: all return nil | nothing yet |
| cmdset main, registry | handler map, etcd entry | register, initialise, serve | etcd, all handlers |
| ngxfmd main, registry (`anyd/.../ngxfm`, `cmds`) | handler map, three servers, signal channel | load, log, initialise, serve HTTP and FastCGI, uninitialise | all handlers |
| `dlog` = `cmdlog` | slice of loggers | InitLog, Print*, EPrint*, Fatal* | every component |
| `/files/` (`files`) | pool, upload and store directories | upload (direct, form), download, ping | file system, redis index |
| `/url2name/` (`url2name`) | pool, queue of entries, writer goroutines, redis hash and sorted set | add, rm, help, Uninit | redis, downloads of `/files/` |
| `/sandbox/` (`sandbox`, cgo) | pool, one `lua_State` | run the Lua function | Lua |
| `/qianke/` (`qianke`) | pool, database handle | login, register; the tool `qkdb` | mysql |
| redis client (`redis.v2`): pool | channel of idle connections, counter, rate limit | Get, Put, Remove, Filter, Close; set-up of a connection | commands of `/url2name/` and `/files/` |
| redis client: sessions and commands | a connection's unread replies, its watches and subscription; the queue of a `Multi` | command, pipeline, transaction, publish/subscribe | pool, replies, redis |
| redis client: replies | none | one parser and one type assertion per kind of command | `bufio.v1` |
| `bufio.v1` | buffer with its two indices, last byte and rune; sticky error | all calls of Reader, Writer, Buffer | network connections |
| TOML lexer and parser (`BurntSushi/toml`, a copy in each daemon) | state function, stack of states, items; nested tables, implicit tables by dotted name | lex, parse | configuration of both daemons |

What is hard in it, and what makes each part correct:

* **Pools.** Every error path, panic and blocked handler must return its object;
  an object is one goroutine's at a time. A pool's size comes from the file
  unchecked: zero starves every request, a negative one panics. Objects are reused without being
  cleared, so JSON decoding merges a body into a stranger's fields.
* **Monitors.** A flag is loaded by the request and stored by the goroutine it
  starts. Two starts in that window give two monitors and one flag. The stop
  channel is unbuffered. A disk monitor reads the database name out of an object
  that others fill meanwhile.
* **The index.** Writers and removals are sequences of redis commands without a
  transaction; each may fail, and the snapshot is taken in the middle of others'.
* **Files.** Uploads of one name share a temporary file; rename goes by name;
  downloads look a name up and open it later.
* **Life cycle.** Handlers are initialised in the random order of a Go map and
  only if configured, yet all are routed and all are uninitialised; the first
  server of ngxfmd runs on the main goroutine. On a signal main closes the
  handlers under the requests that are inside them, one of which may keep it
  from returning, and returns without waiting for goroutines. cmdset enters itself in etcd
  before it can serve, and never takes the entry out.
* **One Lua state.** All goroutines of `/sandbox/` use one `lua_State` without a
  lock; error messages stay on its stack.
* **Connections that are used again.** A reply that is left unread, a line cut
  by a deadline, a watch or a subscription must not reach the next user of a
  connection. Dials, evictions and failing set-ups race for one counter, and
  Close waits for it.
* **Buffers.** The source cuts the stream anywhere: in a rune, in a line end, in
  a number. What is put back, slid or flushed in part must stay in order.
* **Configuration.** The lexer is a set of functions that push and pop each
  other, and step back by the width of the last rune whatever they step over; the parser ends the process when an item is not the one it expects,
  and keeps two of its tables by dotted name.

The hazards with their lines, and the properties aimed at each, are listed in
`PROJECT.json`.

## Modules

| Module | Models | Run modules |
|---|---|---|
| `RequestPool` | abstract specification: what a request pool promises | (a property of other runs) |
| `MgoCmd` | `/mongo` and its disk monitors; implements `RequestPool` | `MCMgoCmd` |
| `SysCmd` | `/syscmd`, its commands and disk monitors; implements `RequestPool` | `MCSysCmd` |
| `Url2Name` | `/url2name/`, its writers, redis, the index side of a download | `MCUrl2Name` |
| `FileOp` | uploads and downloads of `/files/` on a file system of names and inodes | `MCFileOp` |
| `Ngxfmd` | the ngxfmd process from configuration to exit | `MCNgxfmd` |
| `Cmdd` | the cmdset process, its entry in etcd, its handlers and restarts | `MCParts` |
| `DbMon` | the goroutine of dbMonB | `MCParts` |
| `Sctl` | `/sctl`; implements `RequestPool` | `MCParts` |
| `Qianke` | `/qianke/` and `qkdb`; implements `RequestPool` | `MCParts` |
| `Sandbox` | `/sandbox/` at the granularity of the calls of Lua's C API | `MCParts` |
| `UploadForm` | how a form becomes a list of files to move | `MCParts` |
| `UrlKey` | `strings.TrimLeft(url, "http://")` against a reference | `MCParts`; `MCUrl2Name` through `Url2Name` |
| `RedisPool` | the connection pool of the redis client | `MCRedisPool` |
| `RedisReply` | what the parsers of replies read of tokens, and the commands' type assertions | through `RedisCommands` |
| `RedisParser` | the same parsers as the calls that they make of one another | `MCParts` |
| `RedisCommands` | every method of the client by the kind of its command | `MCParts`; through `RedisClient` |
| `RedisClient` | commands, pipelines, transactions and subscriptions over shared connections | `MCRedisClient` |
| `BufReader`, `BufWriter`, `ByteBuffer` | `bufio.v1` | `MCParts` |
| `TomlLex` | the lexer, and the order in which the parser takes its items | `MCParts` |
| `TomlDoc` | what the parser makes of headers and keys | `MCParts` |
| `Parts` | the parts from `Cmdd` to `UrlKey`, the buffers, `TomlLex` and `TomlDoc`, side by side | `MCParts` |
| `MgoCmdProofs`, `SysCmdProofs`, `Url2NameProofs`, `FileOpProofs`, `NgxfmdProofs`, `RedisPoolProofs`, `RedisClientProofs`, `PartsProofs` | theorems about the module of that name | (checked by TLAPS) |

`Parts` puts parts that do not interact side by side. The variable `part`,
chosen at the start from `PartNames`, says which part a behaviour is one of; each
part is an INSTANCE whose variables are `v1`, `v2`, ... and whose next-state
relation is one disjunct of Next. A property is about the part it names. Two
runs choose the parts of the handlers and of the libraries; `MCParts` adds
the replies of `RedisCommands` and the tokens of `RedisParser`, which `Parts`, and
so the theorems about it, leave out.

**How modules correspond to code.** A goroutine is a process with a program
counter (`pc`, `wpc`, `mon[...].st`, `main`); an action is the code between two
points where another goroutine can be seen to run: a channel operation, a redis
or file system call, a load or store of a shared flag. A buffered channel is a
sequence; a send to the unbuffered stop channel and its receive are one action.
Where the contents of pooled objects are overwritten completely when taken
(`/url2name/`, `/files/`) the pool is a count; where they are merged into
(`/mongo`, `/syscmd`) it is the channel and the objects. Most
modules have *faulty variants*, before the operation they vary: operations with
a plausible bug, which no specification uses; `PROJECT.json` pairs each property
with the variant that violates it.

Abstractions worth knowing:

* `MgoCmd`: a collection is a hid and a name, the rank of the name under
  `sort.Strings`; `Date` gives the date that each name spells, which need not
  grow with the rank (`2014_10_1` sorts before `2014_9_1`). A body says
  which fields it has and whether decoding reports an error (a type error
  stores the fields that are right). Reads of `req.DB` by a monitor are atomic;
  a torn read of the string is not modelled. dbMonB only answers here.
* `SysCmd`: `Args` is its first element, which is run as `Lower` of it; output
  counts its complete lines, and says whether a rest without a newline follows. A failing
  `statfs` is a low disk, for `int(NaN)` is negative on the platforms built for.
* `Url2Name`: redis is external and executes one command at a time; a command
  fails before it executes, or its answer is lost. Scores are left out.
  `EntryPoolSize` is at least 1. The process may end at any time (`ended`), after
  Uninit or without; what is in redis stays.
* `FileOp`: a file is a sequence of chunks known by the upload they belong to.
  `upload_path` and `store_path` are different directories. A direct upload by a
  name with `..` may have the stored file of any name as its temporary file
  (`astray`); such names in a form or a download are left out. The redis side of
  a download is in `Url2Name`; here the index answers any name.
* `UploadForm`: a value is its key and index; of the suffixes of `setInfo` only
  `path` matters to what is moved.
* `Ngxfmd`: the file gives each handler a pool of a size that tells: none, one
  that `make` refuses, zero, one, or several. A request to a ready handler may be
  inside the Lua state or the redis client, may wait for ever or end the process;
  what else it does is in the modules of the handlers.
* `DbMon`: the alarm and the monitor's end are one step; mail is left out.
* `Cmdd`: a daemon is killed and started again any number of times; etcd answers
  or fails, and an answer may be lost. Whether the file of the configuration can
  be read is a choice; a file says whether its text ends the parser as a bug
  (`text`), and the size of each pool. `Waiting` are the handlers of which an
  operation may wait for ever (diskMonE, a command that does not end), `Monitors`
  those whose goroutines may panic (dbMon, with a nil session). `Sctl`: an operation does nothing but answer.
* `Qianke`: mysql executes a statement, refuses it or loses the answer;
  `database/sql` may move `qkdb` to another connection once.
* `Sandbox`: scripts are external: a call returns or leaves an error. Two
  goroutines in Lua at once, or one in a closed state, make the state undefined:
  from there calls end in any way. `MaxStack` slots stand for LUAI_MAXCSTACK.
* `RedisPool`: names of connections are used again after a close. `lost` and
  `busy` are histories of connections that Filter or Close left and of clients
  that were inside when Close began; `twice` counts the set-ups that failed on
  the network, which the code counts down twice.
* `RedisReply`: a reply is a sequence of tokens, one per line or bulk string; a
  line whose front was lost to a deadline is a token of its own. The bytes of a
  token, and how arguments are written, are left out. `ParseReply` reads token by
  token and counts how many replies are still expected, where the code's parsers
  call one another; those calls are in `RedisParser`, and `ReplyParsed` checks
  that the two agree, also for maps and scores of odd length, of which the code
  reads one reply more than there are (`Elements`) or panics (`Unplaced`). The
  scan is there because nothing can be proved about recursive operators.
* `RedisClient`: the pool is its contract here, an idle connection or a new one.
  A deadline may cut any line, that of an array or a string too, at most one in a
  reply (`Cuts`): its front is a line, and so is what is left of it. When the
  length of a string is cut, what is left of the string counts as one line.
  `owes` is a history: why the last reader of a connection left replies on it.
* `BufReader`, `BufWriter`, `ByteBuffer`: bytes are numbered, so that order and
  loss can be seen; their class (newline, carriage return, rune of two bytes)
  matters to lines and runes only. The shortcuts of `WriteTo` to another
  `WriterTo` or `ReaderFrom` are left out.
* `TomlLex`: characters are classes, drawn as the lexer asks for them, runes of
  two, three and four bytes among them; `behind` are the last two bytes, as far as
  going back needs them. A year has two digits and `\u` takes one, arrays nest
  `MaxDepth` deep. The text of a value is an outcome only: as the parser converts
  it, the document may be refused ("error") or end the process ("unreadable").
* `TomlDoc`: a node is known by its path, a sequence of names with the index of
  the element for those of arrays; the code's walk from map to map is the one path
  on which each index is the newest (`Ways`). TLC takes names of the one part
  `a`. The text of values is not converted.

## Runs

| Run | Question and bounds |
|---|---|
| `mgo` | Pool, reuse, flags, stops and starvation. Three requests, two objects: two monitors at once, a third request waiting behind two stops. |
| `mgo_drop` | What monitors drop. Up to three monitors; a listing of three has a victim, four names let new collections arrive after a listing; the first of the names spells a later date than the next two. |
| `sys` | Arguments, output, monitors and starvation of `/syscmd`. Three requests, two objects: a command in capitals, a monitor, and an empty body on what they left; a line of output and a rest; a third request waits behind two commands. A body that fails to decode is left to the theorem, and to `mgo`. |
| `url_race` | Two writers, two adds under two names of one key, removals, a download, one failing command, Uninit at any time. |
| `url_live` | One object, one writer, a queue of one: a full queue and a failing command while a sender is blocked; Uninit and the end of the process at any time. |
| `file` | Either upload type. Two uploads inside at once, of the same and of different names, with `..` in them or not, with short bodies and failing calls, forms of one or two files, and a download. Two chunks show a mixture. |
| `ngxfmd` | The four handlers, each with every size of pool while the others are the default or have no section; logs on or off, a taken port, up to two requests in Lua, some in the redis client, signals at any time. |
| `ngxfmd_both` | *Violation*: README.md:25 promises FastCGI and HTTP; while the first HTTP server serves, FastCGI is never started. |
| `handlers` | Forms of four keys with up to three values in every order of the map; a monitor of three pings, of which errors are left over; three requests on pools of two (`/qianke/`, `/sctl`) and of one and two (`/sandbox/`, a stack of four); two daemons of cmdset with a complete file, or one that lacks one thing or has an odd size of pool; all urls of up to four characters after nothing or a scheme, over the cut set and two other characters. |
| `redis_pool` | Three clients of a pool of one, names for three connections, eviction, failing dials and set-ups, one of them counted down twice, Filter and Close at any time. |
| `redis_client` | Two goroutines, one connection at a time (others would be independent of it), two operations in all, with a string, an array or anything for a reply, each a command, pipeline, transaction or subscription whose replies are whole, cut, late, nil or errors: the second meets what the first one left. |
| `libraries` | A reader of five bytes with a buffer of three, a rune and a line end across its end; a writer of three; a buffer that starts with two; every sequence of characters the lexer tells apart; documents of six statements with names of up to three parts; every reply to every method, and each parser before every sequence of up to four tokens, which has arrays in arrays and cut ones. |

**What the runs show.** No request object is lost or shared on any path of the
modelled handlers; a body's own command, database and arguments are what a
handler runs with, though `/syscmd` lower-cases the name of a command, so that it
may run another, and drops what follows the last newline of its output. The flags never claim a monitor that is not there, though
they may deny one: by `MonitorsAccounted` the flag is exact as long as only one
monitor was started, and every stop that was answered is the end of one. The pool of
`/mongo` is starved by unanswered stops and by nothing else, that of `/syscmd`
by commands that keep their output open. A monitor leaves the last collection of
a hid, as names sort (`NewestKept`). That is the newest only if the names of the
hid sort as they are dated; the code takes dates without padding, and then it
drops the newest (`mongo_cmd.go:163, 176`). Nothing is safe in a database in which
some monitor dropped names that it had listed in another, because its object
changed database in between; there, another monitor too may drop what has become
the newest. The
index keeps the first name unless two writers overlap, and its two halves agree
unless a removal and a write overlap. An accepted add takes effect unless a
command fails, or the process ends while it is in the queue or with a writer:
main returns as soon as Uninit has closed the queue, so those are lost
(`AddTakesEffect`). The store holds whole files unless two direct uploads of a
name overlap, or a name with `..` leads one into the store. The exceptions in these sentences are the
history variables of the modules (`astray`, `crossed`, `raced`, `contested`,
`writer`):
they name the window, so that the property says what holds outside of it.
`OnlyUnconfiguredHang` and `EndHasReason` do the same for a process that is not
fully configured: a request hangs for want of an object where there is no section
or a pool of size zero; and with a log and possible sizes the process panics, past
its configuration file, only after two requests were in the one Lua state or after
its `lua_close`. A signal ends it (`MainMovesOn`) unless a request is inside the
redis client when Uninit closes that. Where a form's keys have different numbers of values, whether
it is answered or panics is up to the map's order; but for a form with one path
key an answer of 200 means that each of its files was moved (`AnswersAreTrue`).

A script of `/sandbox/` works on its own request while the pool has one object;
with two, two goroutines may be in Lua at once and nothing holds. A daemon of
cmdset that serves is in etcd, but one that died is too: `ServesAsEntered` has
no converse. What it says of the rest is a list of reasons: a request waits for
ever at a handler without section or objects, or in an operation that waits, as a
diskMonE without a monitor does; a start panics for the text of the file, without
a log or a port, or for a negative size; and a daemon that serves falls by the nil
session of a dbMonB that finds no mongod.

The redis client hands a reply to the command it belongs to, all of it so that
the command ends without a deadline too (`OwnReply`), and puts a clean
connection back, except where `owes` is set: the rest of an array, of a
transaction or of a pipeline after an error of redis, the rest of a line, of any
kind, that a deadline cut, and the watches of a `Multi` whose function failed
(`IdleIsClean`). Only after one of those, in the reply in which the deadline cut a
line, or on a SORT that stores, does the reading of a reply panic
(`OnlyOwedPanics`): cut within the `*2` of an array, the next line is empty, and
the parser looks at its first character. The pool's counter is exact but for set-ups
that fail on the network, which are counted down twice, so that the pool grows
by one each time (`ConnsAccounted`); Close returns unless a client was inside
when it began or Filter kept connections (`CloseEnds`).

The buffers keep bytes in order however streams are cut. The lexer and the
parser always agree on the next item (`ItemsFit`) and reach the end of every
document, or an error, but for three kinds, which are lexed for ever: one that
leaves a string of several lines open, one that has in such a string two quotes
before a rune of several bytes, and an array such as `["a",""😀]`, where the lexer
steps back four bytes over two (`LexEnds`). `ItemsFit` is about the order of
items, not about their texts. A document may end the process all the same: in a
string of several lines that begins with two quotes and a rune of three bytes the
lexer slices its input backwards, and `parser.value` calls its own bug for a date
that is none (`2014-13-40T00:00:00Z`, `parse.go:204`) and for an escaped backslash
before a `u`. In the model both are outcomes ("panic", "unreadable"), and no
property denies them.
Duplicates are errors except between names that share their dotted spelling
with another node (`DefinedOnce`).

**Bounds.** Actors are two or three, because every hazard above needs two that
interleave and at most one more that suffers. Bounded in guards: `MaxNames` names
of a hid's collections (`MgoCmd`) or of a header (`Parts`; `MaxLen` in `TomlDoc`),
`MaxFaults` failing commands, `MaxLines` of output, `MaxErrs` counted errors,
`MaxLen` chunks (`FileOp`), `MaxParts` files and `MaxValues` values of a form,
`MaxRest` characters of a url, `MaxTwice` failing set-ups, `MaxCmds` operations,
`MaxBytes` written, `MaxDepth` nested arrays, `MaxStatements` of a document. The code has no such
limits; each bound is the smallest number that shows the case it is there for,
or one more. `MaxStack` is a limit of Lua itself, made small so that it is
reached. Permuting requests, writers, names or clients is a symmetry of the
safety runs that say so; liveness runs use none.

**Types.** The type invariants are proved, for every handler, for both daemons,
for the connection pool and for the sessions over it, because the other proofs
rest on them; the runs do not check them again. In the modules of TOML the
comments at VARIABLES say what a variable holds, and the properties that are
checked would fail to evaluate on anything else.

**Deadlock** is not checked where the system may stop: requests are finite in
number, processes end, and a stop without a monitor blocks for good.

**Disagreements not run.** Reading the code also showed: README.md:28 describes
the two upload types the wrong way round (`fileop.go:22-23`); `Fatal` returns
unless two loggers are open (`srv_log.go:92-98`); with only the access log on,
its logger has the index of the error log (`srv_log.go:13, 71, 102`);
`fileop.go:368` calls the ZADD of a download an update, though it makes the
member again that a rm took out since the lookup (`Visit` in `Url2Name`).

**Fairness.** Goroutines that can run do run, and calls to redis and to the
file system end (weak fairness). Receivers and senders blocked on a channel are
served first in first out by the Go runtime: strong fairness on taking an
object, on the stop, on the send to the queue. Clients of the connection pool
that are inside go on (dials have deadlines; whoever is in a command when Close
begins is in `busy`), as do the loops of Filter and Close; the parser asks the lexer for the next item until the
last (weak fairness). HTTP clients, bodies, commands, disks, signals, other
processes, documents and failures are never fair, nor is the end of the process
after Uninit; and a request of ngxfmd may stay in a script or in redis for ever.

## Proofs

Every theorem is for all values of the constants: any set of requests, bodies,
names, clients and characters, every pool and buffer size, urls and documents of
any length. Assumed are the named assumptions of the modules only; TLC evaluates
them in every run. A safety property is seldom inductive as it stands; what each
proof adds to it, and why, is said here.

* `MgoCmdProofs`. `IInv` is the type invariant with `Holders` (who is inside
  holds an object, or a request could give back none) and `Monitors` (a started
  monitor points to an object, or its database would not exist). On it rest
  `PoolPartitioned` (with `Disjoint`: no duplicates in the channel), `Served`,
  `FlagIsBacked`, `DBStable` and the refinement `ImplementsPool`, which maps each
  step to an Acquire, a Release, a Refuse or a stutter. `NewestIsKept` needs
  `Newer`: each victim that a monitor still has to drop has a collection of its
  hid in the database whose name sorts after it, as long as no monitor went astray
  there; it is kept because the last of the listing is never a victim, and the
  lemma `VictimHasNewer` counts that. Where names sort as they are dated, that one
  is also the newer. `Accounted` needs the two sides that it compares
  to be finite, and that a request has no answer before its stop was taken.
* `SysCmdProofs`. To `IInv` (types, `Holders`, `Monitors`, `Partition`, and that
  no more lines are sent than written) `AnswersTrue` adds `Provenance`: a pooled
  object's arguments are those of some body, an object is not read before it is
  decoded into, and a request's command is the one in its object since, its name
  in lower case; and
  `Complete`: a command that came to its end has all its lines sent. The lemmas
  on the channel say what a receive and a send do to `Parted`, which says that
  the objects are divided between the channel and their holders; from it follow
  the refinement `ImplementsPool` and what `RequestPool` is there for,
  `PoolExclusive`.
* `Url2NameProofs`. `Entries` says that whoever works on an entry has one. For
  `NameKept`, `WindowsHold`: a writer in its window found its key nameless and it
  still is, or the key is in `crossed`. For `IndexAgrees`, `HalvesInv` adds the
  steps in between: a removal past HDEL has no name left, a writer past ZADD has
  its member. `SnapshotKeepsUp` is inductive with the types.
* `FileOpProofs`. `Counted` (those inside are finitely many, and with the pool
  make its size) gives `ObjectsConserved`. `FInv` gives the other three: where
  an inode may be named (`Placed`) and by whom it may be written (`Alone`), that
  what a writer has written is a prefix of its own upload (`Formed`), and that a
  reader's inode is whole and what it has read is a prefix of it (`Reading`,
  `Served`, `Found`). Only together are they inductive: that a stored file stays
  whole depends on no writer having it open, and that on where names point. All of
  it but `Placed` is about names that are not `contested`: an upload that is
  `astray`, whose name led it into the store, has contested the name it reached.
* `RedisPoolProofs`: `Accounted`. No connection is in two places (`Apart`), each
  open one is somewhere (`Known`), and `Counts` says by how much the counter is
  off: by the set-ups that were counted down twice, and never by anything else.
* `RedisClientProofs`. First, what a parser reads: `ParseReply` takes the least
  end (`LeastIs`, by the well-founded order of numbers), it counts on what has
  arrived alone, and so it never reads past the end of the reply that a stream
  begins with, nor takes a part of it for the whole (`ParseCut`, `NeverBeyond`).
  Then what each method makes of each reply that the server has for it: one
  lemma per table of `RedisCommands`, that kind and reply fit (`CommandsFit`),
  and `RepliesParsed`, the theorem of which `ReplyParsed` is the instance that
  TLC checks. Last, `ClientInvariant`: no connection is in two places and one
  that reads has one (`Apart`), what is in the pool is clean or owes something
  (`Idling`), and `Sessions` says of each goroutine, to the token, what is on its
  connection. That last part (`Due`) had to name every stage of a command, a
  pipeline and a transaction: the reply that is read next, whatever follows it,
  and which of them an error may stand for; and, of a subscriber, that pushes
  are whole. From it follow `OwnReplies`, `IdleConnsClean` and `OnlyOwedPanic`.
  Connections that owe something are left with their type alone, since any part
  of anything may be on them; the reading in which a deadline cuts a line is among
  them from that step on.
* `NgxfmdProofs`: `OnlyUnconfigured`, `ReasonedEnd`. They are inductive with
  three facts on the loops: no server is on before the handlers are initialised
  (`Quiet`), what the first loop has passed is ready if it has a section
  (`Initialised`), and what the last one has passed is closed (`Uninitialised`).
  Who is inside Lua or the redis client needs no invariant of its own, for
  `crowded` never shrinks.
* `PartsProofs`. The invariant of a handler's part is `IInv` in its module:
  `UploadForm` needs what a list holds for each value that was visited
  (`AllListed`); `DbMon` how pings that are left and errors add up
  (`Tallied`); `Qianke` what each answer means and what the tool holds
  (`Answered`, `ToolInPlace`); `Sandbox` that a context has the values of its own
  object and who is in Lua (`Filled`, `Apart`); `Cmdd` that a daemon past its
  entry is in etcd and has made ready each handler with a section that it visited,
  and when it serves has visited all (`Visited`). `RestIsKey`
  takes the least position at which a url leaves the cut set, by the well-founded
  order of numbers. `PartsImplementPool` is the refinement of `RequestPool` by
  `/sctl` and `/qianke/`, with the lemmas on their channels; `PoolsExclusive`
  says what it is worth, for both. For the `Writer` the invariant is `BytesPlaced`: the
  last `n` accepted bytes are the front of the buffer and all others are below,
  in order. It makes `WrittenInOrder` and `FlushForwards` hold for a buffer of
  any length. For the lexer it is `FitsNow`, which says for each state function
  what the stack is and what the parser waits for: within `d` arrays, `d` times
  `ArrayValueEnd` above `TopEnd`, and an element. TLC had checked two levels; the
  theorem is for all, and wherever stepping back over a rune has led the lexer. The attempt showed that the model's parser had two answers
  to an error where a value is awaited; `parser.next` (parse.go:75-81) has one,
  and so has the model now. For the documents it is `DocInv`, from which
  `DocumentsDefineOnce` follows: an implicit name has a node that the parser made
  itself, and another such node for every given one of that name (`DocMarks`);
  the elements of an array are counted without a gap (`Counted`), so that a header
  and the keys after it go down the same way (`OneWay`, `WayStays`); and that way
  is there for the last header until something was given twice (`DocContext`),
  which is why only such a document can end the process.

**Only model-checked.** What is stated about fairness is beyond the prover:
`WaitersServed`, `StopAnswered`, `ObjectsComeBack`, `AddTakesEffect`,
`MainMovesOn`, `CloseEnds`, `LexEnds`. So is that the calls of `RedisParser`
read what `ParseReply` does (the second half of `ReplyParsed`): they are
recursive operators, and the proof would go by induction on the tokens. Not
proved so far, though nothing stands against it: `BytesInOrder` of the `Reader`
and the `Buffer` (its third part, on the Writer, is `FlushIsForwarded`).

**What the proofs changed.** Three places in the models of the redis client
were wrong or said too little, and runs on small instances had not shown it. The
two conditions of `Parse` overlapped for a float that is no string, where the
code has an order. A nil connection had to differ from every connection's name,
now part of `ClientAssumption`. And `OwnReply` let a stream be empty under a
read; what holds, and is stated now, is that the whole reply is there.

## Not modelled

* Where log lines go and how they are formatted (`dlog`, `cmdlog`): one test of
  the number of loggers; the files that open or fail to, and the panic without
  any, are in `Ngxfmd` and `Cmdd`.
* Mail (`SendMail`), `SafeHandler` of cmdset (no caller), the text of answers.
* Redis: the sentinel (no caller; its effect on the pool, Filter, is in
  `RedisPool`), `Script`, `Unsubscribe` and `Pipeline.Discard`, the formatting of
  arguments.
* TOML: `parser.value`, which converts the text of one value, but for its
  outcomes (taken, an error, the end of the process), and the types of inline
  arrays; decoding into Go values, which is decided by the types of the
  caller; encoding, which has no caller.
* `types` (a duration that no live code uses) and the example programs.

## Plan

1. Proofs: the `Reader` and the `Buffer` of `BytesInOrder`.
2. Compositions: `FileOp` with `Url2Name`'s index (a download between add, rm
   and upload); `UploadForm` as what `FileOp`'s form does.
3. An abstract index (a map from keys to names with put-if-absent and remove)
   that `Url2Name` implements while no windows overlap; an abstract store with
   atomic put and get that `FileOp` implements for uncontested names.
4. `parser.value`: the types of inline arrays, and which texts conversions refuse.
