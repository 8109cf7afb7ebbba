# A TLA+ model of libevmvc

libevmvc is a C++ web framework on libevent: a master process accepts
connections and hands them to forked worker processes, each of which runs one
single-threaded event loop. This directory models the parts of it whose
correctness depends on the order in which things happen. TLC checks the models on
small instances. TLAPS proves the main safety properties for all instances.

Paths below are relative to `src/include/evmvc/` unless they begin with `src/`.

## The system and its parts

| part | sources | module |
|---|---|---|
| a connection: bufferevent callbacks, parser control, responses, pause and resume, files, keep-alive | `connection.h`, `connection_impl.h`, `parser.h`, `parser_impl.h`, `response.h`, `response_impl.h` | `Connection` |
| command pipe between master and worker | `worker.h`, `worker_impl.h` | `CmdChannel`, `CommandQueue` |
| processes: start, dispatch, crash, stop | `app.h`, `worker.h`, `worker_impl.h`, `master_server_impl.h` | `Supervisor` |
| timers and the registry of named events | `events.h` | `Timers` |
| routers, routes, handler chains, policies, file routers | `router.h`, `router_impl.h`, `filter_policies.h`, `parser_impl.h`, `app.h` | `Router`, `HandlerChain`, `Serving` |
| framing of requests: lines, headers, bodies, forms, multipart bodies | `parser.h`, `parser_impl.h`, `multipart_utils.h`, `connection_impl.h`, `request_impl.h` | `RequestParser` |
| view buffers, view engines, layouts, partial views | `view_base.h`, `view_base_impl.h`, `view_engine.h`, `fanjet/fan_view_engine.h` | `ViewBase`, `ViewEngine`, `Views` |
| Fanjet compiler: tokenizer, parser, generator | `fanjet/fan_tokenizer.h`, `fan_ast.h`, `fan_ast_parse_impl.h`, `fan_ast_gen_impl.h` | `FanTokenizer`, `FanParser`, `FanPage` |
| Fanjet tool | `src/fanjet-precompiler/main.cpp`, `fanjet/fan_parser.h` | `Precompiler` |

How they interact: `Supervisor` brings a client's socket to a worker. There it
becomes a `Connection`, which lives in the worker's loop next to the `Timers` that
handlers set. Master and worker talk over two pipes, each a `CmdChannel`. The
modules are separate because the parts share little state:

* `Supervisor` takes of the pipes that a command arrives or, when its pipe is full, is
  lost, `CMD_CLOSE` and `CMD_CLOSE_APP` alike. `CmdChannel` says when a command arrives
  and what a full pipe costs.
* `Connection` uses of the timers only that a one-shot callback runs once, later.
  Unnamed timers get fresh names, so what `Timers` says of a careful application
  holds of them.
* `Supervisor` treats a served connection as something that ends at some time.
* `Connection` takes a head or a body as one token and the answer of the router and
  the policies from the request's profile. `RequestParser` says how those tokens
  come out of the bytes, and `Serving` where the answer comes from.
* `FanPage` composes the tokenizer, the parser, the generator and the buffers of a
  view: a template goes in and a page comes out. `Views` composes the tool that
  keeps the generated headers with the engines that render them; what the code of a
  view writes is given there, since `FanPage` has shown it.
* `Serving` extends `Router` and stops where a handler answers, which is where
  `Connection` and, for a handler that renders a view, `Views` begin.

`PROJECT.json` maps every definition to the source lines it models, and lists the
hazards of the code with the properties that address them.

## The modules

### Connection

One connection, with its client and the worker's event loop. All that the
callbacks read and write is one record `w`, and the operator that stands for a C++
function maps the record before the call to the record after it (`Send`,
`ResumeResponse`, `Exec`, `ValidateHeaders`, `OnRead`, `OnWrite`, `OnResume`...).
A callback runs to completion in the code, so it is one step (`RunRead`,
`RunWrite`, `RunResume`, `RunAccess`, `RunHandler`, `RunEof`, `RunError`, `RunTimeout`).
`Poll` lets libevent report what is ready, in any order. A bufferevent delivers
its own callbacks through a deferred event in a fixed order, which
`RunDeferred` keeps.

What a request and the application code behind it do is its *profile*: whether the
route is found, whether the access policies answer within the call or from a timer
and what they answer, the body (none, empty, data, a multipart body without a boundary
or one that is malformed, a Content-Length that is no number), what the handler does
(answers now or later, sends a file that can be read or not, pauses, fails), whether
the connection is kept. The profile is chosen in `Init`, once per request, so the model covers all
mixtures of requests.

Abstracted: a head and a body are one token each, and each arrives whole; a body
holds no end-of-line. TLS, with its branch of `on_connection_event`, server-sent
events, the contents of responses and the choice of a server by name are left out. A
null response that is dereferenced sets
the flag `crashed`.

### CommandQueue and CmdChannel

`CommandQueue` is the promise: the commands that `sendcmd` accepted reach
`parse_cmd` once each, in order, unaltered, until a command is written in part.
`CmdChannel` is the code: three writes per command (`_sendcmd`), each of which a
full non-blocking pipe may refuse or, when it is longer than `PIPE_BUF`, take in
part; and the reader (`channel_cmd_read`), which reads what there is and parses as
many commands as are whole. The stream is kept as positions and frame boundaries,
not as bytes; a reader that starts between boundaries sees a length and an id that
may be anything. `ImplementsQueue` is the refinement. Nothing is promised of a torn
stream, and the code does tear one when its second or third write is refused.

### Supervisor

The master and its `N` workers. `Fork`, `Connect` (five attempts), `Listen` and
`AcceptMaster` are `app_t::start` and the start of a worker. `Dispatch`, `Send` and
`Retry` are `listener::master_listen_cb`, which does not return while the worker's
socket is full (such a connection is `"held"`, and the master does nothing else).
`sendmsg` may also fail for a worker that lives, for want of kernel memory or of
descriptors, and the connection is then closed (`"refused"`).
`Verify` is the check once a second. `BeginStop`, `StopPoll` and `StopTimeout` are
`app_t::stop`. `Die` ends a worker at any time, by an exit, by a signal such as
SIGSEGV, or by SIGKILL or SIGINT, which the code ignores. Every worker is an
`http_worker_t`, as in the code.

Facts about the platform that the model takes over:

* libevent refuses to run a loop inside a loop, so a `stop()` called from a
  callback dispatches no connection, and one called after the loop does (`nested`).
* The pipe of a worker that has ended has no reader. Writing to it raises SIGPIPE,
  which ends a master that does not ignore it. The library does not say which;
  `ignores` is either, from the start.
* Nobody listens on the unix socket of a worker that has accepted the master, so
  the attempt to reconnect after EPIPE fails.
* The application answers SIGINT in the master by calling `stop()`, as
  `src/examples-evmvc/web-server.cpp` does.

Left out: a second `stop()` during the first and a new `start()` after a stop;
SIGSTOP; a `stop()` called by a signal that interrupts a callback; what orphaned
workers do after the end of the master (their loop spins on the socket's end of
file, `worker_impl.h:312`).

### Timers

A timer is shared by the registry, by itself while it is armed, and by the
application if it keeps the pointer. `Stop` is `event_wrapper<void>::stop`, which
takes the timer's *name* out of the registry whichever timer has it. `SetTimer`
arms, then registers; a name in use throws and leaves the timer armed. `Fire` and
`Return` are the two ends of a callback, between which the application may do
anything, also to the timer that runs. An application is `careful` when it uses a
name again only after every timer that had it is gone; both kinds are explored.
The template `event_wrapper<T>` for other `T` is not used in the repository.

### RequestParser

One connection on which a client sends each request after the answer to the one before
(`NextRequest`); an answer may come while it still sends. A byte is a symbol, `"CR"` and `"LF"` among them, and `Deliver` lets any number of bytes arrive
before the next read. `OnRead` and `OnResume` are `on_connection_read` and
`on_connection_resume`; `Parse` is the parser's `parse`, with `ParseLines` for a head,
`ParseBody` for plain bodies and forms and `ParseMultipart` for parts. What a handler
then finds (`got`) is compared with what the client meant (`MeantBody`), which is
defined from the request and not from its bytes. Three things the code does to every
body are part of what is meant: a text form is discarded, the lines of a multipart
value are run together, and `+` is a space.

Access policies always grant here, from the resume event. A multipart body that is
wrong is answered by the parser itself (`caught`) and what is left of it stays in the
stream. `cutcr` marks a request of
which a file was moved out of the buffer with half of a line end (`parser.h:924`); its
boundary is lost. `CutHeads` says whether a read may end between two lines of a head.

### Router, HandlerChain and Serving

`Router` is the tree of routers and what is registered with each: `RegisterRouter`
moves a router that has a parent, `Use`, `RegisterHandler`, `RegisterPolicy` and
`RegisterRoutePolicy` add to it. `Serving` takes an application, a set of such calls
that are made in any order, and lets one request come at any moment. `ResolveUrl`
finds its route and `PlanFor` collects the rules and the handlers of the routers
upwards. `HandlerChain`, which `Serving` extends, runs them: `AskRule`, `RuleAnswers`,
`RunHandler`, `HandlerCallsBack` and `LateCallback`. It takes exec to follow the answer
of the rules; that a body may reach exec before it is `Connection`'s matter (see below).
A handler is what it does: calls back, answers, begins to send a file, fails, throws,
stays quiet, or calls back from a timer. `send_file` starts the response and nothing
ends it, which is why the code tells a response that has *started* from one that has
*ended*. A callback that arrives after the captures it refers to are gone is
undefined behaviour in the code, and marks the request (`res.undefined`).

The patterns of routes are sequences of segments. The routes of a verb are kept in a
hash map, so any of those that fit may be chosen.

### FanTokenizer, FanParser, ViewBase, FanPage

`FanTokenizer` cuts characters into the tokens of the table. `s_tokens` holds those of
the 555 entries that occur anywhere in a template of the instance, also across the
bounds of its words (`or` and `sec` in a word, say), so that a template is cut as with
the whole table. A word is a sequence of letters between marks. `FanParser` is the recursive descent: as
every call in it is a tail call, its state is the position and the stack of open
nodes, and one step is one turn of the loop in the innermost node. Null pointers and
exceptions are verdicts. `FanPage` generates the calls of the render function from the
tree and runs them against `ViewBase`, the stack of buffers. The C++ text between the
calls is left out, but for the conditions of control statements, which are all true or
all false, and for `return` and `throw`, which leave the render function at once
(`GenLeave`, the phase `"left"`).

### Precompiler, ViewEngine, Views

`Precompiler` is the `fanjet` tool with its files: templates with versions and times in
whole seconds, the two headers of each, and the include file. Templates are edited at
any moment, a run may be killed between any two writes, and a write may fail, which
the tool does not look at (`WriteFails`). A template is compared with its own headers
only, as in the code: a change in one that it inherits or imports does not make it
stale. `ViewEngine` finds views
from the directory of the caller upwards, puts layouts around them and renders partial
views. A view renders a partial view with the rest of itself as the callback, so the
state is a stack of continuations (`agenda`). The callback is called within the `try` of
the generated code, so that one that throws is called a second time (`Complete`).
`Views` builds the program once a run of
the tool has succeeded, registers the engines and renders one view.

## What is checked

| run | instance | what it shows |
|---|---|---|
| `lockstep` | 2 requests, one after the other, all profiles of `Served` | no handler before its grant, no null response, resume only of a paused connection, whole responses in order |
| `pipelined` | 3 requests at once on a kept connection, routes that are found, policies and handlers that answer within the call | each response is whole and in order |
| `liveness` | 2 requests, `Answerable` profiles | every request is answered to its end or the connection closes; no reset of the parser and no close before a response is out |
| `parsing` | 13 sessions of one to three requests with bodies of every kind, reads that end anywhere but between the lines of a head, a content buffer of 3 | a handler finds what was sent; every well formed request is executed, up to one that is not, and no other is |
| `channel` | 3 commands, payloads of 0, 2 and 4 bytes, a pipe of 6 | the byte stream implements `CommandQueue`; every accepted command is delivered |
| `timers` | 3 timers, 2 names | registry and armed events agree, a cleared timer does not run, a timeout is freed |
| `service` | 2 workers, 3 connections, sockets with room for 1 | fair turns, no connection dropped but for a worker that ended or by a `sendmsg` that failed, every connection settled, a crash ends the service, stop ends |
| `serving` | 8 applications with up to 6 routers, 10 requests | links between routers agree; a url resolves to the longest paths; every policy on the way is asked first; a sent answer ends the work; handlers that run afterwards do run; every request is answered |
| `views` | 2 templates, 2 edits, 3 seconds; 19 views, 11 references | headers are up to date after a run; the page is composed as the views say; one answer, and always one |
| `page` | 1259 files: templates up to two levels deep, and every prefix of some | tokens, tree, buffers and page are as meant; the compiler ends |

Runs in which the code does not do what it says (see `findings` in
`PROJECT.json`):

| run | what happens |
|---|---|
| `pausing_handler` | a handler's `pause()` is undone by the resume event of the access validation, and its `resume(cb)` fails with "Resuming unpaused connection!" |
| `cut_head` | a head cut between two lines is validated before its remaining headers were read: the request line is drained without its line end, which the next read takes for the end of the head |

Further configurations show disagreements in the same way, and can be run by hand
(`tlc -config CFG MODULE`, the module being the part of the name before the
underscore); each ends with a violation. Where a configuration has several rows it
names the other invariants, or the other sets of templates, in comments, to be put in
the place of the first. They are what the properties of the passing runs exempt (see
below).

| configuration | property | what happens |
|---|---|---|
| `MCConnection_fail.cfg` | `AnsweredOnce` | a handler that answers and then fails gets a second body written after its response; `end()` only logs "MUST NOT END" (`response.h:105`) |
| `MCConnection_late.cfg` | `CloseOnlyWhenSent` | the body of a refused request arrives late, is skipped before the next head, and the connection is closed before that request is answered |
| `MCConnection_silent.cfg` | `EveryRequestAnswered` | a request without a Host, a multipart body without a boundary (`parser_impl.h:208`) and a file that cannot be read get no answer, and the connection stays open |
| `MCConnection_givenup.cfg` | `NoNullResponse` | the parser gives a request up (a Content-Length that is no number, no boundary) while its policy has not answered; the answer finds no response |
| `MCRequestParser_upload.cfg` | `EveryUploadParsed` | a file moved out of the buffer with half of a line end (`parser.h:924`) hides the boundary, and the request is never executed |
| `MCRequestParser_shifted.cfg` | `BodiesAsSent` | what a refused multipart body leaves in the stream is counted to the body of the next request |
| `Timers_duplicate.cfg` | `OneTimerPerName` | a timer refused as "already registered" (`events.h:352`) is armed all the same |
| `Supervisor_stopped.cfg` | `StoppedMeansDead` | `stop()` counts living workers as dead and returns at once (`app.h:340`) |
| `Supervisor_respawn.cfg` | `CrashedIsRespawned` | a crashed worker is not started again ("enable child respawn on release build", `app.h:255`) |
| `MCServing_documented.cfg` | `ResolvedAsDocumented` | `/abc/123/*` does not take `/abc/123`, which `src/doc-evmvc/README.md:11-17` says it does |
| `MCServing_documented.cfg` | `NoRouterMissing` | of two routers of one path the second replaces the first; when it is moved away the path stays, and a url on it dereferences the end of the map (`router.h:563`) |
| `MCServing_documented.cfg` | `NothingAfterFile` | a handler of the route that sends a file and calls back does not stop the next one: `_exec` asks `ended()`, which a file leaves false |
| `MCViews_documented.cfg` | `SearchedInOrder` | the order "path dir, partials dir, layouts dir, helpers dir" of the comment (`fanjet/fan_view_engine.h:222-226`) is not kept among views of one name: any that fits may be found |
| `MCViews_documented.cfg` | `PartialsBare` | a partial view is rendered with its layout, which `src/doc-evmvc/README.md:133` says is ignored |
| `MCFanPage_documented.cfg` | `PageShowsText`, `MCEscapedPages` | `@@` is not shown as `@`: a missing comma in the table makes it part of the token `#define@@` (`fanjet/fan_tokenizer.h:1211`; `src/doc-evmvc/README.md:102` documents it as the escape) |
| `MCFanPage_documented.cfg` | `PageShowsText`, `MCDocumentedPages` | `@::` writes unencoded and `@:` encoded, the reverse of `src/doc-evmvc/README.md:115-116` |
| `MCFanPage_documented.cfg` | `PageShowsText`, `MCStatementPages` | `@try`, `@region`, `@<` and `@await`, all in that table, do not compile |
| `MCFanPage_documented.cfg` | `PageShowsText`, `MCAfterPages` | the token right after the last brace of a statement, or after `@write-section;`, is not shown |
| `MCFanPage_documented.cfg` | `PageShowsText`, `MCWordPages` | a name that ends with a keyword (`retry(`) is cut at the keyword, and the block refused |

`MCServing_chain.cfg` (module `MCServing`) passes: every step of `Serving` is a step of
`ChainSpec` or leaves the chain alone, so that what is proved of `HandlerChain` holds
for `Serving`. `MCViews_engine.cfg` (module `MCViews`) does the same for `Views` and
`EngineSpec`.

Deadlock is not checked: clients send finitely many requests, commands and
connections, a template is compiled once and one view is rendered, after which nothing
has to happen.

### Why these bounds

Two requests are the least with a predecessor whose late events (a resume, a
drained buffer, a late body) can meet the next one; with pipelining a third can
arrive between. A file has one chunk beyond its first. The pipe of 6 is smaller
than the largest command (7), so every field is refused and split somewhere; reads
of 5 end inside headers and payloads and across commands. Three timers under two
names give a name with an old, a current and a rejected timer. Two workers with
room for one message and three connections give a full socket, a retry, and a wrap
of the round robin.

The content buffer of 3 is smaller than a line of a file, so that lines are moved out
of it in pieces, before, at and after a line end; the sessions of two and three
requests show what one leaves for the next. Six routers, two of them of one path and
two whose paths begin alike, are registered and moved in every order; five of the
applications differ in what eight handlers around and on one route do. Templates nest
every statement in every other, and two deep for the common ones, which is the least
in which a buffer is opened inside another one of each kind. Two edits and three
seconds give an edit before, in and after the second of a save.

### What the properties leave out

The connection runs cover the profiles for which the code keeps the property;
outside them it does not, and the code is to blame, not the bound:

* An access policy that answers later, with a `Content-Length: 0` body: the body's
  state reaches exec before the answer (`parser.h:541`).
* A route that is not found, a later answer and a separate body, or a request that is
  given up before a later answer: the response is gone when the connection is resumed.
* A request that is never answered (no Host, no boundary, a Content-Length that is no
  number, a file that cannot be read), excluded only from `liveness`.
* A refused request whose body arrives late: the next head may be dropped by the
  keep-alive reset, or its connection closed (excluded only from `liveness`).
* A handler that pauses its response, or that answers and then fails: run
  `pausing_handler` and `MCConnection_fail.cfg`.
* Pipelined requests with policies or handlers that answer later: order and grant
  are lost (`pipelined` has prompt ones).

Cases that the other modules contain and their properties exempt, because the code
does not keep them:

* A request with a Content-Length and no Content-Type: there is no buffer to read the
  body into (`parser.h:491`). It is not `Proper`.
* A part that holds parts: the inner boundary is read as a header, and refused.
* The bodies that follow a refused request on its connection, and whether the requests
  after it are executed. No refused body of the instance holds the head of a request.
* A file moved out with half of a line end (`cutcr`).
* A connection for which `sendmsg` itself fails (`"refused"`).
* Two routers of one path under one parent (`shadowed`): the second replaces the first.
* Patterns are what `_build_route_re` makes of them, not what the documentation says.
* A handler other than the last of a route, or a pre or post handler, that calls back
  from a timer (`res.undefined`).
* A handler of the route that sends a file and calls back: the next one runs. Sending a
  file where something was sent before throws.
* Handlers behind a static file: `send_file` does not call its callback, so that the
  handlers registered to run afterwards do not run for it.
* A template edited while a run has read it, whose headers were being written when
  a run was killed, or could not be written (`disturbed`).
* A partial view that is missing or throws (`failed`): the callback of the page is
  called with an error, and may be called again. One that throws is called again.
* A view whose layouts lead back to one of them (`LayoutsLoop`), or that renders itself
  as a partial view, never ends; the instance has the former only.
* The page of a template is compared by its letters: the blanks around a token may
  belong to it. Text right behind the last brace of a statement is left out, and so are
  the statements that do not compile.
* A template whose code returns or throws shows what it wrote before (`"left"`).

### Fairness

* `Connection`: the worker's loop runs what is active and polls when something is
  ready, since libevent's loop returns to both; a client that has announced a body
  sends it. Nothing obliges a timeout to expire, a client to send or to close.
* `CmdChannel`: the reader's persistent read event is run while the pipe is
  readable. Nothing is asked of the sender, which may die at any step.
* `Timers`: callbacks return, and an armed timer's time comes. This is strong
  fairness, because a running callback disables the others for a moment and
  libevent runs expired timers in the order of their times.
* `Supervisor`: weak fairness of each process's own steps. No fairness of crashes,
  of stop requests (a full pipe loses `CMD_CLOSE_APP`), of the 30 second timeout, or
  of connections arriving.

* `RequestParser`: the client sends what it has begun and, once it is answered, its next
  request; the loop runs the read and resume callbacks; a response is completed.
* `Serving`: the program runs, and a rule or handler that set a timer is called back.
* `Views`: the rendering goes on. Nothing obliges anyone to edit, run the tool or build.
* `FanPage`: the compiler and the view run, which are sequential.

## What is proved

For every value of the constants, from the assumptions named in the modules that
declare them (types and sizes; in `Supervisor` that there are at most 100000
workers, the initial value of the round-robin index):

| theorem | statement |
|---|---|
| `ConnectionProofs!TypeCorrect` | `Spec => []TypeOK` |
| `ConnectionProofs!PromptPoliciesGuardHandlers` | with policies that answer within the call, `[]HandlerRunsOnlyWhenGranted`, pipelined or not |
| `CmdChannelProofs!TypeCorrect` | `Spec => []TypeOK`, which says that the reader's lengths do not wrap |
| `CmdChannelProofs!ChannelIsQueue` | `Spec => ImplementsQueue`, the refinement |
| `TimersProofs!RegistryIsSound`, `RegistryIsComplete` | `[]RegisteredIsArmed`, `[]ArmedIsRegistered` |
| `TimersProofs!ClearIsFinal`, `TypeCorrect` | `ClearedNeverFires`, `[]TypeOK` |
| `RouterProofs!LinksAgreeAlways` | `[]LinksAgree`, for any routers and any calls |
| `HandlerChainProofs!AnswerIsFinal`, `RulesGuardHandlers`, `AfterwardsAlwaysRuns` | `ChainSpec => []AnswerEndsWork`, `[]GrantedFirst`, `[]AfterwardsRuns`, for any rules and handlers |
| `ViewEngineProofs!RenderedOnce` | `EngineSpec => []AnsweredOnceUnlessFailed`, for any views |
| `PrecompilerProofs!PrecompilerFresh` | `[]FreshUnlessDisturbed`, for any templates |
| `SupervisorProofs!RoundRobinIsFair`, `OnlyTheDeadDrop`, `TypeCorrect` | `[]Balanced`, `[]DroppedByTheDead`, `[]TypeOK` |

The arguments:

* **Connection.** The operators on a response leave the parser's current request,
  the answers of the policies and the set of handlers that ran alone (`Keeps`); one
  lemma per operator says so. The inductive invariant adds to the type that the
  handlers that ran were granted and that a request whose parser status lets it
  reach `exec` was granted (`GrantedInv`): `exec` does not look at the answer, only
  at the status. The later answers need an invariant about the pending pause and
  the resume event, and are model-checked only.
* **CmdChannel.** While the stream is not torn, the reader's position is the
  boundary of a frame, the frames are the accepted commands in order, and the
  writer is inside the last frame at the place its step says (`Aligned`,
  `Writing`). A length read at a boundary is then the length of the next command.
* **Timers.** `ArmedIsRegistered` is not inductive: `stop()` of an old timer could
  take away a newer one's registration. `Separate` says that a careful application
  holds or runs no timer whose name another armed timer has.
* **Supervisor.** `RoundRobin`: the workers up to the index have had exactly one
  turn more than the others. `Reachable`: the master gives up a worker's socket
  only after the worker has ended; `Started` and `Handed` tie the start, the sockets
  and the connections together.

* **Router.** `LinksAgree` is inductive. Moving a router is the step with an argument:
  erasing it at its old parent removes the only link to it (`EraseLinks`,
  `EraseForgets`), so that the new link is again the only one.
* **HandlerChain.** Every operator that computes where a request goes on from is shown
  to move it forward only (`Moves`, `Onward`), and to the handlers of the route only
  with a response that has not started (`Fresh`). `AnswerEndsWork` then needs that
  whoever answered has ended the response and whoever sent a file has started it
  (`Starts`), and that the route's handlers run with one that has not ended and after no
  router's file (`Unstarted`), except where a callback is waited for that will not come.
  `GrantedFirst` needs that the rules before the current one have granted (`Asked`).
  `AfterwardsRuns` needs a count of the answers against what has run (`Counted`) and
  the groups of the later handlers that are behind (`PostSoFar`).
* **ViewEngine.** `EngineInv` says, as long as nothing failed, that the agenda has one
  entry and that the calls it still has to return to form a chain, each of whose views
  has an open buffer where its partial view was called from (`Stack`): a page is then
  never written without a buffer, and the chain ends at the client, which has not been
  answered. After the answer the agenda is empty.
* **Precompiler.** `FilesInv` says what each stage of a run guarantees of a template
  that was not disturbed by an edit, a kill or a failed write: a header newer than its template was written from it
  (`Honest`), the template being saved is at the version that was read (`BeingSaved`),
  and those already saved are up to date (`Saved`). Comparing whole seconds with `<`
  is what makes `Honest` inductive: with `<=` an edit in the second of the save would
  pass for saved.

Only model-checked: all liveness properties (fairness and ENABLED are beyond the
provers); the properties of `Connection` other than the two above, and the grant with
policies that answer later; everything about `RequestParser` and `FanPage`, which
compute with recursive operators; the composition of pages in `Views`; the resolution
of urls and the other properties of `Serving`.

## Not modelled

* TLS, socket options and the choice of a server by name; server-sent events.
* What an application's rule looks at (forms, files, tokens), JSON web tokens and
  their cryptography.
* Cookies, header and MIME tables, urls, status texts, configuration and string
  utilities: tables, plain records and conversions without a protocol of their own.
* The fields inside the payload of a command (`cmd.h`).
* The C++ text of generated views between the calls of `ViewBase`, but for conditions,
  `return` and `throw`. Whether a template is stale because one it inherits or imports
  has changed, which the tool does not ask either.
* Failing writes of temporary files, and the removal of those files.
* What orphaned workers do after the end of the master.
