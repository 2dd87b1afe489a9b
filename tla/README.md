# A formal model of vpl

vpl renders Vue-like templates in Go. A template is read into a tree of nodes, the
tree is turned into Vue elements and then compiled into statements, and a render
executes the statements, which write to a `ListWriter`. This directory models the
parts of that pipeline that are hard to test, checks them with TLC on small
instances and proves theorems about them with TLAPS for all instances.

## The system

| Component | State | Operations | Interacts with |
|---|---|---|---|
| Tree construction (`internal/parser/parsehtml.go`) | the tree, one cursor `currNode` | one case of `Parse` per token; `Node.Add`, `Node.Close` | reads the lexer's tokens, hands the tree to the Vue nodes |
| Vue nodes (`internal/parser/parsevue.go`) | the `v-if` the next `v-else` belongs to | `parseList`, attribute distribution to a single root | hands elements to the compiler |
| Compiler (`toStatement`, `groupStatement`, `compileProps` in `statement.go`) | the group being built, the slots collected | append a statement, merge texts, turn static parts into strings | its output is shared by all renders, and is meant to be read-only |
| Interpreter (`statement.go`, `vpl.go`) | scope chain, slots, props of the running component | `Exec` of tag, if, for, component, slot, text | evaluates expressions, calls directives, writes to the writer |
| Style, class, attributes (`ExecAttr`, `execBindProps`, `Props.append`, `margeStyle`) | Go maps made by the compiler, by a render or by the caller | merge sources, write attributes | the maps pass from call to tag by reference |
| Props (`Props`, `PropKeys`) | a map and a linked list of keys | append, iterate | list nodes pass from list to list by reference |
| Concurrent rendering (`<parallel>`, `ListWriter`, `ChanSpan` in `vpl.go`) | a writer per goroutine, a channel per `<parallel>` | write text, write span, `Result`, `Done` | a request waits in `Result` for the goroutines it has started |
| Expressions (`jsexpression.go`) | none | `Exec` of an otto AST | calls user functions |
| Context pool (`ctxPool`) | pooled `RenderCtx` | get, put | used around each evaluation |
| Registry (`Vpl.Component`, `Global`, `Directive`) | three maps | set an entry | read by all renders without a lock |

What is hard here: the goroutines of nested `<parallel>`s and what becomes of them
when a render fails; the compile-time data that concurrent renders share; the maps
and list nodes that go from one owner to another by reference; a parser that has a
cursor where others have a stack. What makes each part correct:

- concurrent rendering: the html is the one that a render on a single goroutine
  gives; every call returns; no goroutine is left behind;
- styles: a render changes neither the compiled page nor its caller's data, and what
  a tag shows depends on its own render only;
- tree construction: a node is the child of the element that is open where it
  stands; end tags that match nothing are ignored;
- Vue nodes: a `v-else` belongs to the `v-if` in front of it;
- interpreter: a slot runs in the scope of the component that declared it;
- props: the keys of one list are not changed through another, and iterating over it
  ends;
- attributes: whichever of three ways a tag takes, an attribute is written once, with
  all that is given for it;
- compiler: what the statements write is what the nodes say, in their order, but for the
  contents of slots that it loses, which are named;
- scopes: an expression reads what its place in the template says, whatever other
  goroutines do, and no map is written while another goroutine uses it;
- expressions: outside of a list of differences, the value is that of ES5, which the README
  promises.

## Modules

| Module | What it is |
|---|---|
| `ParallelRender` | requests, `<parallel>`, `ListWriter`, `ChanSpan` |
| `PageService` | the abstract service: each request is answered once, with the answer of a sequential render |
| `ParallelRenderProofs` | the theorems about `ParallelRender`, and that it implements `PageService` |
| `MCParallelRender` | page shapes for TLC |
| `StyleMaps` | the maps of a style attribute, from compiler, render and caller |
| `StyleMapsProofs` | the theorems about it, for the pages that avoid its defects |
| `MCStyleMaps` | pages for TLC |
| `TreeBuilder` | `Parse`, `Node.Add`, `Node.Close` |
| `OpenElements` | the abstract document: what it means to be inside an element |
| `MCTreeBuilder` | its instance for TLC |
| `VueList` | `VueElementParser.Parse` and `parseList`, the statements of `v-if` |
| `VueListProofs` | the theorems about it |
| `MCVueList` | its instances for TLC |
| `Template` | a program: components, elements, which of them are slots of which call |
| `SlotScope` | the interpreter: options, scopes, slots, errors |
| `LexicalSlots` | the abstract interpreter: what slots mean |
| `SlotScopeProofs` | the theorems about `SlotScope`, and that it implements `LexicalSlots` |
| `MCSlotScope`, `MCSlotLost` | programs for TLC |
| `PropsOps` | what is done to Props: the vocabulary of the next two |
| `PropsList` | `Props` and `PropKeys`: maps with linked lists that share their nodes |
| `OrderedProps` | the abstract ordered map that shares nothing |
| `PropsListProofs` | the theorems about `PropsList`, and that it implements `OrderedProps` |
| `TagAttrs` | the three ways of an attribute to the output |
| `TagAttrsProofs` | the theorems about it |
| `StatementCompiler` | `toStatement`, groups, texts with `{{ }}`, slots, and what the statements write |
| `CompilerProofs` | the theorems about `TreeBuilder`, that it implements `OpenElements`, and those about `StatementCompiler` and `JsExpression` |
| `JsExpression` | the interpreter of expressions |
| `ES5Expression` | what ES5 says of an expression, for comparison |
| `ScopeMaps` | the maps behind scopes, and the pool of contexts, used by concurrent goroutines |
| `ScopeMapsProofs` | the theorems about it |
| `MCPropsList`, `MCTagAttrs`, `MCStatementCompiler`, `MCJsExpression`, `MCScopeMaps` | their instances for TLC |

`ScopeMaps` composes the `<parallel>` of `ParallelRender` with the scopes of `SlotScope`:
what the one leaves out (values) and the other (goroutines) meets there.

### ParallelRender

A *task* is a goroutine: a call of `RenderComponent`/`RenderTpl` or the execution of
one `<parallel>`. `Body[t]` is the sequence of statements that the task comes to:
writes, `<parallel>`s, at most one statement that returns an error. Loops,
conditions and components are unrolled, so `Body` stands for any page and any data;
what is left is the interleaving. A text is a sequence of pieces.

| Code | Model |
|---|---|
| `ListWriter.s`, `.spans` | `buf[t]`, `spans[t]` |
| `ListWriter.WriteString`, `WriteSpan` | `WriteString`, `WriteSpan` with `Flushed` |
| the `parallel` component and its `go func` | `Parallel`, `NilChild`, `FailChild` |
| `ListWriter.Result` | `BeginResult`, then one `ReadString` or `ReadChan` per span, then `EndResult` |
| `ChanSpan.c`, `r`, `getOnce`, `setOnce` | `chan`, `got`, `getOnce`, `setOnce` |
| `ChanSpan.Done`, `ChanSpan.Result` | `Done`, `ReadChan`, which block like the channel does |
| return of `RenderComponent` | `Return`, `FailRequest` |

One action is one access to the shared channel or one access to the task's own
writer; a step of a writer is invisible to the other tasks. The reference is `Doc`,
a constant that is constrained by `DocAssumption` to be the text of a render on one
goroutine.

Properties: `WriterInOrder` relates the writer at each moment to that text,
`SequentialAnswer` the reply; `NoBlockedSender`, `JoinedUnlessFailed` and
`NoGoroutineLeak` say what becomes of the goroutines; `ServiceSpec` is the
refinement, with its liveness.

Fairness: weak, per task. The Go scheduler runs every goroutine that can run, and a
task can be blocked only in its own channel operation, which nobody else can
disable. Requests are made by the environment: no fairness on `Request`. That the
statements of the user end is assumed, as `Body` is finite.

### StyleMaps

A Go map is a location of `heap`. A location belongs to the compiler (`Static`), to
the caller (`User`) or to a render at one tag. A page is a sequence of tags and
component calls, each with the sources of its style in the order of evaluation:
static, variable, object literal, the props of an enclosing call, or a static style
that `compileProp` has made a string. The three paths of the code that merge styles
(`ExecAttr` with `execBindProps`; `Props.append` with `margeStyle` for tags with
directives; the same for component calls) differ only in what they do with a
non-map, and share `TakeFirst`, `Ignore`, `BeginMerge`, `CopyKey`, `EndMerge`.
`Finish` writes the attribute, or keeps the props for the component.

A key is copied per step. When two renders are about to use one map and one of
them writes it, the outcomes are those of the Go runtime: the process dies
(`crashed`) or both go on.

The passing run uses a page in which each merge starts from an object literal: then
the map that is written is new. The violation run uses a page of the documentation,
where it is not.

### TreeBuilder

`label`, `parent`, `attrs` are the tree, numbered in the order of creation (the order
of `Node.Child`); `curr` is `currNode`. There is one action per token kind; blank
texts and tokens that `Parse` only logs leave the state alone. The lexer's order is
taken as given: attributes and the two ends of a start tag come only inside a
start tag (`inTag`). `Closed` is `Node.Close`, `Container` the choice of `Node.Add`.

With `Strict`, an end tag comes only where it matches the innermost open element, or
the void element in front of it (`<br></br>`). The parser has no notion of an open
element; `Inner` computes it from the cursor, and `ReadsDocument` says that with it as
the abstract `top` the parser reads documents as `OpenElements` does. As a refinement
does not tell which abstract step a token takes, `EndTagsClose` adds that each end
tag closes exactly the open element.

### VueList

`parseList` runs over a list of siblings and calls itself for the children of each.
Nodes are numbered as it meets them, and a list (and the call that parses it) is
named by the node it belongs to. Templates are not given but made as they are read:
`Enter` takes any markup, so a run covers every template up to `MaxNodes`.

| Code | Model |
|---|---|
| the loop over the tokens, the recursive call | `Enter` |
| its return, by what the attributes say | `Keep` (into the list), `Attach` (to `ifVueEle.ElseIf`), `Misplaced` (the error) |
| `ifVueEle` of each open call | `ifEle[l]` |
| `vs`, `ElseIf` | `home[n]` |
| `Parse`: a single root `<template>`, the distribution of attributes | `Finish` with `SoleTemplate`, `Distributed` |
| `toStatement` and `ifStatement.Exec` on conditions | `Shown`, `ShownIn`, `Chosen`, for an outcome of the conditions |

`ElseFollowsIf` says which templates are refused, `ElseBelongsToIf` which element each
`v-else` goes to, `RendersAsWritten` compares what is shown, for every outcome, with
the siblings as they are written, and `AttrsToTheRoot` says that the attributes of the
call go to all the elements that can be the one root, and to no other.

An element with `v-if` and `v-else` is put into its own `ElseIf` and is lost; the
templates here have at most one condition per element (`OneMark` in the proofs). Not
in the module: `v-for`, `v-slot`, `v-html`, props, a `v-else-if` with an empty
condition, errors of the compiler.

### SlotScope

`Template` is a program as `toStatement` sees it, with the children of a call that are
statements (`Body`) and the elements with `v-slot` that it collects (`SlotsOf`). What
expressions and directives compute is left open: a `v-if` is true or not, a `v-for`
has any number of rounds, `<component :is>` finds any of its `Targets`.

| Code | Model |
|---|---|
| the Go stack of `Exec` calls | `frames`: the statements left, their options, whether an error is dropped there |
| `StatementOptions` | `opts[o]`: `Slots` (whose call, and `Declarer`) and `Scope` |
| `Scope` | `scopes[s]`: `Parent` and the node whose variables it holds |
| the writer | `out`: each text with the scope it was run in |
| `Exec` of text, Go component, tag, if, for, tag with directives | `Write`, `Inside`, `Skip`, `Round`, `Wrap` |
| `ComponentStatement.Exec`, `<component>` | `Call`, `Missing` |
| the `slot` component, `Slot.Exec`, `SlotsC.WrapScope`, `Slots.Get` | `Slot`, `Fallback`, with `Found`, `Content`, `Wrapped` |
| a returned error and where it is dropped | `Fail` |

`Parent` of the options is only read by the `slot` component, which is called by the
statement that has just made the options: it is the running frame's. A call makes one
scope; the scope of the globals under it is the same for all and left out.

`inst` is a history variable: for each scope the component instance it belongs to and
the scope its call was made in. With it `LexicalSlots` defines what a `<slot>` shows and
where, without options and declarers; `LexicalSpec` is the refinement. `SlotsReplaced`
says it of the single step, against the text of the template. `SeesWhatIsAround` says
of the output that each text has seen the variables declared around it in its own
component, the inner ones first.

The interpreter does this for two kinds of programs only; the others are below, under
the disagreements:

- `NoSlotInLoop`: no `<slot>` is inside a `v-for`, also not in the content of a call
  (the options of a `v-for` have no slots);
- `DefaultsAreBodies`: no `v-slot:default` (it is overwritten by the other children,
  even if there are none), and no dependence on the difference between an empty call
  and an empty default slot.

The variables need neither. `SeesWhatIsAround` is for the programs of
`NothingAroundSlots`: an element with `v-slot` is not itself inside a `v-for`, or a
`v-slot` that names props, of the same call: there the code hands it to the call all the
same, without the variables of the loop. `Forest` says that elements are trees, as the
parser builds them, with roots that are not for a slot. A `<slot>` that is asked by name has props (the name
is one), so that a `v-slot` with a name for them gets its scope. Not in the module:
`RenderParam.Slots`, directives that replace slots or set variables, the values of
variables, and `<parallel>`.

### PropsList

Several `Props`, each built by one goroutine that works through a job (`PropsOps`):
append a key, bind another `Props`, write the attributes of a tag.

| Code | Model |
|---|---|
| `Props.data`, `Props.keys`, `PropKeys.Last` | `data[p]`, `keys[p]`, `last[p]` |
| a `PropKeys` node: `Next`, `AttrWay` | `next[n]`, `way[n]`; a node is named by the `Props` that made it and its key |
| `PropKeys.Append`, `Props.append` | `Link`, `AppendNode`; an append is `AppendKey` |
| `appendProps`, with the loop of `ForEach` | `BeginWalk`, one `BindNode` per node, `EndWalk` |
| `tagStatement.Exec` over its `Props` | `BeginWalk`, one `WriteNode` per node, `EndWalk` |

`PropKeys.Append` copies the first node and links the others as they are, so that a
`Props` that binds another shares its nodes from the second on, and assigns to their
`Next` while others walk over them. `SourceIntact` says that this changes nothing in
the `Props` that is bound: the value assigned is the one that is there. (The
assignment is still unsynchronised; the race detector would report it.) `ListIsOrder`
says that the pointers spell the list to its end and that the list has the keys of the
map; `OrderedSpec` is the refinement of an ordered map, with its liveness: no `ForEach`
runs in a circle. Fairness is weak, per goroutine, as above.

`list[p]`, the nodes in the order they were linked, is a history variable.

Assumed (`BindsAlone`): a `Props` that binds another does so first and gets no key of its
own. That is how the library uses it: the only `*Props` that it binds is the caller's, in
`RenderComponent`. Without it, a key appended after a bind is linked behind the last node
of the other's list, and appears in it.

### TagAttrs

A tag with its attributes, the map of its `v-bind` or, if it is the root of a component,
the props of the call, and what its directives append. `Compile` is the choice of the
compiler among the three ways; each is then taken one attribute or key at a time, in the
order of the code. `OnceWithAll` compares the three with one definition of what is given
for a name, `OrderKept` with the order in which names are first given; `DataStaysInside`
is about the props of a call that are no attributes.

The *sources* of a tag are its attributes, then the map, then the directives, and are
numbered in that order: `Given(i, k)` says that source `i` has something for the name `k`,
`Joined(k)` is the function of how much the first `i` of them come to. A class is a sequence
of names and a style a set of declarations, so that concatenation and overwriting differ as
they do in the code; the rest are texts.

What the properties leave out, since the code means it so or does it whatever the tag:
`ExecAttr` drops an attribute without a value (`<input disabled :id="x">`, `Lost`), which
the two other ways keep; it writes null as `"null"`, a tag with directives as the bare
key; it writes any name that is an attribute of the tag although the comment at
`statement.go:797-800` speaks of `CanBeAttr`; a class or style that is text comes first,
although the comment at `statement.go:745` speaks of the order of the attributes; the
`v-bind` of the root of a component is ignored (`statement.go:1643`); and a `v-bind` of
null panics on a tag with directives (`statement.go:502`) and is nothing on one without.

### StatementCompiler

A document is a sequence of nodes of `Node`; a node has its children and its `v-else` elements
in it. What `toStatement` gives for a node is `ToStatement[node]`, a recursive function: `Compiled`
says what a node is compiled to when its parts are. `ElementStatement` has the steps of
`toStatement` in their order: the statement of the children (`Content`), the tag, template or
call around it (`Own`), `v-if`, `v-for`, and then the slots. `Compile` and `Render` are the two
calls of the library.

A statement that holds others (`tagStatement`, `ComponentStatement`, `ifStatement`,
`forStatement`) is a `Holder`: the pair of its kind and the element that it is made of. What it
holds is found in `ToStatement` of that element: the body of a tag, the slots `given` to a call,
the `own` statement under a `v-if`, the one that a `v-for` runs `once` per item. So statements
are values without depth, and a pointer to a statement is its name. Texts, values and groups are
what they are in the code. `Exec(conds)` is the function of what each holder writes, as a sequence
of pieces, when the conditions are as in `conds`.

`OutputAsWritten` compares the output with `Place`, which reads it off the nodes without groups,
texts or statements: a text by reading on word for word (`ReadOn`), an element by what is written
on it, a call by its children and by the elements with `v-slot` that are `Offered` to it.
`TextsMerged` is the optimisation of `doc/internal.md`, and `WordsKept` says of `parseBeard` that
no word of a text is lost, whatever marks it has.

`Place` gives the call every content that is offered to it, that of a `v-slot:default` and those
in a `<template>` among them. The compiler loses three of these, and `OutputAsWritten` leaves
out the documents that have one:

- `SlotForDefault`: the other children of a call overwrite its `v-slot:default`, even if there
  are none (`statement.go:1759`; the run `slot_default`);
- `SlotInTemplate`: a `<template>` is compiled to a call, which keeps the slots found in it, and
  shows its default slot only (`statement.go:1789`);
- `SlotInElse`: an element with `v-else` and `v-slot` gives an if statement whose alternative is
  nil, and a panic when it is taken (`statement.go:1804`).

Of a text whose marks do not come in pairs (`WellFormed`) only `WordsKept` is said. As the code
does, `Place` closes a void tag that is not static (`</br>`).

### JsExpression

`Evaluated` is `runJsExpression` on every node that it handles, with its conversions of Go
types, given what it returns for the operands; `Value` is the recursion of that over an
expression, `Made` the calls that are made meanwhile, and `Evaluate` is one expression.
Numbers are integers, NaN and the infinities, which are printed right up to two digits; strings
are the bytes of their UTF-8, as in Go.

`ES5Expression` has the reference, `ES5`, in a module of its own, as it is a recursive operator.
It shares the syntax and the representation of values with `JsExpression`, and has its own
arithmetic, texts (UTF-16 units), order, equality and members. It is defined where the head of the
module says: what that list leaves out are differences by design (the types of Go in `==`, `&&`
and `||` that give booleans, the strings `"false"` and `"0"`, conversions of operands of other
types, names that are not there) and what has no value in ES5 (an exception, an identity).
`AgreesWithES5` says that the value is that of ES5, and that the calls that ES5 makes are made.

Three entries of the list contradict `README.md:8` where nobody would look for them: a string's
length is in bytes (`jsexpression.go:451`), two equal numbers of two Go types are not `==` (84), and
both operands of `&&` and `||`, and both branches of `?:`, are evaluated before the choice, so
that functions are called that ES5 does not call (73-98, 177-196). The run has expressions of
each; the property leaves them out.

### ScopeMaps

Requests, and the goroutines of their `<parallel>`s, read variables, set them by
directives, loop and call components. A use of a map lasts from one step to the next, so
that two goroutines can be seen to use one map.

| Code | Model |
|---|---|
| `Scope.Parent`, `Scope.Value` | `scopes[s].up`, `.map`; maps are shared by reference |
| `Scope.GetDeep` | `BeginLook`, `EndLook`: one pair of steps per scope that is asked |
| `Scope.Set` | `BeginSet`, `EndSet`; the first one makes the map |
| `ctxPool.Get`, `Put` | `Open`, `PutBack`; `ctxs[c].by` is the goroutine that has it, 0 in the pool |
| `forStatement.Exec`, `ComponentStatement.Exec`, the `parallel` component | `For`, `Call`, `CallBare` (without props, so without a map until one is set), `Spawn` |
| the text or the error that an expression gives | `Write` |
| `RenderComponent`, `RenderTpl` | `Begin`, then `EnterComponent` (a copy of the props) or `EnterTpl` (`$props` into the caller's own map) |
| `Vpl.Global`, `Function` | `BeginGlobal`, `EndGlobal`, on the map `Prototype` |

A map has for a variable `Nil`, if it is not there, or a value, which may be `Null`: a variable
that is null hides those of the scopes around it, and one that is in no scope reads as null
(`Read`).

The statements that hold a context here are `{{ }}`, `v-for`, directives and calls. `ifStatement`
and `tags` hold one too while their children run, in the same scope and on the same goroutine;
they are left out, so `OwnContext` is not about them.

`NoConcurrentMapUse` and `OwnContext` are about the sharing, `ReadsAsInPlace` compares each
value that is read with that of a render on one goroutine (`env`, a history of each
frame), `CallerDataIntact` is about `Props` that are given to several requests.

They hold under three conditions, each of which TLC needs (`CleanUse`, `Late = FALSE`):
`RenderTpl` gets `Props` of its own (it writes `$props` into them, `vpl.go:287`); a variable
that a `<parallel>` sees is set in front of it, not behind; `Global` is called before the
first render. The code checks none of them, and the documentation names none. `Forking`
names the statements with a `<parallel>` in them, for the second condition.

## Runs

| Run | Bounds | Shows |
|---|---|---|
| `parallel` | two requests, seven goroutines: a page with two `<parallel>`s, one of which nests a third while the other fails; a request that fails after starting a goroutine, which fails after starting one without a default slot | all seven properties; 5 456 states |
| `style_safe` | two renders, six tags and calls, two keys, two static and two caller's maps | neither the page nor the callers' data change, no render shows another's style, no race; 528 states |
| `style_shared` | two renders of the tag of the README's first example | `NoConcurrentMapUse` is violated |
| `tree_strict` | documents of at most five nodes (`MaxNodes`), one attribute each (`MaxAttrs`), two elements, a void one and a text | containers, refinement, end tags; 970 548 states |
| `vue_plain` | every template of at most four nodes (`MaxNodes`), at most one condition per element, comments kept | five properties; 36 181 states |
| `slot_lexical` | a page, a card, a box; at most seven scopes (`MaxScopes`) | four properties; 6 967 states |
| `slot_default` | the program of `test/component_test.go:241` | `SlotsReplaced` is violated |
| `props` | a caller with up to three appends of three keys, two that bind it at the same time, a tag with a directive | four properties, one of them the refinement with its liveness; 50 255 states |
| `attrs` | tags of up to two attributes with four kinds of `v-bind`, of call and three of directives; of three attributes alone | three properties; 80 544 states |
| `compile` | documents of three levels with every control on every kind of element; texts of up to five words and marks | three properties; 49 768 states |
| `expressions` | every operator on every pair of the literals and variables of the run, strings with characters of one, two, three and four bytes among them; calls under the operators that choose; objects and lists | two properties; 27 462 states |
| `scopes` | three requests (two share their `Props`, one is a `RenderTpl`), a `<parallel>`, a loop of at most one round (`MaxRounds`), a call, one without props, three directives, a variable that is null, `Global` before | five properties; 627 598 states |

Why the bounds suffice: two levels of `<parallel>` make a task both wait and be waited
for, and two siblings can end in either order; a third level or sibling adds no new
kind of wait (and the theorems cover any number). Two renders and two keys are what
a race and a partial merge need. Five nodes hold an element with a void element and
a text before its end tag, inside another element, followed by a sibling. Four nodes
hold a `v-if`, something between, and two alternatives, or a chain inside an element
of a chain. The program of `slot_lexical` has each statement of the interpreter, a
content that is shown two calls deeper than it is written (the card forwards its title
to the box), slot props, and an error under each of the places that drop one; seven
scopes are those of a round of the loop, a card, its box, a round of its loop, the
title's props, and the beginning of a second round.

Three keys fill the list of a `Props` up to the third node, the first that is linked
between two shared ones; two that bind it at the same time are what a race needs. Two
attributes and a map meet in every order of first and second source for a name. Three
levels of elements put a slot under a tag under a call. Two operators put a choice under
every operator and a call under every choice. In `scopes` the two requests race for the
scope of the globals and the caller's map, the request and its `<parallel>` for the
request's own scope and the pool.

`style_safe` says what holds when the pages avoid the defects (`FreshFirst`, below);
it is not a statement about all pages.

## Proofs

`ParallelRenderProofs`, for any tasks, requests, bodies and texts:

- `TypeCorrect`, `Invariance`: the invariant `IInv` is the conjunction of the typing,
  of what each program counter implies about the writer (`WriterInOrder` with the
  text to deliver), and of what the state of a task implies about its channel and
  about the task that started it. The last is needed for every other part: that
  the channel holds the text of the task at most once, and that a task is started
  by one statement only, so that nobody else reads its channel.
- `WriterOrdered`, `AnswerIsSequential`, `SenderNeverBlocks`, `JoinsItsChildren` follow.
- `ImplementsService`: every step is a step of `PageService` or a stutter.

They use `TaskAssumption`, `SpawnAssumption` (one execution of `<parallel>` starts
one goroutine), `DocAssumption` and `ReplyAssumption`, which TLC evaluates on the
instances.

`CompilerProofs` about `TreeBuilder`, for documents of any size:

- `ContainersOnly`: the invariant is the typing of the tree with
  `OnlyContainersHaveChildren` itself; together they make `GetParent` of any node a
  node that may be open, which is why two steps up are enough in `Close`.
- `ReadsStrictDocuments`: under `Strict` each token is a step of `OpenElements` or a
  stutter, with `Inner` for `top`.

- `ClosesOpenElement`: each end tag of such a document closes the open element.

They use `TagAssumption` (element names are not leaf kinds).

`CompilerProofs` about `StatementCompiler`, for documents of any size and depth, any conditions,
any slots and any choice of what is static:

- `DocInvariant`: the statement is that of the document, and the output is what it writes
  (`DocInv`). The rest is about what the functions of the model return.
- `TextsAreMerged` (`TextsMerged`): the statements of a group are `Loose`, the last text being in
  the buffer (`Tidy`), and every `Append` keeps that.
- `WordsAreKept` (`WordsKept`) and the theorem below rest on one lemma on groups, `GroupIs`: a
  function of statements that gives a text its pieces one after the other (`Additive`) comes to the
  same over a group as over what has been appended to it. What is written is such a function,
  and so are the words that a statement spells.
- `OutputIsAsWritten` (`OutputAsWritten`): for a text, the word-for-word reader and the two
  splits of `parseBeard` agree as long as the marks come in pairs (`Follows`). For an element,
  `Faithful` says that its statement writes what the element says (but for the three
  contents that are lost), whether it is text, held by a tag, repeated by a `v-for`, chosen by a `v-if` or handed to a call. This is shown for a node from
  the same for all nodes below it, and not only for its parts: the content of a slot comes from
  any depth below the call. That each slot has what is made
  of the element that is offered for it is `SlotsOffered`.

What recursive functions return has to be established before it can be used, since the
definition is a CHOOSE: `Recursion` says that a function of trees exists whenever the step makes
values of a set from those of lower nodes. For `ToStatement`, `Within`, `Offered` and `Whole` the
order is the height of a node; for `Exec` it is the `Rank` of a holder, three per height, as the
`v-for` of an element holds its `v-if`, and that the tag or call. That every statement holds only
statements of a lower rank (`AllRanked`) is therefore a part of the argument: no statement comes
to itself. Inductions are over a set of the numbers or nodes for which a statement holds
(`UpFromZero`, `EverySequence`, `ByHeight`), as the library's theorems take an operator.

They use `NodeAssumption`, `NameAssumption` and `NilAssumption`, and that documents are finite
trees: `Trees(h)`, for some height `h` of the nodes that decreases towards their parts. TLC
evaluates `Trees` on the nodes of the run, for the height `MCHeight`.

`CompilerProofs` about `JsExpression`, for expressions, literals and variables of any depth:

- `ComparisonsAgree` (`CompareBothWays`): the invariant, `EvaluatedOnce`, is that the value is that
  of the expression for the variables it was given. The rest is about the four functions:
  numbers are ordered as floats, of which two that are not NaN are equal or one is less
  (`FloatsCompare`), anything else as strings, where the four share one order. It needs that the
  operands are values, which is shown of every operator and node (`BinaryIsValue`,
  `LookupIsValue`, `ApplyIsValue`) and so of every expression (`ValuesAre`). `ValueIs` says that
  the recursive function `Value` exists.

They use `ExprAssumption`, the shape of otto's syntax tree, and that syntax and values are finite:
`FiniteSyntax(h)`, for some height `h` that is greater than that of every operand, and
`Founded(U)`, for some set `U` of values with the literals, the variables and all they are made
of. TLC evaluates both on the run, for `MCHeight` and `MCValues`. In the proof two defects of the
model came to light, which are repaired: for infinite numbers two arms of the CASE in `Times`, and
in `FloatLess`, overlapped.

`StyleMapsProofs`, for any number of renders and any page that satisfies `FreshFirst`
(a style with several sources starts with an object literal, and no static style
has been compiled to a string; the violation run uses a page that does not):

- The invariant says what a render can refer to (`Known`: the shared maps and the
  maps it has made itself, none of them later than the node it is at), that it
  writes only into the map of its current node (`Local`), and what that map holds in
  the middle of a merge (`Copied`, `Value`). The references are what make the
  values stable: no other render, and no finished node of the same render, has a
  reference to the map that is written.
- `CompiledPageIntact`, `CallersIntact`, `Isolated` and `RaceFree` follow.

They use `PageAssumption` (a `$props` is that of an earlier call), `MapAssumption`
(maps of different owners are different) and `MergedAssumption`, which defines the
reference merge.

`VueListProofs`, for templates of any size in which no element has two conditions
(`OneMark`):

- The invariant says that the open calls are the lists from the innermost to the root
  (`Nested`), that the `ifVueEle` of each is the `v-if` at the end of its chain (`Chains`),
  where the elements that have been read are (`HomesAreNodes`, `FinishedElse`), and what
  the end of `Parse` says of them (`Outcome`).
- `ElseGoesToItsIf` and `RefusesStrayElse` follow.
- `ShowsAsWritten` (`RendersAsWritten`) adds that what is kept in a list is no alternative and
  that parents are elements (`RInv`), and that no `<template>` has a condition
  (`PlainTemplates`), since those of a single root one are dropped. What is shown and what is
  written are both least sets that are closed under "the parent is in it, and the choice at
  the node takes it" (`ByParent`); `ListAsWritten` shows that the two choices are the same in
  each list, chain by chain, and `SetOfParents` that they then have the same least set.
- `AttributesReachTheRoot` (`AttrsToTheRoot`): if the roots are one chain, at most one is
  shown for any outcome (`SingleRoot`); if they are not, the outcome in which every condition
  holds shows two (`TwoRoots`).

`SlotScopeProofs`, for any program:

- `TypeCorrect` needs no condition.
- `OptionsKnowTheirSlots`, with `NoSlotInLoop`: the invariant `IInv` says of the options
  of every statement that may still come to a `<slot>` (`FramesKnow`), and of every
  declarer whose content contains one (`DeclarersKnow`), that they hold the slots of the
  call that the scope belongs to, declared in the scope of that call. The second part
  is needed because the content of a slot runs with the slots of its declarer.
- `ShowsWhatIsWritten` (`SlotsReplaced`) and `ImplementsLexicalSlots` (`LexicalSpec`), with
  `DefaultsAreBodies` as well. They also need that slots are those of component calls
  (`CallersAreCalls`).
- `TextsSeeWhatIsAround` (`SeesWhatIsAround`), with `Forest` and `NothingAroundSlots`: the
  invariant `SInv` says it not only of what is written but of all that is left to run
  (`FramesSee`), and of every declarer at the call it has declared slots for
  (`DeclarersSee`), because that scope is entered again when the slot is shown. A step
  then goes from an element to its children (`VisibleInside`), to the roots of a component
  (`VisibleAtRoot`) or from a call to an element with `v-slot` (`VisibleInSlot`), and the
  scope it makes holds just what becomes visible (`SeesMore`). These rest on what trees are
  like (`AboveParent`, `Nested`, `RootAlone`). `Under`, `Collected` and `Searched` are
  recursive functions: `Fixpoint` shows that each has the value its definition asks for.

They use `ProgramAssumption`, `BodyAssumption` and `SlotAssumption` of `Template`,
`SlottedAssumption` (`Slotted` is closed under what is written around a `<slot>`) and
`NilAssumption`, which TLC evaluates on the programs of the runs, as it does the four
conditions on the program of `slot_lexical`. `BodyAssumption` says what `Body`, a filter
of the children, consists of: the prover has no definition of `SelectSeq`.

`PropsListProofs`, for any number of `Props`, keys and jobs in which a bind comes first:

- The invariant says that a node is assigned to by its owner only, until the owner is
  complete (`NodesInv`): a list has a first node of its own, and its others are its own or
  those of a complete `Props`. Then a chain that has been linked stays (`ChainInv`,
  `EndsInv`), and a bind or a write under way has copied, or written, what is in front of
  its cursor (`CopyInv`, `WriteInv`). The interesting clause is `TailInv`: in the middle of
  a bind the last node of a list does not end it, but already leads on into the list that is
  bound. A step of one `Props` frames those of the others (`Framed`), because what a bind
  assigns to a node that it does not own is the Next that the node has.
- `ListsKeepOrder`, `SourcesIntact`, and `ImplementsOrdered`: appends, and the ends of binds
  and writes, are the steps of `OrderedProps`; what happens in a walk does not show.

They use `PropsAssumption`, with `BindsAlone`, which TLC evaluates on the jobs of the run.

`ScopeMapsProofs`, for any templates, data, requests and number of goroutines:

- The invariant `Base` says that scopes, maps and contexts that are referred to are there
  (`Stores`), that the frames of a goroutine have scopes that grow from the bottom up
  (`GoodThread`), that a context of the pool belongs to the one goroutine and the one
  expression or call that has it (`AllOwn`), and that the map of a caller is in a scope only
  if a `RenderTpl` has put it there. `TypeCorrect`, `PoolIsOwned` and `CallersUnchanged` follow
  and need no condition. What a `For` or a `Call` pushes is proved about once, in the lemmas
  on stacks.
- `NoMapRaces` and `ReadsInPlace` need the three conditions above: `~ Late`, `OwnProps` and
  `SetsBeforeParallel`. Their invariant `Discipline` says that two scopes share no map
  (`Separate`), that no goroutine searches a scope into which another one will set something
  (`AllApart`), that a scope which is still to be set is not handed to a `<parallel>` before
  (`SetsFirst`), and that from each frame's scope a search finds what `env` says (`StackSees`),
  the scopes it has been to having nothing (`Walked`). The last two tie a value to its place:
  a search that is under way finds it, whatever the others do between two of its steps. The
  scopes that a search goes through are a least set again (`Chain`).

They use `NodeAssumption`, `ForkingAssumption` and the others of the module, which TLC evaluates on the
templates of the run.

`TagAttrsProofs`, for tags with any attributes, maps and directives:

- `Type` and `WayInv` are the types and what each of the three ways comes to: which loops it
  runs, and that what has been compiled is what the tag says.
- `DataIsNotShown` (`DataStaysInside`) needs no condition. Its invariant `DataInv` says of
  each name that is no attribute where its value comes from, and that on the way through
  `Props` it is shown only if a directive has given it first.
- `AttributesInOrder` (which leaves out class and style on the way of `ExecAttr`) and
  `OnceAndWhole` are about templates that write and bind no attribute
  twice (`AttributesOnce`), as HTML wants it and as all the tags of the run do; without it the
  text way writes both. `KeysInv` says that the keys are those that a source has given, in
  that order; `ValsInv` that the value of each is `Joined` of the sources asked so far
  (`Seen`), up to what null means on each way (`Means`); `OutInv` that the output has first
  the keys that `ExecAttr` or `genAttrFromProps` write at once (`Direct`), and then a prefix of
  the others without the hidden ones. Each step is one of three: it sets a key (`Sets`),
  writes one at once, or asks a source that has nothing (`Passes`).
- `Joined` is a recursive function; that it exists is proved with a least number of sources
  for which it does not (`JoinedFolds`).

They use `KeyAssumption`, `ValueAssumption` and `TagAssumption`, which TLC evaluates on the
tags of the run.

`TypeCorrect` of `CompilerProofs` needs no condition on the documents; those of
`StyleMapsProofs` and `VueListProofs` are for pages with `FreshFirst` and templates with
`OneMark`, like the other theorems of these modules.

Only model-checked: the liveness parts of `ServiceSpec` and `OrderedSpec` and
`NoGoroutineLeak` (liveness is out of the prover's reach); and `AgreesWithES5`, whose `ES5` and `SameValue` are
recursive operators, which the prover cannot use. That `FreshFirst`, `OneMark`, `NoSlotInLoop`, `DefaultsAreBodies`
and `NothingAroundSlots` are needed is what the violation runs and the remarks on
`SlotScope` and below show.

## Disagreements with the documentation

Two runs show one each:

| Run | The text | The code |
|---|---|---|
| `style_shared` | `statement.go:568`: no run-time code modifies the compile-time; `vpl.go:45`: the instance is shared by renderings | a render writes into the map of a static style, concurrent renders write it at the same time |
| `slot_default` | `test/component_test.go:278` expects the content of `#default` | it is overwritten by the empty rest of the call |

Seen while modelling; the modules have the steps, and the runs keep to inputs that do
not come to them, or the properties leave these out:

| The text | The code |
|---|---|
| `parsevue.go:218`: the attrs of a call go to the single root | a static style on a call is compiled to a string, which `execBindProps` ignores (`statement.go:627`) |
| `parsehtml.go:127`: an end tag with nothing open is ignored | nil is dereferenced (`parsehtml.go:129`) |
| `parsehtml.go:112`: an end tag that matches nothing is ignored | after a void element it closes the open element (`parsehtml.go:107`) |
| `doc/syntax.md:18`: use `template` instead of `div` | the conditions of a single root `<template>` are dropped, and its alternatives with it (`parsevue.go:214`) |
| `doc/syntax.md:73`: `<slot>` is replaced by the content | in a `v-for` it is replaced by its own children (`statement.go:1078`) |
| `doc/syntax.md:18`, again | an element with `v-slot` in a `<template>` is not handed to the call around it, as one in a `<div>` is (`statement.go:1789`) |
| `README.md:8`: ES5 expressions | `&&`, `\|\|` and `?:` evaluate all their operands (`jsexpression.go:77`, `179`) |
| `README.md:8` | the length of a string is that of its UTF-8 (`jsexpression.go:451`) |
| `README.md:8` | `==` of two numbers is false if one is an `int` or a `float64` and the other an `int64` (`jsexpression.go:84`) |
| `vpl.go:14`: no side effects at run time | `RenderTpl` leaves `$props` in the `Props` of its caller (`vpl.go:287`) |
| `statement.go:745`: attributes in the order they are written | a class or style that is text comes first |

## Plan

Done: the modules above. To come, in this order:

1. Directives that replace the slots or the `Props` of a tag, and slots that a Go program
   hands over in `RenderParam`.
2. Logical time: the response takes as long as the slowest chain of `<parallel>`s, as
   `vpl.go:109-110` promises.

## Not modelled

The lexer is a copy of the third-party tdewolff/parse, the JavaScript parser is the
third-party otto: the models take the tokens and the syntax tree as given. Escaping, the
formats of numbers and of json, `ForInterface`'s list types and the printing of statements
are conversions without state, on which no property depends. Files, logging, benchmarks and
examples are not modelled. Of the registry, `Component` and `Directive` are assignments to
maps of the kind that `Global` stands for in `ScopeMaps`.
