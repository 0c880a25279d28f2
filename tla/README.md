# A formal model of ModelicaCC

ModelicaCC compiles Modelica models: it parses them, flattens their classes,
removes alias equations, and causalizes them, which is to say that it turns an
unordered set of equations into a sequence of assignments that can be executed.
The causalization of `causalize/sbg_implementation` is where the program's own
reasoning is. It translates the model to a set-based graph (SBG), in which one
set-vertex stands for a whole array of equations, runs graph algorithms on it
and walks the result. This directory models the way of a model through the
program in TLA+: the grammar that reads it, the flattening, the alias elimination,
the causalization with the texts it shows, the equation solver, and the printers
that hand a model to the next tool. TLC checks the modules on small instances, and
TLAPS proves for every instance what matters most of four of its parts: the
generator of the graph, the causalization from the matching to the causal model,
the lists of the equation solver, and the alias elimination.

## The system

### Components

| Component | Source | State it keeps | Operations | Behaviour that is hard | What makes it correct |
|---|---|---|---|---|---|
| SBG input generation | `generate_sbg_input.cpp`, `util/sbg/ast_visitors` | the ModelicaSBG under construction | `addVariableNodes`, `addEquationNodes`, `addEdges`, `generateSBGInput` | maps are written over translated numbers; visitors that stop early; errors halfway | the pairs joined by edges are the occurrences of unknowns in equations |
| ModelicaSBG | `util/sbg/modelica_sbg.cpp` | set-vertices, set-edges, two offsets | `addSetVertex`, `addSetEdge`, `setVertex`, `setEdge` | two numberings of edges, offsets that are overwritten | numbers are given out once |
| Causalization stages | `causalize.cpp`, `horizontal_sorting.cpp`, `algebraic_loops_detection.cpp`, `tearing.cpp` | one result object per stage | `sort`, `detect`, `detect` | systems that are not square, or have no full matching | each stage gets what the one before promises |
| SBG builders | `builders/causalization_builders.cpp` | input and output graph, three maps over their vertices | `buildLoopDetectionSBG`, `buildTearingSBG`, `VerticalSortingBuilder::build` | one graph is edited in four steps, with three sets of numbers (vertices, guess vertices, edges) | the result has no cycle and lost no dependency |
| Vertical sorting | `vertical_sorting.cpp` | the walk over loops, the walk over vertices, the formatter's residual equations | `sortLoops`, `sortLoop`, `format` | dereferences that assume a successor; state kept between calls | the causal model can be executed from first to last |
| ModelicaSBGModifier | `vertical_sorting.cpp` | the model, its symbol table and its ModelicaSBG | auxiliary variables, guess and residual equations | the two numberings of edges meet; dimensions of scalar variables | every torn unknown gets one guess and one residual |
| SBG library | submodule, not in the repository | | matching, components, feedback vertex set, topological order | | see "The library" below |
| Equation solving | `util/solve/solve.cpp` | solved equations, the range of the last loop | `Solve` (three forms), `updateForEquationRange`, `splitAuxVars`, `groupForEquations` | elements are split off and moved, ranges turned round, loops merged | every unknown is defined once, before it is read |
| Unrolling | `causalize/common/for_unrolling` | iterator position | `next`, `hasNext`, expansion | boundary of the iteration | each instance once |
| Flat class | `mmo/mmo_class.cpp` | variables, equations, tables of types and of variables | the constructor, `insertElement`, `addVar`, printing | three views of the variables; conditional declarations | they agree |
| Alias elimination | `antialias/remove_alias.cpp` | lists of equations and statements, variables, symbol table | `removeAliasEquations`, `alias` | erasing from the list that is walked, chains of aliases, replacing by a visitor | the model that is left has the same solutions, and nothing that was removed is referred to |
| Flattening | `flatter/`, `dot_expression.cpp`, `flatter_for.cpp` | classes under construction, tables per scope, the graph of the connections | `Flat`, `LevelUp`, the class finder, `GenerateSBGInput` | a value is moved up and prefixed level by level; tables that are read while they grow; traversal state left over from an inner loop | the flat class has the variables, values and equations of the instances |
| Parser | `parser/` | none but the position | one rule of the grammar per construct | alternatives that are not tried after an expectation point has failed | what a tool prints is read as what it was |
| Syntax tree | `ast/` | trees | printing, comparison | parentheses, and what a printer leaves out | the same |
| Syntax tree visitors | `util/ast_visitors/` | tables that they look names up in | evaluation, folding, searching, replacing | a kind of node a visitor does not know; folding that changes the shape | an expression keeps its value |
| Feedback vertex set benchmark | `test/performance/scalar/mfvs.cpp` | alive vertices, solution, trail of undo records | `heuristic`, `compress`, `erase`, `restore`, `undoUntil` | undoing in the right order | what is found cuts every cycle |
| Profiler, tools | `util/profiler.cpp`, `*/main.cpp` | the profiler's stack of scopes | | | |

The program is sequential: one thread, no callbacks from outside, no message
and nothing that persists. A run calls the components in the order parser,
flattening, alias elimination, causalization, and inside the causalization the
order SBG input generation, horizontal sorting, algebraic loop detection,
tearing, vertical sorting, equation solving. Each hands its result object to the
next. What is hard here is not interleaving but long sequences of steps over
shared numbers: an element has a number as an index of an array, another as a
vertex, another as an edge and perhaps one as a guess vertex, and maps between
these are composed, restricted and inverted without any check. Nondeterminism
comes from the library, whose algorithms may return any of several results, and
from the order of sets. `PROJECT.json` lists the hazards line by line.

### The library

`SBG::LIB` is a submodule whose source is not in the repository. Its operations
on sets, piecewise maps and graphs are in `SBGraphs`, pointwise: a set of the
library is a set of numbers, a piecewise map a function. Its algorithms are
modelled by what their callers may rely on, and every result that meets this is
a possible choice:

- *matching*: a set of edges that meets each equation and each unknown once, if there is one (`FullMatchings`);
- *strongly connected components*: a representative for each vertex, the same for the vertices of a component (`IsSCC`);
- *feedback vertex set*: any set of vertices without which no cycle is left (`FeedbackVertexSets`). It is not asked to be minimal: the builder must cope with any;
- *topological order*: an order of the vertices that respects the edges and keeps the vertices of a loop together (`Orderable`). Whether it also starts and ends a loop where `rmap_starts` and `rmap_ends` say is a parameter, `Pinned`, and the runs with `Pinned = FALSE` show what holds without it.

## The modules

| Module | What it models |
|---|---|
| `SBGraphs` | sets, maps and graphs of the library; `IsSystem`, a bipartite graph of equations and unknowns |
| `ModelicaSBG` | the class ModelicaSBG |
| `SBGInput` | GenerateSBGInput: from a flat model to the bipartite graph; extends `ModelicaSBG` |
| `CausalizationBuilders` | the stages from the bipartite graph to the graph that `VerticalSortingBuilder::build` leaves |
| `VerticalSorting` | extends it with the topological order and the walks that write the causal model |
| `EquationSolver` | EquationSolver: from the causal model to the assignments that are written |
| `Expressions` | expressions, their values, and what PartialEvalExpression, ReplaceExpression and the other visitors do on one node |
| `ExpressionVisitors` | the visitors themselves, as recursive operators; extends `Expressions` |
| `RemoveAlias` | RemoveAlias: from a flat model to one without aliases; extends `Expressions` |
| `CausalOrder` | the abstract specification: what a causalization promises |
| `CausalizationProps` | properties of the whole causalization, and its refinement of `CausalOrder` |
| `CausalFormat` | `Causalize::causalize` on a model: `SBGInput` composed with `CausalizationBuilders`, and the texts the first three stages are shown as |
| `ModelicaSBGModifier` | extends it with the class of this name and the text of the vertical sorting |
| `CausalFormatProps` | what these texts say of the model |
| `Syntax` | expressions: the printer, the grammar and the comparison |
| `Visitors` | the evaluators, PartialEvalExpression, ReplaceIndex and the visitors that search; extends `Syntax` |
| `GiNaCInterface` | the conversion of expressions to GiNaC and back; extends `Visitors` |
| `ScalarSolve` | one equation that is read, solved, printed and read again; extends `GiNaCInterface` |
| `MMOClass` | the flat class: modifications, tables, the constructor |
| `Flattening` | `Flatter::Flat` with its stack of calls; extends `MMOClass` |
| `ConnectionGraph` | the graph of the connections; extends `Flattening` and `ModelicaSBG` |
| `InstanceTree` | the instances that a file declares, worked out without flattening, and the properties of the flattening |
| `ModelGrammar` | the rules for classes, modifications, equations and statements, as records |
| `ModelParser` | what reading by a rule returns; extends `ModelGrammar` |
| `ModelText` | the printers of a flat class, and models that go from tool to tool |
| `MCCausalization`, `MCSBGInput`, `MCRemoveAlias`, `MCEquationSolver`, `MCCausalFormat`, `MCScalarSolve`, `MCFlattening`, `MCModelText` | small systems, models and files for TLC |
| `SBGraphLemmas`, `CausalizationProofs`, `CausalizationWalk`, `CausalizationModel`, `SBGInputProofs`, `EquationSolverProofs`, `ExpressionLemmas`, `RemoveAliasProofs` | lemmas about the operators of `SBGraphs` and about what visitors return, and the theorems |

`SBGInput` ends where `CausalizationBuilders` begins: its invariant
`BuildsSystem` says that the graph it writes satisfies `IsSystem`, which is the
assumption `SystemsAssumption` of the other, and `CausalFormat` runs the one after
the other on one model. `RemoveAlias` and `EquationSolver`
stand on their own: their input is a flat model and a causal model, which the
`MC` modules enumerate. `ScalarSolve` opens what `EquationSolver` takes for an
operator, the solving of one equation, down to the text. What `VerticalSorting` promises of a causal model, that it
can be executed from first to last, is what `OrderKept` asks the solver to keep.

Definitions whose comment begins with "mutant" are not part of the model. Each is a
slip the code might have had (an offset forgotten, a restriction left out, two
arguments swapped), kept beside the definition it would replace; with it the
property named in `PROJECT.json` fails, which shows that the property
depends on that piece of code.

### State and actions of the causalization

A vertex of the directed graphs is a matched edge of the bipartite graph: an
equation with the unknown it is solved for. `stage` is the point that
`Causalize::causalize` has reached.

| Action | Code |
|---|---|
| `HorizontalSorting` | `HorizontalSorting::sort`, with its two early ends, `unbalanced` and `higher index` |
| `AlgebraicLoopsDetector` | `buildLoopDetectionSBG` and the components; `Ediff` are the edges between components |
| `TearingDetector` | `buildTearingSBG` and the feedback vertex set; `out` starts as a copy of the graph |
| `addGuessVertices` | a guess vertex per tearing variable, numbered from `maxv` on; edges that leave a tearing variable within its loop leave its guess instead |
| `endPoints` | each loop ends in one of its tearing variables and starts in the guess of it |
| `addDependencies` | edges between the tearing variables of a loop |
| `redirectEdiff` | an edge between loops goes from the end of the one to the start of the other |
| `TopologicalSorting` | one vertex of the order per step |
| `sortLoops`, `sortLoop`, `sortVertex`, `nextLoop`, `Sorted` | `VerticalSortingResult`: the outer and the inner walk, and `MatchToModelicaFormat::format` |

Where the program dereferences the first piece of a map that may be empty, the
model goes to the stage `undefined`. `format` moves `_residual_zero` into the
result and leaves moved-from equations there, which are entries of the kind
`moved`.

### State and actions of the input generation

A model is a sequence of declarations and a sequence of equations, each with the
range of its counter and its operands. `addVariableNodes`, `addEquationNodes`
and `addEdge`/`noEdge` take one turn of the loop of the same name;
`addOccurrence` adds one set-edge and sets its two maps; `refuseEquation` and
`refuseEdges` are the calls of `ERROR`, which end the program.
`matchedExps` is MatchingExps with its short circuit, and
`createMap1` and `createMap2` give the coefficients of the maps that the
functions of these names return. One dimension is modelled, and the subscripts
`i + b`, `b - i` and `b`; where the code drops the result of `cartesianProduct`,
or replaces an expression by zero, the hazards say so.

### State and actions of the alias elimination

`equations`, `initial_eqs`, `statements`, `initial_sts`, `syms` and `variables` are the members
of the flat class, the first four being the lists in which `alias` replaces; `pos` and `aliased` are the locals of the walk. An action is
one turn of the loop over the equations: `AliasEquality` and `AliasForEq` erase
the equation, call `alias` and leave the loop by `break`; `PassEquality` and
`PassForEq` go on, the first of them with the evaluated sides written back.
`NoSymbol` is a name that is looked up and not found, which ends the program;
`While` is the test of the outer loop. `normalized` is the series of
rewritings that brings an equality to the form *reference = something*, and
`saidBy` and `ForAliasesOf` are the cases that follow. What
PartialEvalExpression and ReplaceExpression do is given kind by kind (`partialEvalBy`,
`replaceBy`), because what they drop is the question: what a visitor does on a node takes the visitor
as a parameter. The visitors are constant operators of `Expressions`; the run gives them the recursive
operators of `ExpressionVisitors`, and the proofs assume only that they do on each node what is said there (`Visitors`).

`SameSolutions` gives the equations their values and compares the
solutions of the model that was read with those of the model that is left. A
solution is a valuation of the names at an instant and of the states at the
next, so that `der` has a meaning without real numbers; the equations without
`der` hold at both, the initial equations at the first.

`NoAliasLeft` says what is removed by saying what is left. An equality, outside of loops, compares its two sides,
or the two operands of a sum or difference that is zero (`Compared`). If, without their signs and parentheses, one of the two
terms is a variable that is no state and the other a variable or a number (`Useful`), the variable has been removed, unless
the comparison has one of four forms, which the code does not recognise (an element of an array is no variable here, and
no alias for the code):

- `Wrapped`: a term has parentheses or a sign too many. PartialEvalExpression puts each negative number in parentheses
  (`partial_eval_expression.cpp:32`), and RemoveAlias takes only a bare number for one. `b = 0 - 1` is an alias, since a number that
  evaluation makes is bare, but a following `a = b` is then left as `a = (-1)`. Whether `b = a + (-1)` with `a = 0` is an alias
  depends on whether a scan came by it before. `0 - (-a)` becomes `-(-a)`;
- `OppositeOfState`: a state stands on the left of its opposite, `x = -c` or `x + c = 0`. The case `a = -b` asks only
  whether the left side is a state (`remove_alias.cpp:115`), whereas `a = b` removes either side;
- `NumberFirst`: a zero sum or difference that begins with a number, `1 + a = 0`. A number is brought to the right only
  before the sum is taken apart;
- `NegativeToNegate`: a negative number whose sign must change, `-a = -1` or `a + (-1) = 0`. Evaluating the opposite gives
  the number in parentheses. `-a + 1 = 0` comes to it in two steps.

### State and actions of the equation solver

`causalized` and `grouped` are the two results, `last_range` the local of
`groupForEquations`, and `lists` the four lists `guess_eqs`, `rest_eqs`, `res_eqs` and
`unmatched_eqs` into which the `Solve` of one match takes it apart. `SplitMember` is one
turn of its loops over the members of the match; the code splits off the unmatched ones
first, solves, and then splits the others, which is the same because neither loop looks at
more than the member in turn. `SolveMatch` is the end of this call and of one
turn over the causal model: the four lists one after another (`order`), with what is
`written` for each member. `GroupEquation`
is one turn of `groupForEquations`; `CannotSolve` is the `abort()` after GiNaC has found no
solution, which may happen for any system. What GiNaC answers is `lsolve`: for each
unknown an equation that reads what the equations it depends on read, the
unknowns of the system excepted. An equation is a range and a body, the members of a body are
abstracted to what they define
and what they read, with subscripts `a*i + b`, because turning a range round
changes `a` and `b`. The properties read a list of equations as a program: `Points` are its
equations, the turns of each and the members of each turn, `Before` is the order in which they are run,
and `defines` and `reads` say what a point finds and what it needs.

### State and actions of the texts of the causalization

`CausalFormat` has the variables of `SBGInput` and, under the names of
`CausalizationBuilders`, those of the stages; `cstage` is the stage that comes next.
`matched` is the ModelicaSBG of the horizontal sorting, `horizontal_sort`, `loops` and
`tearing` are what the three results show, and `output` and `added_variables` are the
members of ModelicaSBGModifier. An action is a stage with its text, or one call of
`modify`: `addVarsDeclarations`, `partition`, `addGuessMatchs`, `modifyResidualMatchs`.
An element of a set-vertex is a number, and the properties ask for each number which
equation and which unknown of the model it is, and compare that with what the text says
at that counter. A torn scalar dereferences the dimensions it has not: the stage
`undefined`. The causal model itself is the subject of `VerticalSorting`, which takes
the graph alone.

### State and actions of the flattening

`stack` holds the calls of `Flat` that have not returned, each with the class it has
changed so far and the variables it has still to look at. `FlatBuiltin` and
`FlatComponent` look at the next variable: the first finds its type built in, the
second calls `Flat` for the class of a component; `Return` is the end of such a call with
`LevelUp`, which moves variables, equations and statements one level up and joins the
prefix; `Unresolved` is the end of the program by `ERROR`, and so is `NoClass`, when a value
that is moved up names a type; `Finish` and
`removeConnectorVar` are the rest. `addVariableNodes`, `addSetEdges`, `addSetEdgeOf` and `buildGraph`
are the calls of GenerateSBGInput of `src/flatter`. Classes, modifications and tables
are records as in the code, and `findTypeByName`, `resolveType`, `applyArgument` and the other functions of the
class finder are operators with their order of steps.

`InstanceTree` has nothing to do with any of this: it follows the declarations of the
file from the outside to the inside, with the modification that holds for each
instance, and lists the elements, their values, the equations and the connections.
The properties compare the two.

### State and actions of expressions and model texts

A text is a sequence of tokens; characters, white space and comments are left out,
and a name is one token, with its dots. `ScalarSolve` passes an equation from file to
file: `ReadFile` parses it, `SolveTrivial`, `SolveByGiNaC` and `CannotSolve` are the three
ways of `Solve`, `Copy` the tools that leave it as it is, `EndTrivial` an end by `ERROR`
in a visitor, `WriteFile` the printing. Expressions have values, exact fractions with an undefined one,
in every state of `States`. What GiNaC itself does, solving a linear equation and ordering its terms, is
modelled from what the code does with the answer.

`ModelText` passes a class from tool to tool: `print` and `ParseFile`, which reads a
text and makes a MMO_Class of it, or refuses it. The grammar is data: a rule of the
parser is a record, one per rule of the source and in its order, and `read` says what
Boost.Spirit does with it, the expectation points included, which end the parsing where
another rule could still have matched. `keptClass` is the least that is lost when a class
is written, and `Writable` says for which classes the printers write a text the grammar has.

## The runs

| Run | Instance | Question |
|---|---|---|
| `one_tearing` | every system of up to three equations and unknowns, every matching, at most one tearing variable per loop, any order within loops (`Pinned = FALSE`) | is the causal model written to the end, can it be executed, and is every such run one of `CausalOrder`? |
| `any_tearing` | every system of three with a full matching, any tearing variables, pinned | is the built graph orderable, is each dependency in it, is each equation written once? |
| `tearing_ordered` | systems of up to two, and three chosen ones with two loops; up to two tearing variables per loop | violated: see the first finding |
| `plain_models` | 119 models of two or three equations over a state array, an array, a scalar and a parameter; some are refused | is the graph that is written the graph of the model? |
| `two_arguments` | models with two elements of an array in one call | violated: see the fourth finding |
| `aliases` | 4074 models of three equations: every pair of ten scalar aliases with a third equation out of fifteen, in every order; every two of eight terms, with and without a sign, as an equality, a zero sum and a zero difference, beside another alias or none; for equations over two arrays, whole and from 2 on, with scalar aliases and an element of an array | has what is left the same solutions? is nothing that was removed referred to, is no alias left but those of the four forms? does the walk that starts again and again end, and is each of its steps one towards the end? |
| `sorted_models` | 4162 causal models of up to three matches over three arrays and a scalar | is everything defined once and before it is read? is what is checked to be zero kept? |
| `shown_models` | models of two to four equations over arrays and scalars: arrays of loops, a loop over a part of an array, loops through a derivative, parts of arrays that are matched apart; every matching and every tearing of up to two variables per loop | do the texts of the four stages say what the graphs say? does the changed graph show each vertex once, and the torn equations with their auxiliary variables, which are declared? |
| `solved_texts` | every operand pair and a choice of triples for each operator, `if`, calls, subscripts, `der`; solved for an unknown, or copied; two files | does the equation that is written have the solution of the one that was read? do evaluators, folding and searches agree with the values? is the tree that was printed read? |
| `flat_models` | files with one or two parts out of ten classes, with modifications, arrays of one and two dimensions, a replaceable type, conditional declarations, inheritance; connections in and out of loops; files that end the program | does the flat class have the variables, values, equations and connections of the instances, and does the program end for the other files only? |
| `array_values` | arrays of a part in which a value refers to another variable of the part | violated: see the seventh finding |
| `model_files` | some 530 classes, one for each form of a modification, an element, an equation, a statement, a section and an external part, and pairs of some | is a class that goes through three tools the class it was, and is a text refused only for what no printer can write? |

**Bounds.** Three equations are the least with which there is a loop of more
than two vertices, two loops joined by an edge, a loop beside a vertex of its
own, and a loop with two or three tearing variables; all graphs of that size are
enumerated and none picked. `MaxTearing` bounds the tearing variables of a loop:
a system that has no feedback vertex set within the bound ends in the stage `out
of bound`. With `MaxTearing = 3` no system of three is cut off. The bound 1 of
`one_tearing` is a statement, not an economy: with two tearing
variables the findings below make `ResidualsZeroAtEnd` and `Executable` false.
In `plain_models` the second and the third equation have edges whose translation
is positive, so every map is checked with an offset; the counters start at one
and at two and have steps one and two.
In `aliases` values are -1, 0 and 1, the least set that tells a
sign from its absence and a number from zero; a sum outside of it has no solution
in the model that was read nor in the one that is left. Three equations are needed for an
alias to be made by the replacement of another. In `sorted_models` a loop has three
turns, so that there is one that is neither first nor last, and three matches are the
least of which two can be merged beside one that is not; the models
are all those of that size that can be executed, which is what the stage before
promises. In `shown_models` a loop has two or three turns, so that an array can be torn as a
whole, in part, and in one element. In `solved_texts` three operands are the least for which
parentheses matter, and two files the least for which a printed text is read; the
valuations give a variable two values, so that an expression that lost its variable shows.
In `flat_models` parts are two levels deep below the model, so that a value crosses a
level that is neither first nor last. `Rounds = 3` of `model_files` reads a text
that was printed from a text that was read.

**Fairness.** `Spec` has weak fairness of `Work`, and `InputSpec` and `ASpec`
of their next step: the program is sequential and goes on while a step is enabled. Nothing
stronger is assumed. No choice of the library is assumed to be fair, since
`Terminates` and `AnswersTheModel` hold for all of them. In the runs of the
causalization, of its texts, of the input generation and of the flattening `Stopped` states step to
themselves, so that deadlock is checked; `RemoveAlias` and `EquationSolver`
stop at their end, and `AliasTerminates` says that the former gets there.
`EquationSolver`, `ScalarSolve` and `ModelText` go through lists of a fixed length, and nothing is stated of
their progress.

### What the runs found

The runs `tearing_ordered`, `two_arguments` and `array_values` show a finding each. The
others come from the same configurations with another value of `Models` or of `MaxTearing`, named with them.

1. `addDependencies` adds no edge between tearing variables. It numbers the new
   edges from the largest edge on and then restricts them to `not_loops`, which is
   a set of *vertex* numbers; `edges_to_start_point` is never given a value.
   The header says it "Adds edges between tearing variables to induce an order
   between them." The order of the tearing variables of a loop is then up to the
   topological sorting, and if the one the loop ends in is written before the
   guess of another, the causal model is not executable.
2. `format` moves `_residual_zero` at every call and never clears it. In a loop
   with a second tearing variable the equations `res = 0` come in the middle, and
   moved-from equations follow. (`ResidualsZeroAtEnd` in `TearingOrdered.cfg`.)
3. `createMap2` subtracts the translation of the set-edge from the constant part
   of the subscript expression. That is right for `i + b` and, by an
   exception in the code, for scalars. A constant or a decreasing subscript in a
   for equation and an array of a single element end at another unknown, or
   outside of the graph, as soon as the set-edge is not the first. (`OccurrencesJoined` with `Models <- OtherSubscripts`.)
4. MatchingExps visits the arguments of a call with `matched || ApplyThis(e)`, so
   that `f(a[1], a[2])` has one set-edge.
5. In a for equation RemoveAlias compares the names of the two references and the
   end of the loop with the size of the arrays, and neither the subscripts nor the
   step: `u[i] = v[N + 1 - i]`, `u[i] = v[1]` and every second `u[i] = v[i]` are
   taken for `u = v`. (`SameSolutions` with `Models <- OtherLoops`.)
6. `groupForEquations` merges neighbouring loops of one range whatever they read. A
   second loop that reads ahead in what the first computes reads it too early. (`OrderKept` with `Models <- ReadAhead`.)
7. A value in an array of components is repeated with `fill` for each element, as the
   comment "adjust for arrays" has it, and then its references are prefixed without a
   subscript: `parameter Real p = T` in `G a[2]` becomes `a_p[2] = fill(a_T, 2)`, in which each
   element is the whole array.

With at most one tearing variable per loop, subscripts `i + b` and no call with
two elements of one array, everything that is stated of the causalization holds; what
is stated of the solver holds for loops that read what was computed before
their turn.

The models of `aliases` and of `sorted_models` also leave out traits that the code does not
treat right. The `MC` modules have a definition for most of them: with it as the value of
`Models`, the property named here fails.

- `Opposites`, `RemovedEverywhere`: `a = b` and `a = -b`. After the first, the second
  reads `b = -b`; its sides are not compared, `b` is removed and each `b` becomes
  `-b`, and the next walk ends the program with "No symbol b".
  `RemovedUnlessCyclic` is the property with this case excepted.
- `ElseIfs`, `SameSolutions`: ReplaceExpression drops the elseif branches of each if
  expression it meets.
- `StateIsNumber`, `SameSolutions`: the case `a = K` does not ask whether a is a state. `der(x) = b + b` becomes
  `der(1) = b + b`, an equation without a derivative, which then holds at the next instant too.
- `ArrayStatements`, `RemovedEverywhere`: ReplaceStatement looks for the very reference
  of the for equation, subscript included, so that an element of a removed
  array stays in a statement.
- `StepsDown`, `EachUnknownOnce`: `updateForEquationRange` drops the step of a range
  that goes down by more than one.
- The case `a = K` does not ask whether `a` is a state, and puts the number inside of
  `der`. The models have no state that is a number.

The families of the new modules leave out, in the same way, what the code was seen to do wrong. These
are hypotheses of the properties and are listed here with the place:

- *Expressions.* A quotient by zero that PartialEvalExpression folds is what the conversion of an infinite number to
  an integer makes of it, which the language leaves open. `UnknownNumber` stands for it. `X = 2/0` is in `solved_texts`,
  where the number serves only to look for the unknown; `2/0 = X`, which would write it, is left out.
  PartialEvalExpression drops the parentheses around a number that it has folded,
  so that `a - (-1)` is written `a--1`, `a^(-1)` as `(a^-1)`, and `c/(-(-a*b))` as `c/a*b`;
  it folds quotients of integers as integers, and so do ReplaceIndex and EvalInteger, for which `2^(-1)` is 0.
  ConvertToGiNaC turns relations, if expressions, a unary plus and unknown functions into 0 with a warning,
  takes `u[i*2]` for an offset, and gives different symbols to `u[i]` and `u[i-0]`. ContainsExpression and the
  comparison of if expressions do not look at elseif.
- *Printing.* The comment and the annotation of a declaration are kept in its `VarInfo` and not printed, so that
  they are gone after the first file. A `final` and the comments inside of a modification, the prefixes of a redeclared
  component and the comments of equations are not printed; an import, a replaceable argument and the
  subscripts of a short class are printed as one word, an enumeration without its literals, a type with two subscripts in two
  pairs of brackets, a call statement without arguments without its call.
  The constructor of ElRedecl with one argument leaves `each` and `final` out.
  `prettyPrintModel` inserts the annotation before the last "end" of the text, which for `Pendulum` is inside the name.
- *Flattening.* The symbols of a component capture a modifier: `Resistor r(R = R)` becomes `r_R = r_R`.
  Subscripts are never prefixed, nor the arguments of a class modification. A condition of a declaration is decided before
  the modifications are known, and never in a public or protected section. In an array of an array of components the
  repeated value has the wrong rank. `a_b` and `a.b` collide; a class that is inherited twice has its variables twice.
  A connection of a whole array joins the first element, and one with a constant subscript in a loop another
  element than it names.
- *Texts of the causalization.* When an array is torn in part, the residual is added to the whole array (`modifyResidual`
  changes the set-vertex in place), and when two elements of one array are torn apart, both auxiliary variables have the same
  name. The condition `WholeArrays` of `TornEquationsShown` and `AuxVarsDeclared` excludes these. A torn derivative is
  taken for a Reference and ends the program; loops with different counters are refused.

## What is proved

`SBGraphLemmas` has the facts about the operators of `SBGraphs` that the proofs
rest on: what restriction, composition, combination and inversion of maps
return, that erasing and adding vertices and edges keeps a graph well-formed, and
that a non-empty finite set of numbers has a least and a largest element.

`CausalizationProofs` and the two modules that extend it prove, for every set of
systems, every matching, every set of components, every feedback vertex set and every bound:

- `Types`: `Spec => []TypeOK`;
- `Invariance`: `Spec => []IInv`;
- `AlwaysOrderable`: `Spec => []OutputOrderable`. The graph that
  `VerticalSortingBuilder::build` leaves has no cycle but a vertex that reads its own
  unknown, so that `TopologicalSorting` cannot get stuck;
- `NothingLost`: `Spec => []DependenciesKept`, also there. What an
  equation reads within its loop comes before it, as itself or as its guess, and
  what it reads of another loop orders the two loops;
- `StartsOnce`: `Spec => []OneStartPerLoop`, also there. Each loop has one vertex in
  `end_points`, by which `sortLoops` finds it;
- `SortTypes`: `Spec => []SortTypeOK`, in `CausalizationWalk`;
- `WalksDefined`: `Spec => []NeverUndefined` when `KeepsEnds`, also there. Both walks find the
  vertex they look for at each turn. `KeepsEnds` is `Pinned \/ MaxTearing =< 1`: the order keeps to the ends
  of the loops it is given, or a loop has at most one tearing variable;
- `WrittenOnce`: `Spec => []EveryEquationOnce` when `KeepsEnds`, in `CausalizationModel`. The
  finished model has every equation once and every guess once;
- `CanBeExecuted`: `Spec => []Executable` when `MaxTearing =< 1`, in
  `CausalizationModel`. What an equation reads has been solved or guessed before it;
- `Implements`: `Spec => ImplementsCausalOrder`, under the same condition. This is the refinement
  that `OneTearing.cfg` checks: the causalization does, step by step, what `CausalOrder` allows;
- `ZerosAtEnd`: `Spec => []ResidualsZeroAtEnd`, under the same condition.

`OutputOrderable` speaks of the last graph only, so it is not inductive. `IInv`
follows the graph through the stages. Its central part, `EdgesOK`, sorts the
edges into three kinds: *within* a loop, from a vertex that is not a tearing
variable to an original vertex; a *dependency*, from a tearing variable to
the last of its loop; and *between* two loops that an original edge joins. The
other parts say where the ends of these edges are: `GuessOK` (guess vertices are new
and belong to the loop of their tearing variable), `EndpointsOK`, `TornOK` (the
tearing variables cut every cycle of a loop) and `LoopsOK` (the
components are ordered). The argument for acyclicity is then short: in any set of
vertices take the loop that no other loop of the set precedes; in it take a guess
vertex, which nothing within a loop precedes, or else a vertex that the
others do not precede because the tearing variables cut the loop, or else a
tearing variable other than the last.

`TypeOK` also needs what the stages have *not* done yet (`NotYet`): maps that are
still empty, and the starts of the loops being vertices of the graph. Its proof
takes `IInv` as given.

`DependenciesKept` and `OneStartPerLoop` also speak of the last graph only. `KInv`
says of each edge where it has come to: an edge within a loop starts in the
`guess_offset` of its old start as soon as there are guesses (`InnerKept`), the
starts are the guesses of the last vertices once these are known (`StartsKnown`),
and an edge between loops has been moved to both (`OuterKept`). `addEdges`
keeps an edge that is there under the same number, so what
`addDependencies` adds does not matter. `IInv` tells which loop an end
point is in, and so that there is no other in that loop. The values that
`addGuessVertices` and `endPoints` compute are the lemmas `GuessGraph` and `LastOfLoop`,
which both invariants rest on.

`NeverUndefined` is about what the walks will do next, so its invariant has to say where in the order
they are. `OrderOK` says of the order that each loop lies together in it, from its start to its last
vertex. `EndsRespected` has two reasons for it: `Pinned` asks it of the library, and with one tearing variable
in a loop nothing else is possible (below). `SortFacts` gives the map of the order, in which a
vertex leads to the one before it, and `LoopBefore` that of the loops, in which the start of a loop leads to
that of the loop before. `AtLoop(p)` then says that `sortLoops` is at the loop that starts at position `p` and has
written all before it, and `AtVertex(p, q)` that `sortLoop` is at position `q` of this loop. A turn takes `q` to
`q + 1`, the end of a loop takes `p` to the `q` it has come to, and as long as a vertex is left there is one at
that position. When there is none left the walk is over.

`PlacedUpTo(q)`, in `CausalizationModel`, relates the entries written so far to the order: but for the equations
`res = 0` they are those of the vertices before position `q`, each at one place, and in that order. `VertexStep` adds
position `q` to it, and `EveryEquationOnce` is what it says at the end of the order.

`CausalizationModel` then needs no more of the entries than `PlacedUpTo`; the rest is about the order.
`ReadEdge` turns what an equation reads into an edge of the loop detection graph, for which the matching must take every equation
and every unknown once (`MatchingInjective`). `DependenciesKept` has shown where this edge has come to. Within a loop
it leads to the vertex from what it reads or from the guess of it, and `PredecessorsFirst` says which comes first. Between
loops it leads from the last of the one to the start of the other; the one is complete by then, and the other has not
begun (`ReadBefore`). A residual equation also reads its own unknown, and its guess comes first because
the loop starts with the guess of its last vertex: this is where one tearing variable in a loop is needed (`GuessBefore`).
The refinement follows turn by turn: what the vertex in turn needs is `known`, and it is not known itself.

With one tearing variable in a loop these theorems ask nothing of the library but that the order respects the edges and
keeps the loops together, as `OneTearing.cfg` does. `RInv` has what this takes: only a loop of several vertices is
torn (`NotAlone`), no two tearing variables share a loop (`OneTorn`), and what is on the order follows all that precede
it (`PredecessorsFirst`). Any part of a loop but the whole is read by the rest of it (`PartRead`). In a
loop that the order has not begun, every vertex but the guess therefore has an edge in the built graph from another
vertex of the loop or from the guess, so that the order can only begin with the guess (`StartsUnpinned`). And if a part of the loop were left
when its tearing variable is put on the order, a vertex that is there already would read it (`EndsUnpinned`). With
several tearing variables both fail.

The kind *dependency* has no instance in the code as it is, because
`addDependencies` loses its edges. The proof does not use this: it would still
stand if the edges to the end point were added.

`SBGInputProofs` proves of the generator, for every set of valid models, with arrays of any
size, loops of any length and any number of equations and occurrences:

- `InputInvariance`: `InputSpec => []InputInv`;
- `NumbersOnce`: `InputSpec => []NumbersGivenOnce`. No two set-vertices and no two
  set-edges share a number, and the look-up of a set-edge by its identifier finds the one that
  was just added;
- `GraphIsSystem`: `InputSpec => []BuildsSystem`, when every model satisfies `UnitSubscripts`. The
  graph that is written is what the causalization takes for granted: this is
  `SystemsAssumption` of the theorems above;
- `GraphIsModel`: `InputSpec => []OccurrencesJoined`, when every model satisfies `UnitSubscripts` and
  `OneMatchPerTerm`. The graph joins an instance of an equation and an unknown if and only if the
  unknown occurs in it.

`NumbersGivenOnce` says nothing of the offsets, so it is not inductive. `VerticesApart` and `EdgesApart`
do: the offset is the largest number given out so far, and each set-vertex, each
set-edge, lies above those before it. An element is at least 1 and no set is empty, so that
the next one lies above the offset and raises it; a loop whose counter starts at 0 would take
the largest number of its predecessor, and `IsModel` excludes it. `EdgesJoin` says what the
maps of a set-edge were made from: a set-vertex of an equation, one of a variable and an
access that occurs in the one and reads the other. With `VerticesStand`, the elements of a set-vertex
are the instances of its equation or the elements of its array, so both ends of each edge are
worked out (`EdgeValues`): the translation of the set-edge cancels when the counter has the coefficient 1,
or when the offset is written without it. It does not for the subscripts that
`UnitSubscripts` leaves out (point 3 above).

That no edge is wrong follows from `EdgesJoin`; that none is missing takes `GraphInv`, which counts the turns. `PlacedSoFar` says
which variables and equations have a set-vertex, and `PlacedOnce` that none has two. `JoinedSoFar` says that the pairs whose
turn is over are `Handled`: there is a set-edge for each occurrence of the one in the other. While `addEdge` runs, what is left is in
`matched_exprs`. This holds at its start because matchedExps misses no occurrence when a term has one match only
(`NoneMissed`); `OneMatchPerTerm` leaves out the calls of point 4 above. At the end each pair has had its turn (`PairTurn`).

`EquationSolverProofs` proves of the solver, for causal models of any length, loops of any range and
step, bodies of any size and any subscripts `a*i + b`:

- `Invariance`: `ESpec => []EInv`;
- `ZerosAreKept`: `ESpec => []ZerosKept`, of every causal model whatever. What is checked to be zero
  is kept for every value of its counter: it is never turned, solved or dropped;
- `UnknownsOnce`: `ESpec => []EachUnknownOnce`, when every model satisfies `TurnsByOne` and
  `Unambiguous`. Each unknown that the causal model matches is defined exactly once in what is written;
- `OrderIsKept`: `ESpec => []OrderKept`, when every model satisfies `TurnsByOne` and `ReadsBehind`. Nothing
  that is written reads an unknown before it is defined.

The three properties speak of the end, when an equation has been split off, solved, turned and
merged, and of all points of two programs, so `EInv` says where each equation has come to. A member of the causal
model is a pair, match and position. `Split` says that each list holds the positions of its members seen so far, in
increasing order; `Taken` that there is a map from the equations of `causalized` to the members of the matches done so far
that misses none and follows the order of the matches and, within one, of the four lists (`Earlier`), and that what stands there
is what is `written` for the member; `Placed` that there is a map from the equations grouped so far
to places of `grouped`, one for each and in the same order, under the same range, and that of
neighbours with one range all lie in one loop (`OneRange`). `SplitOrder` and `TakenNext` are the steps of the first part,
`PlacedAppend` and `PlacedMerge` those of the second. At the end the two maps together give each member its place. `TurnedAt`
is the arithmetic of a range that is turned: at start + end - i the access turned round is the access at i, and
turn `c` of the new loop has this value when turn `c` of the old one has the value i (`WrittenAt`). So
each point of the result has a point of the model that defines the same (`SamePoint`), and the other way
(`EveryPoint`).

The hypotheses are where the code goes wrong or asks something of the stage before. `TurnsByOne` is needed because the step of a
descending range is dropped: `StepsDown` has models without it for which `EachUnknownOnce` fails. `Unambiguous` is what a matching
gives: no unknown is matched twice. `ReadsBehind` is needed because of the grouping: two loops of one range are run turn by turn
once they are merged, so that what an equation reads of the
first must not lie ahead of its own turn (`Behind`; the models `ReadAhead` do not keep to it, and
`OrderKept` fails), and because an equation may be moved behind another one of its match, which has to be the right order for what
it reads. `MCEquationSolver` asserts the three of every model of `sorted_models`, so that the run shows a set of models that
satisfies them.

`RemoveAliasProofs` proves of the alias elimination, for models of any number of equations:

- `ScanInvariance`: `ASpec => []Walked`;
- `NoneLeft`: `ASpec => []NoAliasLeft`, when the models are `Regular` and made of expressions, of any depth;
- `StepsLower`: `ASpec => EachStepLowers`;
- `RemovedForGood`: `ASpec => []RemovedUnlessCyclic`, when the models are `Regular` and made of
  expressions, of any depth;
- `SolutionsKept`: `ASpec => [](Sound => SameSolutions)`, when the models are also `Comparable`, no if expression has an
  elseif branch, and the opposite of a value is a value (`Symmetric`). What is left has the solutions of the model that was read.

`NoAliasLeft` speaks of the end, and the walk starts again after each alias. `Walked` says where the walk is: a scan that has
come to `test` with `aliased` false has come past the last equation. `PassedInv` says that as long as `aliased` is false what
`NoAliasLeft` says of an equation holds of those before `pos`. It is kept because an equation is passed only when nothing was
read from it, and because a comparison of use that has none of the four forms is read as an alias (`UsefulIsRead`): the two
terms reach the last case of the walk with at most a sign moved to the right one, whichever of them comes first and
whether they are the sides of an equality or the operands of a sum or a difference (`ComparedRead`); there a variable and
a number (`NumberCarried`), and two variables of which one is no state (`VariableCarried`), give an alias. What
evaluation makes of the opposite of each term is needed for it, hence the assumptions on the visitors. In `StepsLower` each
alias takes an equation away, and any other step leaves less to do (`phase`); this is the argument for termination, of which
the liveness property that TLC checks is the consequence under fairness.

`RemovedForGood` is about expressions. `ExpressionLemmas` says what the visitors
return, for any set that is an `IsExpressionSet`: the least set that is closed under the
constructors (with or without elseif branches). A set of expressions that has an expression
whenever it has its parts is then the set of all of them, which is the form in which
induction over expressions is within the prover's reach (`Induction`). `Visitors` says that each visitor does
on each node what `Expressions` says of it; the recursive operators of the run do. By it, folding invents no reference
(`PartialEvalNames`), and a replacement leaves those that do not match and those of what it puts in (`ReplacementNames`). The
invariant has two parts. `FormInv` is what can be read off the lists at any time: arrays have a subscript
wherever they occur and nothing else has one, and statements have no arrays. It makes the comparison of whole references in
ReplaceStatement as good as one of names. `GoneInv` says that the names that occur, those in the
table and those in the list are related as `RemovedEverywhere` says, as long as no removal was of the kind of
`b = -b`. The list has each name once, so that removing its first occurrence removes the name. The hypothesis `Regular`
leaves out `ArrayStatements`, for which the property fails; `MCRemoveAlias` asserts it of every model of `aliases`.

`SolutionsKept` needs the values. `ExpressionLemmas` proves, by the same induction, that folding an expression does not change
its value (`PartialEvalValue`), and that a replaced expression has the value of the old one wherever its references
do (`ReplacementValue`). From there the argument goes equation by equation. Evaluating both sides in place leaves an equation that
says the same (`EvaluatedAlike`); so does each of the rewritings of `normalized`, which move a sign, a number or a zero to the
other side (`SignMeans`, `ZeroMeans`, `NormalizedMeans`). The equation that is erased then says neither more nor
less than that the removed variable has the values of what replaces it, at both instants (`Says`, proved in
`EqualitySays` and `ForEquationSays`). A solution of what is left therefore extends to the removed variable in exactly
one way (`WithoutAndWith`), and each other equation holds of the extension if and only if the replaced one holds of what
is left (`ReplacedEquation`): one alias keeps the solutions (`AliasSolves`), and so do many, because forgetting the removed
variables one after the other is forgetting them together (`ProjectsTwice`). The invariant is `SolvedInv`, by which
what is left at any time has the solutions of `input`; it stands on `FormInv` and `GoneInv`.

Its hypotheses are again the places where the code goes wrong or the property ends. `Comparable` asks that a for equation of two
arrays runs through them element by element, which the code does not check (point 5 above), and that the initial equations
derive no variable that the equations do not derive. Without elseif branches nothing is lost in ReplaceExpression.
`Sound` says of the removals so far that none was of the kind of `b = -b`, that no state was replaced by a number,
and that the numbers are among the values. A state that is replaced by a number leaves `der` of a number (the case `a = K` does
not ask whether a is a state): the equation around it has no derivative left,
so `Solutions` asks of it that it holds at the next instant too, which it did not ask before. That the values are closed under
opposites and have the numbers holds when they are all integers; in the run they are -1, 0 and 1.
`MCRemoveAlias` asserts `Regular` and `Comparable` of every model of `aliases`, and checks `SameSolutions` there without
`Sound`.

The assumptions are those named in the modules: `SystemsAssumption` (the input is
a bipartite graph), `ModelsAssumption` (of `SBGInput`: subscripts are within bounds and counters count from one on; of
`EquationSolver`: only the types, and that no step is 0; of `RemoveAlias`: finite lists and names),
`MaxTearingAssumption`, `PinnedAssumption`, the hypotheses `UnitSubscripts`, `OneMatchPerTerm`, `TurnsByOne`, `Unambiguous`,
`ReadsBehind`, `Regular`, `Comparable` and `Symmetric`, that expressions are finite trees and visitors do what `Expressions` says (`IsExpressionSet`, `Visitors`), and what is said above of the
library. TLC evaluates them on the instances, except `IsExpressionSet`, which is of an infinite set, and `Symmetric`, which is plain.

## Only model-checked

The texts of the causalization, the scalar solver, flattening and model texts; `SameSolutions` of `RemoveAlias` for
expressions with elseif branches. `Syntax`, `InstanceTree` and `ModelParser`
need recursive operators, which the prover cannot use. The liveness properties stay with TLC: the prover has no
rule for fairness or ENABLED that would apply here.

## Not modelled

- Arrays of several dimensions in the causalization. The code itself refuses them at some places and drops
  results at others; in the flattening they are modelled.
- ModelicaSBGModifier and the walk of the vertical sorting on one graph: `ModelicaSBGModifier` shows a vertex at a time,
  `VerticalSorting` orders vertices. `sortLoop` joins both.
- Loops over several counters and systems of more than one equation in `GiNaCInterface`.
- Imports, inner and outer in the flattening; statements are flattened as far as their references.
- The conversion to Micro Modelica (`to_micro`, `convert_equation`), a structural rewriting with a discrete variable
  for each relation.
- The two unrollings of for equations and the feedback vertex set benchmark, which the tools do not call.
- Characters, white space, comments and the error messages of the parser; the profiler, option parsing, JSON and dot
  output; GiNaC and Boost.Spirit, which are modelled from their use.

Theorem to prove next: `StagesShown` of `CausalFormatProps`.
