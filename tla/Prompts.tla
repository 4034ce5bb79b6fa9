------------------------------- MODULE Prompts -------------------------------
(***************************************************************************)
(* Prompts and what they embed (src/resources.rs): placeholders are filled *)
(* one argument after the other, in the order of a hash map; a structured  *)
(* prompt also reads resources, and a database resource the one connection *)
(* of the process, opened at the first read.                               *)
(*                                                                         *)
(* A text is a sequence of words; "{a}" is the placeholder of argument a.  *)
(* An argument is a string, so a text, or another JSON value.              *)
(***************************************************************************)
EXTENDS Naturals, Sequences, SequencesExt, FiniteSets, TLC

CONSTANTS
  PromptTexts,    \* texts a prompt may have
  ArgTexts,       \* strings a client may send as an argument
  PromptNames,
  MAX_PROMPTS,    \* 10 000 in the code
  DbPaths,
  MaxPromptSteps  \* bound of a behaviour

VARIABLES
  prompts,        \* the registered prompts, in order
  request,          \* the last prompts/get: [name, args, order]
  said,           \* its answer
  dbPath, dbConn,   \* DATABASE_PATH and CACHED_DB
  readings,       \* history: the databases that were read
  steps

promptVars == <<prompts, request, said, dbPath, dbConn, readings, steps>>

Hole == [a |-> "{a}", b |-> "{b}"]
ArgNames == DOMAIN Hole
NotText == <<"(a number)">>      \* a JSON value that is not a string

ASSUME TextsAssumption ==
  \A t \in PromptTexts \cup ArgTexts : t \in Seq(Range(t)) /\ NotText[1] \notin Range(t)

Nothing == [ok |-> FALSE, text |-> <<>>, blocks |-> <<>>]
PromptsInit ==
  /\ prompts = <<>>
  /\ request = [prompt |-> 0, args |-> <<>>, order |-> <<>>]
  /\ said = Nothing
  /\ dbPath = "unset" /\ dbConn = "none" /\ readings = {}
  /\ steps = 0

PromptStep == steps < MaxPromptSteps /\ steps' = steps + 1

\* A prompt with blocks is a structured one, of a registry of its own; a block
\* is a URI template, or "text" for the prompt's text.
Structured(p) == p.blocks # <<>>

\* register_prompt and register_structured_prompt: a name may come twice.
RegisterPrompt(p) ==
  /\ PromptStep
  /\ Cardinality({i \in DOMAIN prompts : Structured(prompts[i]) = Structured(p)}) < MAX_PROMPTS
  /\ prompts' = Append(prompts, p)
  /\ UNCHANGED <<request, said, dbPath, dbConn, readings>>

\* A mutant of Replaced: the first occurrence only.
ReplacedOnce(text, k, value) ==
  LET at == {i \in DOMAIN text : text[i] = Hole[k]} IN
  IF at = {} THEN text
  ELSE LET i == CHOOSE i \in at : \A j \in at : i <= j
       IN SubSeq(text, 1, i - 1) \o value \o SubSeq(text, i + 1, Len(text))

\* str::replace of one placeholder.
Replaced(text, k, value) ==
  FlattenSeq([i \in DOMAIN text |-> IF text[i] = Hole[k] THEN value ELSE <<text[i]>>])

\* The loops of get_prompt, get_structured_prompt and expand_uri_template.
Filled(text, args, order) ==
  LET upTo[n \in 0..Len(order)] ==
        IF n = 0 THEN text ELSE Replaced(upTo[n - 1], order[n], args[order[n]])
  IN  upTo[Len(order)]

\* A mutant of Strings: every value is kept.
StringsAll(args) == args

\* handle_prompts_get keeps the arguments that are strings.
Strings(args) == [k \in {k \in DOMAIN args : args[k] # NotText} |-> args[k]]

Found(name, structured) ==
  LET at == {i \in DOMAIN prompts :
               prompts[i].name = name /\ Structured(prompts[i]) = structured}
  IN IF at = {} THEN 0 ELSE CHOOSE i \in at : \A j \in at : i <= j

\* get_db_connection: an open connection is kept, a failed open is not.
Opens == IF dbConn # "none" THEN {dbConn}
         ELSE {"none", IF dbPath = "unset" THEN "memory" ELSE dbPath}

\* A mutant of Block: a resource that cannot be read is left out.
BlockDropped(b, text, args, order, db) ==
  IF b = "text" THEN << [kind |-> "text", of |-> Filled(text, args, order)] >>
  ELSE IF b = "file" THEN << [kind |-> "resource", of |-> <<b>>] >>
  ELSE IF b = "db" /\ db # "none" THEN << [kind |-> "resource", of |-> <<db>>] >>
  ELSE <<>>

\* One block of a structured prompt: filled text, the resource at the expanded
\* URI, or a text that says it is not available.
Block(b, text, args, order, db) ==
  IF b = "text" THEN << [kind |-> "text", of |-> Filled(text, args, order)] >>
  ELSE IF b = "file" THEN << [kind |-> "resource", of |-> <<b>>] >>
  ELSE IF b = "db" /\ db # "none" THEN << [kind |-> "resource", of |-> <<db>>] >>
  ELSE << [kind |-> "text", of |-> <<"not available">>] >>

\* prompts/get, and get_structured_prompt, whose arguments are strings.
GetPrompt(name, structured, sent) ==
  /\ PromptStep
  /\ structured => Strings(sent) = sent
  /\ \E order \in SetToSeqs(DOMAIN Strings(sent)), db \in Opens :
       LET i == Found(name, structured)
           args == Strings(sent)
           missing == i # 0 /\ ~ (prompts[i].required \subseteq DOMAIN args)
           uses == i # 0 /\ ~ missing /\ \E j \in DOMAIN prompts[i].blocks : prompts[i].blocks[j] = "db"
       IN
       /\ request' = [prompt |-> i, args |-> sent, order |-> order]
       /\ said' = IF i = 0 \/ missing THEN Nothing
                  ELSE [ok |-> TRUE, text |-> Filled(prompts[i].text, args, order),
                        blocks |-> FlattenSeq([j \in DOMAIN prompts[i].blocks |->
                          Block(prompts[i].blocks[j], prompts[i].text, args, order, db)])]
       /\ dbConn' = IF uses THEN db ELSE dbConn
       /\ readings' = IF uses /\ db # "none" THEN readings \union {db} ELSE readings
  /\ UNCHANGED <<prompts, dbPath>>

\* A mutant of SetDatabasePath: the connection is dropped.
SetDatabasePathReopens(path) ==
  /\ PromptStep
  /\ dbPath' = path /\ dbConn' = "none"
  /\ UNCHANGED <<prompts, request, said, readings>>

\* OnceLock::set: the first path stays.
SetDatabasePath(path) ==
  /\ PromptStep
  /\ dbPath' = IF dbPath = "unset" THEN path ELSE dbPath
  /\ UNCHANGED <<prompts, request, said, dbConn, readings>>

\* The prompts of a behaviour, and what may be sent for their arguments.
Candidates ==
  {[name |-> n, text |-> t, required |-> r, blocks |-> b] :
     n \in PromptNames, t \in PromptTexts, r \in {{}, {"a"}},
     b \in {<<>>, <<"text", "db", "gone">>, <<"file", "text">>}}
Sendings == UNION {[K -> ArgTexts \union {NotText}] : K \in SUBSET ArgNames}

PromptsNext ==
  \/ \E p \in Candidates : RegisterPrompt(p)
  \/ \E n \in PromptNames, structured \in BOOLEAN, sent \in Sendings :
       GetPrompt(n, structured, sent)
  \/ \E path \in DbPaths : SetDatabasePath(path)
PromptsSpec == PromptsInit /\ [][PromptsNext]_promptVars

-----------------------------------------------------------------------------
\* Every placeholder with an argument replaced at once: what a template means.
AtOnce(text, args) ==
  FlattenSeq([i \in DOMAIN text |->
    IF \E k \in DOMAIN args : text[i] = Hole[k]
    THEN args[CHOOSE k \in DOMAIN args : text[i] = Hole[k]] ELSE <<text[i]>>])
Plain(args) == \A k, l \in DOMAIN args : \A i \in DOMAIN args[k] : args[k][i] # Hole[l]

\* Filling a prompt one argument at a time gives what the template means, at
\* every occurrence and whatever the order of the map, as long as no argument
\* itself contains a placeholder of another.
FilledAsMeant ==
  said.ok /\ Plain(Strings(request.args)) =>
    said.text = AtOnce(prompts[request.prompt].text, Strings(request.args))

\* A prompt that is answered shows no placeholder of a required argument: a
\* value that is not a string is no value.
RequiredShown ==
  said.ok /\ Plain(Strings(request.args)) => \A k \in prompts[request.prompt].required :
    \A i \in DOMAIN said.text : said.text[i] \notin {Hole[k], NotText[1]}

\* A structured prompt answers with one block for each of its own, in order:
\* a resource that is gone or a database that does not open costs its content
\* and nothing else.
BlocksKept ==
  said.ok => Len(said.blocks) = Len(prompts[request.prompt].blocks)

\* All reads of a process come from one database, whenever the path was set.
OneDatabase == Cardinality(readings) <= 1

\* An answered prompt says what its template means with these arguments, keeps its
\* blocks when a resource or the database fails, and reads one database throughout.
PromptsHonest == FilledAsMeant /\ RequiredShown /\ BlocksKept /\ OneDatabase

-----------------------------------------------------------------------------
(* Claims that do not hold; the README's table says why. *)

\* The answer is what the template means, for every argument: it does not
\* depend on the order of the map.
FilledAsMeantAlways ==
  said.ok => said.text = AtOnce(prompts[request.prompt].text, Strings(request.args))

\* The path that was set is the one that is read.
PathHonoured == dbPath # "unset" => readings \subseteq {dbPath}
=============================================================================
