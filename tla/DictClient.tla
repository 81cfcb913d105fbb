----------------------------- MODULE DictClient -----------------------------
(***************************************************************************)
(* Package dict: callers share one connection to a dictionary server.      *)
(* Commands are sent as they come; textproto.Pipeline gives each a number  *)
(* and lets their answers be read in that order.  The server answers the   *)
(* commands it reads, in their order, with lines; some of its headers are  *)
(* malformed.  A character is "x", "y" or one that the syntax knows.       *)
(***************************************************************************)
EXTENDS Integers, Sequences, SequencesExt, FiniteSetsExt

CONSTANTS
    DictCallers,
    DictCommands, \* per caller: "dicts", "define"
    Headers       \* what the server heads a definition with: [words, line]

VARIABLES
    dictConn, \* [state, next, turn, skips]: of the connection and the pipeline; skips: a
              \* part of an answer was left unread
    caller,   \* each caller: [pc, id, left, defs, error, read]
    toServer, \* commands, [id, kind]
    answers   \* lines that are not read: [of, kind, value]

dictVars == <<dictConn, caller, toServer, answers>>

Idle == [pc |-> "idle", id |-> 0, left |-> 0, defs |-> <<>>, error |-> FALSE, read |-> {}]
Malformed == -1
Line(of, kind, value) == [of |-> of, kind |-> kind, value |-> value]

-----------------------------------------------------------------------------
(* fields and unquote: the words of a line, none if its quotes are wrong. *)

Space == {" "}
Quotes == {"'", "Q"}
Escape == "E"
Special == Space \cup Quotes \cup {Escape}

Unquote(s) ==
    LET from[i \in 1..Len(s) + 2] ==
            IF i > Len(s) THEN <<>>
            ELSE IF s[i] = Escape THEN <<s[i + 1]>> \o from[i + 2] ELSE <<s[i]>> \o from[i + 1]
    IN from[1]

\* The place of the quote that ends the string which s[i] begins, 0 if none does.
Closing(s, i) ==
    LET from[j \in i + 1..Len(s) + 2] ==
            IF j > Len(s) THEN 0
            ELSE IF s[j] = Escape THEN from[j + 2]
            ELSE IF s[j] = s[i] THEN j ELSE from[j + 1]
    IN from[i + 1]

\* The word at s[i] and where it ends; it is 0 if no quote closes it.
Word(s, i) ==
    IF s[i] \in Quotes
    THEN LET close == Closing(s, i)
         IN [end |-> IF close = 0 THEN 0 ELSE close + 1, word |-> Unquote(SubSeq(s, i + 1, close - 1))]
    ELSE LET end == Min({j \in i..Len(s) : s[j] \in Special} \cup {Len(s) + 1})
         IN [end |-> end, word |-> SubSeq(s, i, end - 1)]

Fields(s) ==
    LET from[i \in 1..Len(s) + 1] == \* [ok, words]
            IF i > Len(s) THEN [ok |-> TRUE, words |-> <<>>]
            ELSE IF s[i] \in Space THEN from[i + 1]
            ELSE LET w == Word(s, i) IN
                 IF w.end = 0 \/ (w.end <= Len(s) /\ s[w.end] \notin Space)
                 THEN [ok |-> FALSE, words |-> <<>>]
                 ELSE LET rest == from[w.end] IN
                      [ok |-> rest.ok, words |-> IF rest.ok THEN <<w.word>> \o rest.words ELSE <<>>]
    IN from[1].words

-----------------------------------------------------------------------------
(* The client. *)

\* Dial: the server greets with 220, or the connection is closed.
Greeted ==
    /\ dictConn.state = "new"
    /\ \E s \in {"open", "closed"} : dictConn' = [dictConn EXCEPT !.state = s]
    /\ UNCHANGED <<caller, toServer, answers>>

Goes(c, pc) == caller' = [caller EXCEPT ![c].pc = pc]

\* Cmd: a number, and the command goes out.  If it cannot, the number stays without an
\* answer, and those that come after it wait for theirs.
Cmd(c) ==
    /\ dictConn.state \in {"open", "broken"}
    /\ caller[c].pc = "idle"
    /\ \/ /\ dictConn.state = "open"
          /\ caller' = [caller EXCEPT ![c].pc = "turn", ![c].id = dictConn.next]
          /\ toServer' = Append(toServer, [id |-> dictConn.next, kind |-> DictCommands[c]])
          /\ dictConn' = [dictConn EXCEPT !.next = @ + 1]
       \/ /\ caller' = [caller EXCEPT ![c].pc = "done", ![c].error = TRUE]
          /\ dictConn' = [dictConn EXCEPT !.next = @ + 1, !.state = "broken"]
          /\ UNCHANGED toServer
    /\ UNCHANGED answers

\* (a mistake, for the properties to find)
BugNoTurns(c) == TRUE

HasTurn(c) == dictConn.turn = caller[c].id
StartResponse(c) ==
    /\ caller[c].pc = "turn"
    /\ HasTurn(c)
    /\ Goes(c, "first")
    /\ UNCHANGED <<dictConn, toServer, answers>>

\* EndResponse, as the call returns.
Returns(c, with) ==
    /\ caller' = [caller EXCEPT ![c] = [with EXCEPT !.pc = "done"]]
    /\ dictConn' = [dictConn EXCEPT !.turn = @ + 1]

\* The next line is read; the caller notes whose it was.
Reading(c, pc) == caller[c].pc = pc /\ answers # <<>>
Noted(c) == [caller[c] EXCEPT !.read = @ \cup {answers[1].of}]
Failed(c) == [Noted(c) EXCEPT !.error = TRUE, !.defs = <<>>]
Read == answers' = Tail(answers) /\ UNCHANGED toServer
Unexpected(c) == Read /\ Returns(c, Failed(c))
Skips == [dictConn EXCEPT !.skips = TRUE]

\* 110, or 150 with the number of the definitions, or with none that can be read.
ReadsFirst(c) ==
    /\ Reading(c, "first")
    /\ IF answers[1].kind # DictCommands[c] THEN Unexpected(c)
       ELSE IF answers[1].value = Malformed
       THEN /\ Read
            /\ caller' = [caller EXCEPT ![c] = [Failed(c) EXCEPT !.pc = "done"]]
            /\ dictConn' = [Skips EXCEPT !.turn = @ + 1]
       ELSE /\ Read
            /\ caller' = [caller EXCEPT ![c] =
                    [Noted(c) EXCEPT !.pc = IF DictCommands[c] = "dicts" THEN "lines" ELSE "header",
                                     !.left = answers[1].value]]
            /\ UNCHANGED dictConn

\* The dictionaries up to the dot; a line that is none fails the call, when the last
\* line is read.
ReadsDicts(c) ==
    /\ Reading(c, "lines")
    /\ Read
    /\ caller' = [caller EXCEPT ![c] =
            [Noted(c) EXCEPT !.pc = "last", !.error = answers[1].kind # "text" \/ answers[1].value = "bad"]]
    /\ UNCHANGED dictConn

ReadsHeader(c) ==
    /\ Reading(c, "header")
    /\ caller[c].left > 0
    /\ IF answers[1].kind # "header" THEN Unexpected(c)
       ELSE LET words == Fields(answers[1].value.line) IN
            /\ Read
            /\ caller' = [caller EXCEPT ![c] =
                    IF Len(words) < 3 THEN [Noted(c) EXCEPT !.left = @ - 1]
                    ELSE [Noted(c) EXCEPT !.pc = "text",
                                          !.defs = Append(@, [words |-> SubSeq(words, 1, 3),
                                                              header |-> answers[1].value])]]
            /\ dictConn' = IF Len(words) < 3 THEN Skips ELSE dictConn

ReadsText(c) ==
    /\ Reading(c, "text")
    /\ Read
    /\ caller' = [caller EXCEPT ![c] = [Noted(c) EXCEPT !.pc = "header", !.left = @ - 1]]
    /\ UNCHANGED dictConn

\* 250; the result is kept, with an error if it is another line.
ReadsLast(c) ==
    /\ \/ Reading(c, "last")
       \/ Reading(c, "header") /\ caller[c].left = 0
    /\ Read
    /\ Returns(c, [Noted(c) EXCEPT !.error = @ \/ answers[1].kind # "ok"])

-----------------------------------------------------------------------------
(* The server (not in the repository).  It may know no word, and list a     *)
(* dictionary without a description.                                        *)

Header(id, h) == Line(id, "header", h)
Answer(r) ==
    {<<Line(r.id, "no", 0)>>}
    \cup (IF r.kind = "dicts"
          THEN {<<Line(r.id, "dicts", 0), Line(r.id, "text", v), Line(r.id, "ok", 0)>> : v \in {"good", "bad"}}
          ELSE {<<Line(r.id, "define", 1), Header(r.id, h), Line(r.id, "text", "good"), Line(r.id, "ok", 0)>> :
                    h \in Headers}
               \cup {<<Line(r.id, "define", n), Line(r.id, "ok", 0)>> : n \in {0, Malformed}})

ServerAnswers ==
    /\ toServer # <<>>
    /\ \E lines \in Answer(Head(toServer)) : answers' = answers \o lines
    /\ toServer' = Tail(toServer)
    /\ UNCHANGED <<dictConn, caller>>

\* The program is done, or waits for a turn or a line that does not come.
DictOver ==
    /\ toServer = <<>>
    /\ dictConn.state # "new"
    /\ \A c \in DictCallers :
            \/ caller[c].pc = "done"
            \/ caller[c].pc = "idle" /\ dictConn.state = "closed"
            \/ caller[c].pc = "turn" /\ ~HasTurn(c)
            \/ caller[c].pc \notin {"idle", "turn"} /\ answers = <<>>
    /\ UNCHANGED dictVars

-----------------------------------------------------------------------------

DictNext ==
    \/ Greeted \/ ServerAnswers \/ DictOver
    \/ \E c \in DictCallers :
        Cmd(c) \/ StartResponse(c) \/ ReadsFirst(c) \/ ReadsDicts(c) \/ ReadsHeader(c)
            \/ ReadsText(c) \/ ReadsLast(c)

DictInit ==
    /\ dictConn = [state |-> "new", next |-> 0, turn |-> 0, skips |-> FALSE]
    /\ caller = [c \in DictCallers |-> Idle]
    /\ toServer = <<>>
    /\ answers = <<>>

DictSpec == DictInit /\ [][DictNext]_dictVars

-----------------------------------------------------------------------------
(* Properties. *)

\* StartResponse and EndResponse (dict.go): while no call left a part of its answer, the
\* lines that a call reads answer its own command, and it leaves none of them.
AnswersAreOwn ==
    ~dictConn.skips =>
        /\ \A c \in DictCallers : caller[c].read \subseteq {caller[c].id}
        /\ \A c \in DictCallers : caller[c].pc = "done" /\ caller[c].read # {} =>
                \A i \in DOMAIN answers : answers[i].of # caller[c].id

\* fields (dict.go): a definition has the words that the server quoted.
WordsAreKept ==
    \A c \in DictCallers : \A i \in DOMAIN caller[c].defs :
        caller[c].defs[i].words = caller[c].defs[i].header.words

DefinitionsAreRight == AnswersAreOwn /\ WordsAreKept
=============================================================================
