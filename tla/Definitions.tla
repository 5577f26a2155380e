---------------------------- MODULE Definitions ----------------------------
(***************************************************************************)
(* The service definitions SvcForge renders and what the service managers  *)
(* read in them: the arguments, the environment and the texts of an        *)
(* application pass through one or two rounds of quoting and back.         *)
(*                                                                         *)
(* A text is a sequence of characters, of which only those that mean       *)
(* something to a parser are told apart; "x" stands for all others, and    *)
(* "?" for what a parser puts in the place of a character it expands or    *)
(* does not accept.  The parsers are not in src/: they follow the manuals  *)
(* of systemd.service, systemd.exec and the shell, on which the rendering  *)
(* relies, and openrc-run, which passes the variables of a command to eval *)
(* without quotes.                                                         *)
(***************************************************************************)
EXTENDS Integers, SequencesExt

CONSTANTS
    Values,    \* the texts an application may declare
    MaxWords   \* the number of arguments (a bound of the model)

\* What a shell expands or obeys is like "$" to it.
Special == {" ", "'", "\"", "\\", "%", "$"}

Characters == {"x", "?"} \cup Special

Texts == Seq(Characters)

\* App.Validate excludes line breaks and NUL, and nothing else.
ASSUME ValuesAssumption == Values \subseteq Seq({"x"} \cup Special)

ASSUME MaxWordsAssumption == MaxWords \in Nat

-----------------------------------------------------------------------------
(* Rendering                                                               *)

\* strings.ReplaceAll of a character.
Replace(text, char, by) ==
    FlattenSeq([i \in DOMAIN text |-> IF text[i] = char THEN by ELSE <<text[i]>>])

\* The elements, separated by blanks.
Joined(texts) ==
    FlattenSeq([i \in DOMAIN texts |-> IF i = 1 THEN texts[i] ELSE <<" ">> \o texts[i]])

Doubled(text, char) == Replace(text, char, <<char, char>>)

\* Mutant of Escaped.
Escaped_QuoteFirst(text) == Doubled(Replace(text, "\"", <<"\\", "\"">>), "\\")

\* Backslashes first: those that escape a quote are not doubled.
Escaped(text) == Replace(Doubled(text, "\\"), "\"", <<"\\", "\"">>)

systemdCommandArg(text) ==
    <<"\"">> \o Doubled(Doubled(Escaped(text), "%"), "$") \o <<"\"">>

systemdText(text) == Doubled(text, "%")

shellQuote(text) ==
    <<"'">> \o Replace(text, "'", <<"'", "\"", "'", "\"", "'">>) \o <<"'">>

\* command_args=: OpenRC evaluates the value of the variable once more.
CommandArgs(args) == shellQuote(Joined([i \in DOMAIN args |-> shellQuote(args[i])]))

\* ExecStart=, after the path of the executable.
ExecStart(args) == Joined([i \in DOMAIN args |-> systemdCommandArg(args[i])])

-----------------------------------------------------------------------------
(* Reading                                                                 *)

Quotes == {"none", "'", "\""}

States == [words : Seq(Texts), word : Texts, open : BOOLEAN,
           quote : Quotes, escaped : BOOLEAN]

Scan == [words |-> <<>>, word |-> <<>>, open |-> FALSE, quote |-> "none", escaped |-> FALSE]

\* A text read one character after the other.
Scanned(step, start, text) == FoldLeft(LAMBDA s, char : step[char][s], start, text)

Add(s, char) == [s EXCEPT !.word = Append(@, char), !.open = TRUE, !.escaped = FALSE]

Escape(s) == [s EXCEPT !.escaped = TRUE]

Quote(s, quote) == [s EXCEPT !.quote = quote, !.open = TRUE]

EndWord(s) ==
    IF s.open THEN [s EXCEPT !.words = Append(@, s.word), !.word = <<>>, !.open = FALSE]
              ELSE s

\* One character of a line that systemd splits into words.
SystemdChar == [char \in Characters |-> [s \in States |->
    IF s.escaped THEN Add(s, IF char \in {"\\", "\"", "'"} THEN char ELSE "?")
    ELSE CASE char = "\\"                             -> Escape(s)
           [] char = s.quote                          -> Quote(s, "none")
           [] s.quote = "none" /\ char \in {"'", "\""} -> Quote(s, char)
           [] s.quote = "none" /\ char = " "          -> EndWord(s)
           [] OTHER                                   -> Add(s, char)]]

\* One character of a shell command.
ShellChar == [char \in Characters |-> [s \in States |->
    IF s.escaped \/ (s.quote = "'" /\ char # "'") THEN Add(s, char)
    ELSE CASE char = "\\"                             -> Escape(s)
           [] char = "$"                              -> Add(s, "?")
           [] char = s.quote                          -> Quote(s, "none")
           [] s.quote = "none" /\ char \in {"'", "\""} -> Quote(s, char)
           [] s.quote = "none" /\ char = " "          -> EndWord(s)
           [] OTHER                                   -> Add(s, char)]]

\* What is between the blanks, whatever the quotes.
FieldsChar == [char \in Characters |-> [s \in States |->
    IF char = " " THEN EndWord(s) ELSE Add(s, char)]]

\* Two of doubled stand for one; one alone begins an expansion.
ExpandedChar(doubled) == [char \in Characters |-> [s \in States |->
    IF s.escaped THEN Add(s, IF char = doubled THEN char ELSE "?")
    ELSE IF char = doubled THEN Escape(s) ELSE Add(s, char)]]

\* Whether the text so far ends in a backslash that is not itself escaped.
ContinuedChar == [char \in Characters |-> [escaped \in BOOLEAN |-> ~escaped /\ char = "\\"]]

SystemdWords(line) == EndWord(Scanned(SystemdChar, Scan, line)).words

ShellWords(line) == EndWord(Scanned(ShellChar, Scan, line)).words

Fields(text) == EndWord(Scanned(FieldsChar, Scan, text)).words

Expanded(text, char) ==
    LET end == Scanned(ExpandedChar(char), Scan, text)
    IN  IF end.escaped THEN Append(end.word, "?") ELSE end.word

\* Specifiers in every directive; variables only in the arguments of a command.
SystemdArguments(line) ==
    LET words == SystemdWords(line)
    IN  [i \in DOMAIN words |-> Expanded(Expanded(words[i], "%"), "$")]

SystemdEnvironment(line) ==
    LET words == SystemdWords(line)
    IN  [i \in DOMAIN words |-> Expanded(words[i], "%")]

\* The path of the command is not subject to variables.
SystemdCommand(line) == SystemdEnvironment(line)

\* The next line belongs to this one.
Continued(line) == Scanned(ContinuedChar, FALSE, line)

\* Blanks at either end.
Blank(text) == text # <<>> /\ (Head(text) = " " \/ Last(text) = " ")

SystemdValue(line) ==
    << IF Continued(line) \/ Blank(line) THEN Append(line, "?") ELSE Expanded(line, "%") >>

\* The value of a variable becomes words of a command: it is split, joined and read again.
OpenRCCommandWords(line) == ShellWords(Joined(Fields(FlattenSeq(ShellWords(line)))))

-----------------------------------------------------------------------------
(* From the application to its process                                     *)

\* Kinds of directives: how they are rendered and read.  "command" is the install path,
\* "path" the working directory, "text" the description.
Kinds == {"arguments", "command", "environment", "path", "text"}

\* Paths must be absolute.
Declarable(k, value) == k \in {"command", "path"} => value # <<>> /\ Head(value) = "x"

Managers == {"systemd", "openrc"}

VARIABLES
    pc,        \* "declared", "defined" or "read"
    manager,   \* the service manager of the host
    kind,      \* the directive looked at
    declared,  \* the application's values: the arguments, or one
    line,      \* the directive in the definition
    got        \* what the manager makes of it

vars == <<pc, manager, kind, declared, line, got>>

Init ==
    /\ pc = "declared"
    /\ manager \in Managers
    /\ kind \in Kinds
    /\ declared \in UNION {[1 .. n -> Values] :
                               n \in IF kind = "arguments" THEN 1 .. MaxWords ELSE {1}}
    /\ \A i \in DOMAIN declared : Declarable(kind, declared[i])
    /\ line = <<>> /\ got = <<>>

\* renderSystemdUnit
SystemdLine ==
    CASE kind = "arguments"              -> ExecStart(declared)
      [] kind \in {"command", "environment"} -> systemdCommandArg(declared[1])
      [] kind \in {"path", "text"}       -> systemdText(declared[1])

\* renderOpenRCScript
OpenRCLine ==
    IF kind = "arguments" THEN CommandArgs(declared) ELSE shellQuote(declared[1])

Rendering == IF manager = "systemd" THEN SystemdLine ELSE OpenRCLine

Define ==
    /\ pc = "declared"
    /\ line' = Rendering
    /\ pc' = "defined"
    /\ UNCHANGED <<manager, kind, declared, got>>

SystemdReading ==
    CASE kind = "arguments"        -> SystemdArguments(line)
      [] kind = "command"          -> SystemdCommand(line)
      [] kind = "environment"      -> SystemdEnvironment(line)
      [] kind \in {"path", "text"} -> SystemdValue(line)

OpenRCReading ==
    IF kind \in {"environment", "text"} THEN ShellWords(line) ELSE OpenRCCommandWords(line)

Read ==
    /\ pc = "defined"
    /\ got' = IF manager = "systemd" THEN SystemdReading ELSE OpenRCReading
    /\ pc' = "read"
    /\ UNCHANGED <<manager, kind, declared, line>>

Next == Define \/ Read

Spec == Init /\ [][Next]_vars

-----------------------------------------------------------------------------

\* systemdCommandArg doubles a dollar that only arguments turn back into one.
DollarDoubled ==
    /\ manager = "systemd" /\ kind \in {"command", "environment"}
    /\ Contains(declared[1], "$")

\* systemdText escapes neither blanks at the ends nor a backslash before the line break.
EndsMisread ==
    /\ manager = "systemd" /\ kind \in {"path", "text"}
    /\ Continued(declared[1]) \/ Blank(declared[1])

\* renderOpenRCScript quotes arguments twice, paths once.
ReadTwice ==
    /\ manager = "openrc" /\ kind \in {"command", "path"}
    /\ \E char \in Special \ {"%"} : Contains(declared[1], char)

\* No quotes keep blanks apart that the shell joins to one.
BlanksJoined ==
    /\ manager = "openrc" /\ kind = "arguments"
    /\ \E i \in DOMAIN declared :
          \E j \in 2 .. Len(declared[i]) : declared[i][j - 1] = " " /\ declared[i][j] = " "

(***************************************************************************)
(* The process gets what the application declares, whatever characters are *)
(* in it, with exactly four exceptions.                                    *)
(***************************************************************************)
ArrivesAsDeclared ==
    pc = "read" =>
        (got = declared <=> ~DollarDoubled /\ ~EndsMisread /\ ~ReadTwice /\ ~BlanksJoined)

=============================================================================
