--------------------------------- MODULE Cli ---------------------------------
(***************************************************************************)
(* byteveil_cli.cpp: parse() and the routing of main().  The command line   *)
(* is revealed argument by argument; the input file is one of a few kinds   *)
(* of content; reading and decoding may fail, and so may writing, whether   *)
(* the code notices it or not.  What a decoder does inside is left to it:   *)
(* it yields a result or none.  The decompilation that a time limit bounds  *)
(* is module Watchdog, which extends this one.                              *)
(***************************************************************************)
EXTENDS Integers

CONSTANT MaxArgs   \* bound on the length of the command line

ASSUME MaxArgsAssumption == MaxArgs \in Nat

VARIABLES
    content,   \* what the input file holds, fixed
    pc,        \* "parse", "read", "route", "decode", "cfg", "output", "return" or "end"
    args,      \* the number of arguments parsed
    o,         \* Options
    reader,    \* the decoder that main has chosen
    cfgFile, outFile, stdout,  \* what has become of each, see below
    code       \* the exit code, or Running

cliVars == <<content, pc, args, o, reader, cfgFile, outFile, stdout, code>>

Running == -1

(* Lua 5.1 chunks, Luau bytecode with and without the \x1bLuau signature,   *)
(* text, and a name that cannot be read.                                    *)
Contents == {"lua51", "signedLuau", "rawLuau", "text", "unreadable"}

(* Lua51::isChunk compares the first four bytes with \x1bLua, which is how  *)
(* \x1bLuau starts too.                                                     *)
IsChunk(c) == c \in {"lua51", "signedLuau"}

(* RobloxBytecode::isBytecode skips a \x1bLuau signature, if there is one.  *)
IsBytecode(c) == c \in {"signedLuau", "rawLuau"}

SourceFormats == {"lua", "luau"}
ListingFormats == {"disassemble", "cfg"}  \* and json, ir, structured, constants, ...
ReportFormats == {"protectors"}           \* and unpack, moonsec, moonsec-ir
Formats == SourceFormats \cup ListingFormats \cup ReportFormats \cup {"moonsec-bytecode"}

(* What strtoul makes of the texts that --timeout may be given: the value   *)
(* (86401 stands for anything larger) and whether it used up the text.      *)
StrToUL == [t \in {"20", "0", "86400", "86401", "", "20x"} |->
               CASE t = "20"    -> [value |-> 20,    atEnd |-> TRUE]
                 [] t = "0"     -> [value |-> 0,     atEnd |-> TRUE]
                 [] t = "86400" -> [value |-> 86400, atEnd |-> TRUE]
                 [] t = "86401" -> [value |-> 86401, atEnd |-> TRUE]
                 [] t = ""      -> [value |-> 0,     atEnd |-> TRUE]
                 [] t = "20x"   -> [value |-> 20,    atEnd |-> FALSE]]

CliInit ==
    /\ content \in Contents
    /\ pc = "parse"
    /\ args = 0
    /\ o = [input |-> "", output |-> "", format |-> "lua", cfg |-> "",
            analyze |-> FALSE, compileSource |-> TRUE, timeoutSec |-> 20]
    /\ reader = "none"
    /\ cfgFile = "none" /\ outFile = "none" /\ stdout = "none"
    /\ code = Running

files == <<cfgFile, outFile, stdout>>

(* writeFile reports an error in opening or writing the file; it returns    *)
(* before the stream is closed, so what it reports as written may be cut.   *)
(* Standard output is never checked: it is written out when the process     *)
(* returns.                                                                 *)
Written == {"complete", "cut"}
NotWritten == {"none", "failed"}

Exit(c) == pc' = "end" /\ code' = c

-----------------------------------------------------------------------------
(* parse().  Each action takes one option and the value that belongs to it. *)

MoreArgs(n) == pc = "parse" /\ args + n <= MaxArgs /\ args' = args + n

Parsing == UNCHANGED <<content, pc, reader, files, code>>

(* --help and --version end the process at once. *)
ParseInfo ==
    /\ MoreArgs(1)
    /\ Exit(0)
    /\ UNCHANGED <<content, o, reader, files>>

ParseFile(name) ==
    /\ MoreArgs(2)
    /\ o' = IF name = "cfg" THEN [o EXCEPT !.cfg = "file", !.format = "cfg"]
                            ELSE [o EXCEPT !.output = "file"]
    /\ Parsing

ParseFormat(f) ==
    /\ MoreArgs(2)
    /\ f \in Formats
    /\ o' = [o EXCEPT !.format = f]
    /\ Parsing

(* --disassemble and the dumps set the format too. *)
ParseFlag(f) ==
    /\ MoreArgs(1)
    /\ o' = CASE f = "disassemble" -> [o EXCEPT !.format = "disassemble"]
              [] f = "analyze"  -> [o EXCEPT !.analyze = TRUE]
              [] f = "bytecode" -> [o EXCEPT !.compileSource = FALSE]
              [] f = "source"   -> [o EXCEPT !.compileSource = TRUE]
              [] f = "quiet"    -> o
    /\ Parsing

ValidTimeout(text) == StrToUL[text].atEnd /\ StrToUL[text].value <= 86400

ParseTimeout(text) ==
    /\ MoreArgs(2)
    /\ ValidTimeout(text)
    /\ o' = [o EXCEPT !.timeoutSec = StrToUL[text].value]
    /\ Parsing

ParseInput ==
    /\ MoreArgs(1)
    /\ o.input = ""
    /\ o' = [o EXCEPT !.input = "file"]
    /\ Parsing

(* parse() returns false: a value is missing, the format or the time limit  *)
(* is not accepted, there is a second input, or at the end there is none.   *)
ParseReject ==
    /\ \/ MoreArgs(1)                                  \* no value
       \/ MoreArgs(2)                                  \* unknown format
       \/ MoreArgs(2) /\ \E t \in DOMAIN StrToUL : ~ ValidTimeout(t)
       \/ MoreArgs(1) /\ o.input # ""
       \/ MoreArgs(0) /\ args > 0 /\ o.input = ""
    /\ Exit(2)
    /\ UNCHANGED <<content, o, reader, files>>

(* Without any argument the usage is shown, and that is no error. *)
NoArguments ==
    /\ pc = "parse"
    /\ args = 0
    /\ Exit(0)
    /\ UNCHANGED <<content, args, o, reader, files>>

ParseDone ==
    /\ pc = "parse"
    /\ o.input # ""
    /\ pc' = "read"
    /\ UNCHANGED <<content, args, o, reader, files, code>>

-----------------------------------------------------------------------------
(* main(). *)

Keep == UNCHANGED <<content, args, o>>

Read ==
    /\ pc = "read"
    /\ IF content = "unreadable" THEN Exit(1) ELSE pc' = "route" /\ UNCHANGED code
    /\ UNCHANGED <<reader, files>> /\ Keep

(* Mutant: Luau bytecode is not looked for. *)
BinaryLua51Only == ~ o.compileSource \/ IsChunk(content)

Binary == ~ o.compileSource \/ IsChunk(content) \/ IsBytecode(content)

(* --analyze prints its indicators and leaves everything else alone. *)
Analyze ==
    /\ pc = "route"
    /\ o.analyze
    /\ reader' = "analyze"
    /\ stdout' = "buffered"
    /\ pc' = "return"
    /\ UNCHANGED <<cfgFile, outFile, code>> /\ Keep

(* The reports take any input and always have something to say. *)
RouteReport ==
    /\ pc = "route"
    /\ ~ o.analyze
    /\ o.format \in ReportFormats
    /\ reader' = "report"
    /\ pc' = "output"
    /\ UNCHANGED <<files, code>> /\ Keep

RouteMoonSec ==
    /\ pc = "route"
    /\ ~ o.analyze
    /\ o.format = "moonsec-bytecode"
    /\ reader' = "moonsec"
    /\ \/ o.output = "" /\ Exit(2)
       \/ o.output # "" /\ Exit(1)            \* nothing could be extracted
       \/ o.output # "" /\ pc' = "output" /\ UNCHANGED code
    /\ UNCHANGED files /\ Keep

Decoding == ~ o.analyze /\ o.format \in SourceFormats \cup ListingFormats

RouteLua51 ==
    /\ pc = "route"
    /\ Decoding
    /\ IsChunk(content)
    /\ reader' = "lua51"
    /\ pc' = "decode"
    /\ UNCHANGED <<files, code>> /\ Keep

RouteLuau ==
    /\ pc = "route"
    /\ Decoding
    /\ ~ IsChunk(content)
    /\ reader' = IF Binary THEN "luau" ELSE "compiler"
    /\ pc' = "decode"
    /\ UNCHANGED <<files, code>> /\ Keep

(* The decompilation is what the time limit is for. *)
Bounded == pc = "decode" /\ reader \in {"luau", "compiler"} /\ o.format \in SourceFormats

(* Mutant: the graph is not written when there is an output file. *)
DecodeOneFile ==
    /\ pc = "decode"
    /\ ~ Bounded
    /\ \/ Exit(1)
       \/ /\ reader = "lua51" => content = "lua51"
          /\ pc' = IF o.cfg # "" /\ o.format = "cfg" /\ o.output = "" THEN "cfg" ELSE "output"
          /\ UNCHANGED code
    /\ UNCHANGED <<reader, files>> /\ Keep

(* Any other decoder has a result or an error.  The header check of the     *)
(* Lua 5.1 reader refuses what is not a Lua 5.1 chunk.                      *)
Decode ==
    /\ pc = "decode"
    /\ ~ Bounded
    /\ \/ Exit(1)
       \/ /\ reader = "lua51" => content = "lua51"
          /\ pc' = IF o.cfg # "" /\ o.format = "cfg" THEN "cfg" ELSE "output"
          /\ UNCHANGED code
    /\ UNCHANGED <<reader, files>> /\ Keep

(* Mutant: the listing is printed before the file is known to be written. *)
WriteCfgPrintFirst ==
    /\ pc = "cfg"
    /\ stdout' = "buffered"
    /\ \/ cfgFile' \in Written /\ pc' = "output" /\ UNCHANGED code
       \/ cfgFile' \in NotWritten /\ Exit(1)
    /\ UNCHANGED <<reader, outFile>> /\ Keep

WriteCfg ==
    /\ pc = "cfg"
    /\ \/ cfgFile' \in Written /\ pc' = "output" /\ UNCHANGED code
       \/ cfgFile' \in NotWritten /\ Exit(1)
    /\ UNCHANGED <<reader, outFile, stdout>> /\ Keep

WriteOutput ==
    /\ pc = "output"
    /\ \/ /\ o.output = ""
          /\ stdout' = "buffered" /\ UNCHANGED outFile
          /\ pc' = "return" /\ UNCHANGED code
       \/ /\ o.output # ""
          /\ outFile' \in Written /\ UNCHANGED stdout
          /\ pc' = "return" /\ UNCHANGED code
       \/ /\ o.output # ""
          /\ outFile' \in NotWritten /\ UNCHANGED stdout
          /\ Exit(1)
    /\ UNCHANGED <<reader, cfgFile>> /\ Keep

(* return 0, and the buffers of standard output are written out. *)
Return ==
    /\ pc = "return"
    /\ stdout' \in IF stdout = "buffered" THEN Written ELSE {stdout}
    /\ Exit(0)
    /\ UNCHANGED <<reader, cfgFile, outFile>> /\ Keep

Parse == \/ ParseInfo \/ ParseInput \/ ParseReject \/ NoArguments \/ ParseDone
         \/ \E n \in {"cfg", "output"} : ParseFile(n)
         \/ \E f \in Formats : ParseFormat(f)
         \/ \E f \in {"disassemble", "analyze", "bytecode", "source", "quiet"} : ParseFlag(f)
         \/ \E t \in DOMAIN StrToUL : ParseTimeout(t)

Route == Read \/ Analyze \/ RouteReport \/ RouteMoonSec \/ RouteLua51 \/ RouteLuau
Output == WriteCfg \/ WriteOutput \/ Return

(* The steps of main outside the bounded decompilation. *)
CliNext == Parse \/ Route \/ Decode \/ Output

-----------------------------------------------------------------------------
TypeOK ==
    /\ content \in Contents
    /\ pc \in {"parse", "read", "route", "decode", "cfg", "output", "return", "end"}
    /\ args \in 0 .. MaxArgs
    /\ o.format \in Formats
    /\ o.timeoutSec \in 0 .. 86400
    /\ reader \in {"none", "analyze", "report", "moonsec", "lua51", "luau", "compiler"}
    /\ code \in {Running, 0, 1, 2, 124}

(* A run that fails, whichever step failed, or that the time limit ends has *)
(* put nothing on standard output, and no answer into the output file.      *)
FailureLeavesNoAnswer ==
    code \notin {Running, 0} => stdout = "none" /\ outFile \in NotWritten

(* A run that chose a decoder and succeeds has written its answer to one    *)
(* place, standard output or the output file, never to both, and has        *)
(* written the files it was asked for: the output file unless --analyze was *)
(* given, and the graph if the format is cfg.  (In the other cases it       *)
(* ignores them.)  No write that reported an error is among them; one that  *)
(* the code does not check may be cut.                                      *)
OneAnswer ==
    code = 0 /\ reader # "none" =>
        /\ (stdout \in Written) # (outFile \in Written)
        /\ stdout = "none" \/ outFile = "none"
        /\ o.output # "" => outFile \in Written \/ o.analyze
        /\ o.cfg # "" /\ o.format = "cfg" => cfgFile \in Written \/ o.analyze

(* Bytecode with a recognisable header is never handed to the compiler as   *)
(* source, in whatever order --source and --bytecode are given; a text is   *)
(* compiled unless --bytecode came last.                                    *)
CompilerSeesText ==
    /\ reader = "compiler" => content = "text" /\ o.compileSource
    /\ reader = "luau" => content = "rawLuau" \/ ~ o.compileSource
=============================================================================
