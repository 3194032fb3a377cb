------------------------------- MODULE Messages -------------------------------
(***************************************************************************)
(* The messages Model and MessageBody in their three copies.  Scripts that *)
(* are run by hand make the copies from proto/Message.proto (and that file *)
(* has since been given another package), so each is written down from its *)
(* own code: what its accessors, serializer, parser and object form say of *)
(* each field.  The names are those of the accessors.                      *)
(***************************************************************************)
EXTENDS WireFormat

-----------------------------------------------------------------------------
(* proto/Message_pb.js, from which js/bundle.js is to be built.            *)

PbCmdType ==
  [ONLINE |-> 0, OFFLINE |-> 1, HEARBEAT |-> 2, DATA |-> 3, NOTIFICATION |-> 4]

PbModelFields == [Cmd |-> 1, From |-> 2, To |-> 3, Groupid |-> 4, Content |-> 5]

PbModelWrites ==
  <<F(1, "enum", "Cmd"), F(2, "string", "From"), F(3, "string", "To"),
    F(4, "string", "Groupid"), F(5, "bytes", "Content")>>

PbModelReads ==
  {F(1, "enum", "Cmd"), F(2, "string", "From"), F(3, "string", "To"),
   F(4, "string", "Groupid"), F(5, "bytes", "Content")}

PbModelObject == [cmd |-> 1, from |-> 2, to |-> 3, groupid |-> 4, content |-> 5]

PbModel ==
  [lang |-> "js", fields |-> PbModelFields, writes |-> PbModelWrites,
   reads |-> PbModelReads, object |-> PbModelObject, base64 |-> {"content"}]

PbBodyFields == [Title |-> 1, Content |-> 2, Time |-> 3, Type |-> 4, Extend |-> 5]

PbBodyWrites ==
  <<F(1, "string", "Title"), F(2, "string", "Content"), F(3, "string", "Time"),
    F(4, "uint32", "Type"), F(5, "string", "Extend")>>

PbBodyReads ==
  {F(1, "string", "Title"), F(2, "string", "Content"), F(3, "string", "Time"),
   F(4, "uint32", "Type"), F(5, "string", "Extend")}

PbBodyObject == [title |-> 1, content |-> 2, time |-> 3, type |-> 4, extend |-> 5]

PbBody ==
  [lang |-> "js", fields |-> PbBodyFields, writes |-> PbBodyWrites,
   reads |-> PbBodyReads, object |-> PbBodyObject, base64 |-> {}]

-----------------------------------------------------------------------------
(* The copy in js/bundle.js, which the pages load.                         *)

BundledCmdType ==
  [ONLINE |-> 0, OFFLINE |-> 1, HEARBEAT |-> 2, DATA |-> 3, NOTIFICATION |-> 4]

BundledModelFields == [Cmd |-> 1, From |-> 2, To |-> 3, Groupid |-> 4, Content |-> 5]

BundledModelWrites ==
  <<F(1, "enum", "Cmd"), F(2, "string", "From"), F(3, "string", "To"),
    F(4, "string", "Groupid"), F(5, "bytes", "Content")>>

(* Mutant: the copy is older than the message's last two numbers.          *)
StaleReads ==
  {F(1, "enum", "Cmd"), F(2, "string", "From"), F(3, "string", "To"),
   F(5, "string", "Groupid"), F(4, "bytes", "Content")}

BundledModelReads ==
  {F(1, "enum", "Cmd"), F(2, "string", "From"), F(3, "string", "To"),
   F(4, "string", "Groupid"), F(5, "bytes", "Content")}

BundledModelObject == [cmd |-> 1, from |-> 2, to |-> 3, groupid |-> 4, content |-> 5]

BundledModel ==
  [lang |-> "js", fields |-> BundledModelFields, writes |-> BundledModelWrites,
   reads |-> BundledModelReads, object |-> BundledModelObject, base64 |-> {"content"}]

BundledBodyFields == [Title |-> 1, Content |-> 2, Time |-> 3, Type |-> 4, Extend |-> 5]

BundledBodyWrites ==
  <<F(1, "string", "Title"), F(2, "string", "Content"), F(3, "string", "Time"),
    F(4, "uint32", "Type"), F(5, "string", "Extend")>>

BundledBodyReads ==
  {F(1, "string", "Title"), F(2, "string", "Content"), F(3, "string", "Time"),
   F(4, "uint32", "Type"), F(5, "string", "Extend")}

BundledBodyObject == [title |-> 1, content |-> 2, time |-> 3, type |-> 4, extend |-> 5]

BundledBody ==
  [lang |-> "js", fields |-> BundledBodyFields, writes |-> BundledBodyWrites,
   reads |-> BundledBodyReads, object |-> BundledBodyObject, base64 |-> {}]

-----------------------------------------------------------------------------
(* MessageInfo.java, which the nodes use.                                  *)

JavaCmdType ==
  [ONLINE |-> 0, OFFLINE |-> 1, HEARBEAT |-> 2, DATA |-> 3, NOTIFICATION |-> 4]

JavaModelFields == [Cmd |-> 1, From |-> 2, To |-> 3, Groupid |-> 4, Content |-> 5]

JavaModelWrites ==
  <<F(1, "enum", "Cmd"), F(2, "string", "From"), F(3, "string", "To"),
    F(4, "string", "Groupid"), F(5, "bytes", "Content")>>

JavaModelReads ==
  {F(8, "enum", "Cmd"), F(18, "string", "From"), F(26, "string", "To"),
   F(34, "string", "Groupid"), F(42, "bytes", "Content")}

JavaModel ==
  [lang |-> "java", fields |-> JavaModelFields, writes |-> JavaModelWrites,
   reads |-> JavaModelReads]

JavaBodyFields == [Title |-> 1, Content |-> 2, Time |-> 3, Type |-> 4, Extend |-> 5]

JavaBodyWrites ==
  <<F(1, "string", "Title"), F(2, "string", "Content"), F(3, "string", "Time"),
    F(4, "uint32", "Type"), F(5, "string", "Extend")>>

JavaBodyReads ==
  {F(10, "string", "Title"), F(18, "string", "Content"), F(26, "string", "Time"),
   F(32, "uint32", "Type"), F(42, "string", "Extend")}

JavaBody ==
  [lang |-> "java", fields |-> JavaBodyFields, writes |-> JavaBodyWrites,
   reads |-> JavaBodyReads]

=============================================================================
