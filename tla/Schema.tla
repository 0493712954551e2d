------------------------------- MODULE Schema -------------------------------
(***************************************************************************)
(* The types of tl/generated/core.go: for every constructor and function   *)
(* its number and its fields, in the order in which Encode writes and      *)
(* Decode reads them, and for every class the constructors its Decode      *)
(* function knows.  The numbers stand for the 32-bit ones of the schema.   *)
(***************************************************************************)
EXTENDS Naturals, Sequences

Int32  == <<"fixed", "int">>
Long   == <<"fixed", "long">>
Int128 == <<"raw", "int128">>
Int256 == <<"raw", "int256">>
Flags  == <<"fixed", "flags">>
Bytes  == <<"bytes", "bytes">>
String == <<"bytes", "string">>
VectorOf(t) == <<"vector", t>>
Class(c)    == <<"class", c>>

\* Bytes of a field without a length of its own.
Width == [int |-> 4, flags |-> 4, long |-> 8, int128 |-> 16, int256 |-> 32]

T(id, fields) == [id |-> id, fields |-> fields]

ResPQ == T(1, <<Int128, Int128, String, VectorOf("long")>>)
PQInnerDataDc == T(2, <<String, String, String, Int128, Int128, Int256, Int32>>)
ServerDHParamsOk == T(3, <<Int128, Int128, String>>)
ServerDHParamsFail == T(4, <<Int128, Int128, Int128>>)
ServerDHInnerData == T(5, <<Int128, Int128, Int32, String, String, Int32>>)
ClientDHInnerData == T(6, <<Int128, Int128, Long, String>>)
DhGenOk == T(7, <<Int128, Int128, Int128>>)
DhGenRetry == T(8, <<Int128, Int128, Int128>>)
DhGenFail == T(9, <<Int128, Int128, Int128>>)
RpcError == T(10, <<Int32, String>>)
MsgsAck == T(11, <<VectorOf("long")>>)
BadMsgNotification == T(12, <<Long, Int32, Int32>>)
BadServerSalt == T(13, <<Long, Int32, Int32, Long>>)
NewSessionCreated == T(14, <<Long, Long, Long>>)
Pong == T(15, <<Long, Long>>)
DestroySessionOk == T(16, <<Long>>)
DestroySessionNone == T(17, <<Long>>)
InputFile == T(18, <<Long, Int32, String, String>>)
InputFileBig == T(19, <<Long, Int32, String>>)
InputPeerEmpty == T(20, <<>>)
InputPeerSelf == T(21, <<>>)
InputPeerChat == T(22, <<Long>>)
InputPeerUser == T(23, <<Long, Long>>)
InputPeerChannel == T(24, <<Long, Long>>)
InputFileLocation == T(25, <<Long, Int32, Long, Bytes>>)
InputDocumentFileLocation == T(26, <<Long, Long, Bytes, String>>)
FileHash == T(27, <<Long, Int32, Bytes>>)
StorageFileUnknown == T(28, <<>>)
StorageFilePartial == T(29, <<>>)
StorageFileJpeg == T(30, <<>>)
StorageFilePng == T(31, <<>>)
StorageFileMp4 == T(32, <<>>)
UploadFile == T(33, <<Int32, Bytes>>)
UploadFileCdnRedirect == T(34, <<Int32, Bytes, Bytes, Bytes, VectorOf("FileHash")>>)
UploadCdnFile == T(35, <<Bytes>>)
UploadCdnFileReuploadNeeded == T(36, <<Bytes>>)
ReqPqMulti == T(37, <<Int128>>)
ReqDHParams == T(38, <<Int128, Int128, String, String, Long, String>>)
SetClientDHParams == T(39, <<Int128, Int128, String>>)
Ping == T(40, <<Long>>)
DestroySession == T(41, <<Long>>)
UploadSaveFilePart == T(42, <<Long, Int32, Bytes>>)
UploadSaveBigFilePart == T(43, <<Long, Int32, Int32, Bytes>>)
UploadGetFile == T(44, <<Flags, Class("InputFileLocationClass"), Long, Int32>>)
UploadGetCdnFile == T(45, <<Bytes, Long, Int32>>)
UploadReuploadCdnFile == T(46, <<Bytes, Bytes>>)
UploadGetCdnFileHashes == T(47, <<Bytes, Long>>)

InputPeer ==
  {"InputPeerEmpty", "InputPeerSelf", "InputPeerChat",
   "InputPeerUser", "InputPeerChannel"}
StorageFileType ==
  {"StorageFileUnknown", "StorageFilePartial", "StorageFileJpeg",
   "StorageFilePng", "StorageFileMp4"}
SetClientDHParamsAnswer == {"DhGenOk", "DhGenRetry", "DhGenFail"}
UploadFileClass == {"UploadFile", "UploadFileCdnRedirect"}
UploadCdnFileClass == {"UploadCdnFile", "UploadCdnFileReuploadNeeded"}
DestroySessionRes == {"DestroySessionOk", "DestroySessionNone"}
InputFileClass == {"InputFile", "InputFileBig"}
InputFileLocationClass == {"InputFileLocation", "InputDocumentFileLocation"}
BadMsgNotificationClass == {"BadMsgNotification", "BadServerSalt"}
ServerDHParams == {"ServerDHParamsOk", "ServerDHParamsFail"}

\* By name.
Types ==
  [ResPQ |-> ResPQ, PQInnerDataDc |-> PQInnerDataDc,
   ServerDHParamsOk |-> ServerDHParamsOk,
   ServerDHParamsFail |-> ServerDHParamsFail,
   ServerDHInnerData |-> ServerDHInnerData,
   ClientDHInnerData |-> ClientDHInnerData, DhGenOk |-> DhGenOk,
   DhGenRetry |-> DhGenRetry, DhGenFail |-> DhGenFail, RpcError |-> RpcError,
   MsgsAck |-> MsgsAck, BadMsgNotification |-> BadMsgNotification,
   BadServerSalt |-> BadServerSalt, NewSessionCreated |-> NewSessionCreated,
   Pong |-> Pong, DestroySessionOk |-> DestroySessionOk,
   DestroySessionNone |-> DestroySessionNone, InputFile |-> InputFile,
   InputFileBig |-> InputFileBig, InputPeerEmpty |-> InputPeerEmpty,
   InputPeerSelf |-> InputPeerSelf, InputPeerChat |-> InputPeerChat,
   InputPeerUser |-> InputPeerUser, InputPeerChannel |-> InputPeerChannel,
   InputFileLocation |-> InputFileLocation,
   InputDocumentFileLocation |-> InputDocumentFileLocation,
   FileHash |-> FileHash, StorageFileUnknown |-> StorageFileUnknown,
   StorageFilePartial |-> StorageFilePartial,
   StorageFileJpeg |-> StorageFileJpeg, StorageFilePng |-> StorageFilePng,
   StorageFileMp4 |-> StorageFileMp4, UploadFile |-> UploadFile,
   UploadFileCdnRedirect |-> UploadFileCdnRedirect,
   UploadCdnFile |-> UploadCdnFile,
   UploadCdnFileReuploadNeeded |-> UploadCdnFileReuploadNeeded,
   ReqPqMulti |-> ReqPqMulti, ReqDHParams |-> ReqDHParams,
   SetClientDHParams |-> SetClientDHParams, Ping |-> Ping,
   DestroySession |-> DestroySession,
   UploadSaveFilePart |-> UploadSaveFilePart,
   UploadSaveBigFilePart |-> UploadSaveBigFilePart,
   UploadGetFile |-> UploadGetFile, UploadGetCdnFile |-> UploadGetCdnFile,
   UploadReuploadCdnFile |-> UploadReuploadCdnFile,
   UploadGetCdnFileHashes |-> UploadGetCdnFileHashes]
Classes ==
  [InputPeer |-> InputPeer, StorageFileType |-> StorageFileType,
   SetClientDHParamsAnswer |-> SetClientDHParamsAnswer,
   UploadFileClass |-> UploadFileClass,
   UploadCdnFileClass |-> UploadCdnFileClass,
   DestroySessionRes |-> DestroySessionRes, InputFileClass |-> InputFileClass,
   InputFileLocationClass |-> InputFileLocationClass,
   BadMsgNotificationClass |-> BadMsgNotificationClass,
   ServerDHParams |-> ServerDHParams]

\* The fields there are.
Field ==
  {Int32, Long, Flags, Int128, Int256, Bytes, String}
    \cup {VectorOf(t) : t \in {"long"} \cup DOMAIN Types}
    \cup {Class(c) : c \in DOMAIN Classes}
    \cup {<<"type", t>> : t \in DOMAIN Types}

\* Every type is made of these.
ASSUME SchemaAssumption ==
  /\ \A t \in DOMAIN Types : Types[t].fields \in Seq(Field) /\ t \notin DOMAIN Width
  /\ \A c \in DOMAIN Classes : Classes[c] \subseteq DOMAIN Types

=============================================================================
