----------------- MODULE TSProgramSpecificInformationTable -----------------
(***************************************************************************)
(* TSProgramSpecificInformationTable: the part that all sections share.    *)
(* Constant-level.  A section is its sectionDataExcludingCrc, the bytes    *)
(* between the section_length and the CRC.                                 *)
(***************************************************************************)
EXTENDS TSStreamType

PSI_CRC_LEN == 4

\* The largest section_length that initWithTableId accepts.
MaxSectionLength == 1021

\* What a section says of itself, as its getters read it.
Headers == [byte4And5 : Bits(16), versionNumber : Bits(5), currentNextIndicator : BOOLEAN,
            sectionNumber : Byte, lastSectionNumber : Byte]

\* makeCommonSectionDataFromFirstTwoBytes
CommonSectionData(header) ==
    <<header.byte4And5 \div 256, header.byte4And5 % 256,
      192 + 2 * (header.versionNumber % 32) + (IF header.currentNextIndicator THEN 1 ELSE 0),
      header.sectionNumber, header.lastSectionNumber>>

versionNumber(section) ==
    LET byte3 == ReadUInt8(Skip(Make(section), 2)).value
    IN  IF Len(section) < 3 THEN 0 ELSE (byte3 % 64) \div 2

\* A getter whose byte is not there returns zero.
HeaderOf(section) ==
    [byte4And5            |-> ReadUInt16BE(Make(section)).value,
     versionNumber        |-> versionNumber(section),
     currentNextIndicator |-> ReadUInt8(Skip(Make(section), 2)).value % 2 = 1,
     sectionNumber        |-> ReadUInt8(Skip(Make(section), 3)).value,
     lastSectionNumber    |-> ReadUInt8(Skip(Make(section), 4)).value]

=============================================================================
